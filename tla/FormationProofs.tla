--------------------------- MODULE FormationProofs ----------------------------
(***************************************************************************)
(* Theorems about the formation of a covenant, for every set of protocols, *)
(* ceiling and threshold, and for every order of the calls; and about the  *)
(* page that shows it: any number of protocols, any wallets that come and  *)
(* go, and reads as torn, stale or orphaned as the loops allow.            *)
(***************************************************************************)
EXTENDS Formation, FiniteSetTheorems, TLAPS

-----------------------------------------------------------------------------
(* What the handlers write over an account is an account again.            *)

LEMMA ConstantFacts ==
  /\ IsFiniteSet(Protocols)
  /\ MaxMembers \in Nat \ {0}
  /\ Thresholds \subseteq 1..MaxMembers
BY CovenantAssumption DEF CovenantAssumption

LEMMA CovenantUpdates ==
  ASSUME NEW c \in Covenants
  PROVE  /\ \A t \in Thresholds :
              [NoCovenant EXCEPT !.status = "Draft", !.required_approvals = t]
                \in Covenants
         /\ \A n \in 0..MaxMembers : [c EXCEPT !.member_count = n] \in Covenants
         /\ \A n \in Nat : /\ [c EXCEPT !.ratified_count = n] \in Covenants
                           /\ [c EXCEPT !.armed_count = n] \in Covenants
         /\ \A S \in SUBSET Protocols, n \in Nat :
              [c EXCEPT !.status = "Ratified", !.member_set = S,
                        !.adapter_count = n] \in Covenants
         /\ [c EXCEPT !.status = "Armed"] \in Covenants
<1>1. 0 \in 0..MaxMembers
  BY ConstantFacts
<1> QED BY <1>1 DEF Covenants, NoCovenant

LEMMA MemberUpdates ==
  ASSUME NEW x \in Memberships
  PROVE  /\ \A r \in Roles :
              [NoMember EXCEPT !.exists = TRUE, !.role = r] \in Memberships
         /\ [x EXCEPT !.ratified = TRUE] \in Memberships
         /\ [x EXCEPT !.armed = TRUE] \in Memberships
BY DEF Memberships, NoMember, Roles

LEMMA CapabilityUpdates ==
  ASSUME NEW x \in Capabilities
  PROVE  /\ \A S \in SUBSET Protocols :
              /\ [NoCapability EXCEPT !.installed = TRUE, !.member_set = S]
                   \in Capabilities
              /\ [NoCapability EXCEPT !.installed = TRUE, !.armed = TRUE,
                                      !.member_set = S] \in Capabilities
         /\ [x EXCEPT !.armed = TRUE, !.suspended = FALSE] \in Capabilities
         /\ [x EXCEPT !.suspended = TRUE] \in Capabilities
BY DEF Capabilities, NoCapability

LEMMA OwnersCount ==
  ASSUME NEW S \in SUBSET Protocols
  PROVE  /\ IsFiniteSet(S) /\ Cardinality(S) \in Nat
         /\ IsFiniteSet(Owners(S)) /\ Cardinality(Owners(S)) \in Nat
<1>1. Owners(S) \subseteq Protocols
  BY DEF Owners
<1> QED BY <1>1, ConstantFacts, FS_Subset, FS_CardinalityType
-----------------------------------------------------------------------------
LEMMA CovenantTypeInit == CovenantInit => CovenantTypeOK
<1>1. 0 \in 0..MaxMembers
  BY ConstantFacts
<1>2. NoCovenant \in Covenants
  BY <1>1 DEF NoCovenant, Covenants
<1>3. NoMember \in Memberships
  BY DEF NoMember, Memberships, Roles
<1>4. NoCapability \in Capabilities
  BY DEF NoCapability, Capabilities
<1> QED BY <1>2, <1>3, <1>4 DEF CovenantInit, CovenantTypeOK

LEMMA CovenantTypeStep ==
  CovenantTypeOK /\ [CovenantNext]_covenantVars => CovenantTypeOK'
<1> SUFFICES ASSUME CovenantTypeOK, [CovenantNext]_covenantVars
             PROVE  CovenantTypeOK'
  OBVIOUS
<1> USE DEF CovenantTypeOK
<1>1. ASSUME NEW t \in Thresholds, CreateCovenant(t) PROVE CovenantTypeOK'
  BY <1>1, CovenantUpdates DEF CreateCovenant
<1>2. ASSUME NEW p \in Protocols, NEW role \in Roles, AddCovenantMember(p, role)
      PROVE  CovenantTypeOK'
  <2>1. covenant.member_count \in 0..MaxMembers
    BY DEF Covenants
  <2>2. covenant.member_count + 1 \in 0..MaxMembers
    BY <1>2, <2>1, ConstantFacts DEF AddCovenantMember
  <2>3. covenant' \in Covenants
    BY <1>2, <2>2, CovenantUpdates DEF AddCovenantMember
  <2>4. member[p] \in Memberships
    OBVIOUS
  <2>5. member' \in [Protocols -> Memberships]
    BY <1>2, <2>4, MemberUpdates DEF AddCovenantMember
  <2> QED BY <1>2, <2>3, <2>5 DEF AddCovenantMember
<1>3. ASSUME NEW p \in Protocols, RatifyCovenantMember(p)
      PROVE  CovenantTypeOK'
  <2>1. covenant.ratified_count + 1 \in Nat
    BY DEF Covenants
  <2>2. covenant' \in Covenants
    BY <1>3, <2>1, CovenantUpdates DEF RatifyCovenantMember
  <2>3. member[p] \in Memberships
    OBVIOUS
  <2>4. member' = [member EXCEPT ![p] = [member[p] EXCEPT !.ratified = TRUE]]
    BY <1>3 DEF RatifyCovenantMember
  <2>5. member' \in [Protocols -> Memberships]
    BY <2>3, <2>4, MemberUpdates
  <2> QED BY <1>3, <2>2, <2>5 DEF RatifyCovenantMember
<1>4. ASSUME NEW S \in SUBSET Protocols, RatifyCovenant(S)
      PROVE  CovenantTypeOK'
  BY <1>4, OwnersCount, CovenantUpdates DEF RatifyCovenant
<1>5. ASSUME NEW p \in Protocols,
             ArmCovenantMember(p) \/ \E S \in SUBSET Protocols : ArmTogether(p, S)
      PROVE  /\ covenant' \in Covenants
             /\ member' \in [Protocols -> Memberships]
  <2>1. covenant.armed_count + 1 \in Nat
    BY DEF Covenants
  <2>2. covenant' \in Covenants
    BY <1>5, <2>1, CovenantUpdates DEF ArmCovenantMember, ArmTogether
  <2>3. member[p] \in Memberships
    OBVIOUS
  <2>4. member' = [member EXCEPT ![p] = [member[p] EXCEPT !.armed = TRUE]]
    BY <1>5 DEF ArmCovenantMember, ArmTogether
  <2> QED BY <2>2, <2>3, <2>4, MemberUpdates
<1>6. ASSUME NEW p \in Protocols, ArmCovenantMember(p) PROVE CovenantTypeOK'
  BY <1>5, <1>6 DEF ArmCovenantMember
<1>7. ASSUME NEW p \in Protocols, NEW S \in SUBSET Protocols, ArmTogether(p, S)
      PROVE  CovenantTypeOK'
  <2>1. capability' \in [Protocols -> Capabilities]
    BY <1>7, CapabilityUpdates DEF ArmTogether
  <2> QED BY <1>5, <1>7, <2>1 DEF ArmTogether
<1>8. CASE ArmCovenant
  BY <1>8, CovenantUpdates DEF ArmCovenant
<1>9. ASSUME NEW p \in Protocols, NEW S \in SUBSET Protocols,
             InstallCapability(p, S)
      PROVE  CovenantTypeOK'
  BY <1>9, CapabilityUpdates DEF InstallCapability
<1>10. ASSUME NEW p \in Protocols, ArmCapability(p) PROVE CovenantTypeOK'
  <2>1. capability' = [capability EXCEPT ![p] =
          [capability[p] EXCEPT !.armed = TRUE, !.suspended = FALSE]]
    BY <1>10 DEF ArmCapability
  <2>2. [capability[p] EXCEPT !.armed = TRUE, !.suspended = FALSE] \in Capabilities
    BY CapabilityUpdates
  <2>3. capability' \in [Protocols -> Capabilities]
    BY <2>1, <2>2
  <2> QED BY <1>10, <2>3 DEF ArmCapability
<1>11. ASSUME NEW p \in Protocols, SuspendCapability(p) PROVE CovenantTypeOK'
  <2>1. capability' = [capability EXCEPT ![p] =
          [capability[p] EXCEPT !.suspended = TRUE]]
    BY <1>11 DEF SuspendCapability
  <2>2. [capability[p] EXCEPT !.suspended = TRUE] \in Capabilities
    BY CapabilityUpdates
  <2>3. capability' \in [Protocols -> Capabilities]
    BY <2>1, <2>2
  <2> QED BY <1>11, <2>3 DEF SuspendCapability
<1>12. ASSUME NEW p \in Protocols, InitializeIncident(p) PROVE CovenantTypeOK'
  <2>1. Snapshot \in [members : SUBSET Protocols,
                      required_approvals : {0} \cup Thresholds,
                      member_count : 0..MaxMembers]
    BY DEF Snapshot, Covenants
  <2>2. /\ snapshots' = snapshots \cup {Snapshot}
        /\ UNCHANGED <<covenant, member, capability, epochOver>>
    BY <1>12 DEF InitializeIncident
  <2> HIDE DEF Snapshot
  <2> QED BY <2>1, <2>2
<1>13. CASE EpochEnds
  BY <1>13 DEF EpochEnds
<1>14. CASE UNCHANGED covenantVars
  BY <1>14 DEF covenantVars
<1> QED
  BY <1>1, <1>2, <1>3, <1>4, <1>6, <1>7, <1>8, <1>9, <1>10, <1>11, <1>12,
     <1>13, <1>14 DEF CovenantNext, ByAuthority

(* Every account of a covenant keeps its type under every handler, and the *)
(* circle never outgrows MAX_INCIDENT_MEMBERS (create_covenant to          *)
(* initialize_incident, install_capability to suspend_capability).         *)
THEOREM CovenantTypeCorrect == CovenantSpec => []CovenantTypeOK
BY CovenantTypeInit, CovenantTypeStep, PTL DEF CovenantSpec
-----------------------------------------------------------------------------
(* The three counts, the freeze and the incidents.                         *)

(* What the properties need and do not say: only members ratify and only   *)
(* owners arm, nobody joins before the covenant is there or arms before    *)
(* the freeze, and no incident was opened before the covenant was armed.   *)
Consistent ==
  /\ CovenantTypeOK
  /\ Ratified \subseteq Joined /\ Armed \subseteq Owners(Joined)
  /\ covenant.status = "None" => Joined = {}
  /\ covenant.status \in {"None", "Draft"} => Armed = {}
  /\ covenant.status # "None" => covenant.required_approvals \in Thresholds
  /\ snapshots # {} => covenant.status = "Armed"

CovenantInv ==
  /\ Consistent
  /\ CountsAreMembers
  /\ FrozenSetIsComplete
  /\ IncidentsAreGrounded

LEMMA SetsOfMembers ==
  ASSUME CovenantTypeOK
  PROVE  /\ Joined \in SUBSET Protocols
         /\ Ratified \in SUBSET Protocols
         /\ Armed \in SUBSET Protocols
         /\ Owners(Joined) \subseteq Joined
BY DEF Joined, Ratified, Armed, Owners

LEMMA CovenantInvInit == CovenantInit => CovenantInv
<1> SUFFICES ASSUME CovenantInit PROVE CovenantInv
  OBVIOUS
<1>1. CovenantTypeOK
  BY CovenantTypeInit
<1>2. Joined = {} /\ Ratified = {} /\ Armed = {}
  BY DEF CovenantInit, NoMember, Joined, Ratified, Armed
<1>3. covenant = NoCovenant /\ snapshots = {}
  BY DEF CovenantInit
<1>4. Consistent
  BY <1>1, <1>2, <1>3 DEF Consistent, NoCovenant
<1>5. CountsAreMembers
  BY <1>2, <1>3, FS_EmptySet DEF CountsAreMembers, NoCovenant
<1>6. FrozenSetIsComplete /\ IncidentsAreGrounded
  BY <1>3 DEF FrozenSetIsComplete, IncidentsAreGrounded, NoCovenant
<1> QED BY <1>4, <1>5, <1>6 DEF CovenantInv

(* A step that leaves the covenant, its members and the snapshots alone.   *)
LEMMA OthersKeep ==
  ASSUME CovenantInv, CovenantTypeOK', UNCHANGED <<covenant, member, snapshots>>
  PROVE  CovenantInv'
BY DEF CovenantInv, Consistent, CountsAreMembers, FrozenSetIsComplete,
       IncidentsAreGrounded, Snapshot, Joined, Ratified, Armed, Owners

(* Before the freeze nothing is promised but the counts.                   *)
LEMMA DraftKeeps ==
  ASSUME Consistent', CountsAreMembers', covenant'.status = "Draft"
  PROVE  CovenantInv'
<1>1. snapshots' = {}
  BY DEF Consistent
<1> QED BY <1>1 DEF CovenantInv, FrozenSetIsComplete, IncidentsAreGrounded

LEMMA CovenantFields ==
  ASSUME NEW c \in Covenants
  PROVE  /\ \A t \in Thresholds :
              LET d == [NoCovenant EXCEPT !.status = "Draft",
                                          !.required_approvals = t]
              IN  /\ d.status = "Draft" /\ d.required_approvals = t
                  /\ d.member_count = 0 /\ d.ratified_count = 0
                  /\ d.armed_count = 0
         /\ \A n \in Nat :
              LET d == [c EXCEPT !.member_count = n]
              IN  /\ d.status = c.status /\ d.member_count = n
                  /\ d.required_approvals = c.required_approvals
                  /\ d.ratified_count = c.ratified_count
                  /\ d.armed_count = c.armed_count
         /\ \A n \in Nat :
              LET d == [c EXCEPT !.ratified_count = n]
              IN  /\ d.status = c.status /\ d.ratified_count = n
                  /\ d.required_approvals = c.required_approvals
                  /\ d.member_count = c.member_count
                  /\ d.armed_count = c.armed_count
         /\ \A n \in Nat :
              LET d == [c EXCEPT !.armed_count = n]
              IN  /\ d.status = c.status /\ d.armed_count = n
                  /\ d.required_approvals = c.required_approvals
                  /\ d.member_count = c.member_count
                  /\ d.ratified_count = c.ratified_count
                  /\ d.adapter_count = c.adapter_count
                  /\ d.member_set = c.member_set
         /\ \A S \in SUBSET Protocols, n \in Nat :
              LET d == [c EXCEPT !.status = "Ratified", !.member_set = S,
                                 !.adapter_count = n]
              IN  /\ d.status = "Ratified" /\ d.member_set = S
                  /\ d.adapter_count = n /\ d.armed_count = c.armed_count
                  /\ d.required_approvals = c.required_approvals
                  /\ d.member_count = c.member_count
                  /\ d.ratified_count = c.ratified_count
         /\ LET d == [c EXCEPT !.status = "Armed"]
            IN  /\ d.status = "Armed" /\ d.armed_count = c.armed_count
                /\ d.required_approvals = c.required_approvals
                /\ d.member_count = c.member_count
                /\ d.ratified_count = c.ratified_count
                /\ d.adapter_count = c.adapter_count
                /\ d.member_set = c.member_set
BY DEF Covenants, NoCovenant

LEMMA MemberFields ==
  ASSUME NEW x \in Memberships
  PROVE  /\ \A r \in Roles :
              LET y == [NoMember EXCEPT !.exists = TRUE, !.role = r]
              IN  y.exists /\ ~y.ratified /\ ~y.armed /\ y.role = r
         /\ LET y == [x EXCEPT !.ratified = TRUE]
            IN  /\ y.ratified /\ y.exists = x.exists
                /\ y.armed = x.armed /\ y.role = x.role
         /\ LET y == [x EXCEPT !.armed = TRUE]
            IN  /\ y.armed /\ y.exists = x.exists
                /\ y.ratified = x.ratified /\ y.role = x.role
BY DEF Memberships, NoMember

LEMMA AddJoins ==
  ASSUME Consistent, NEW p \in Protocols, NEW r \in Roles, ~member[p].exists,
         member' = [member EXCEPT ![p] =
                      [NoMember EXCEPT !.exists = TRUE, !.role = r]]
  PROVE  /\ Joined' = Joined \cup {p} /\ p \notin Joined
         /\ Ratified' = Ratified /\ Armed' = Armed
<1>1. member \in [Protocols -> Memberships] /\ member[p] \in Memberships
  BY DEF Consistent, CovenantTypeOK
<1>2. p \notin Joined /\ p \notin Ratified /\ p \notin Armed
  BY SetsOfMembers DEF Consistent, Joined
<1>3. /\ member'[p].exists /\ ~member'[p].ratified /\ ~member'[p].armed
      /\ \A q \in Protocols \ {p} : member'[q] = member[q]
  BY <1>1, MemberFields
<1> QED BY <1>2, <1>3 DEF Joined, Ratified, Armed

LEMMA RatifyMarks ==
  ASSUME CovenantTypeOK, NEW p \in Protocols,
         member' = [member EXCEPT ![p].ratified = TRUE]
  PROVE  /\ Joined' = Joined /\ Ratified' = Ratified \cup {p} /\ Armed' = Armed
         /\ Owners(Joined)' = Owners(Joined)
<1>1. member \in [Protocols -> Memberships] /\ member[p] \in Memberships
  BY DEF CovenantTypeOK
<1>2. member' = [member EXCEPT ![p] = [member[p] EXCEPT !.ratified = TRUE]]
  OBVIOUS
<1>3. /\ member'[p].ratified /\ member'[p].exists = member[p].exists
      /\ member'[p].armed = member[p].armed /\ member'[p].role = member[p].role
      /\ \A q \in Protocols \ {p} : member'[q] = member[q]
  BY <1>1, <1>2, MemberFields
<1>4. /\ \A q \in Protocols : /\ member'[q].exists = member[q].exists
                              /\ member'[q].armed = member[q].armed
                              /\ member'[q].role = member[q].role
                              /\ q # p => member'[q].ratified = member[q].ratified
  BY <1>3
<1>5. Joined' = Joined /\ Armed' = Armed /\ Ratified' = Ratified \cup {p}
  BY <1>3, <1>4 DEF Joined, Armed, Ratified
<1>6. Owners(Joined)' = Owners(Joined)
  BY <1>4, <1>5 DEF Owners, Joined
<1> QED BY <1>5, <1>6

LEMMA ArmMarks ==
  ASSUME CovenantTypeOK, NEW p \in Protocols,
         member' = [member EXCEPT ![p].armed = TRUE]
  PROVE  /\ Joined' = Joined /\ Armed' = Armed \cup {p} /\ Ratified' = Ratified
         /\ Owners(Joined)' = Owners(Joined)
<1>1. member \in [Protocols -> Memberships] /\ member[p] \in Memberships
  BY DEF CovenantTypeOK
<1>2. member' = [member EXCEPT ![p] = [member[p] EXCEPT !.armed = TRUE]]
  OBVIOUS
<1>3. /\ member'[p].armed /\ member'[p].exists = member[p].exists
      /\ member'[p].ratified = member[p].ratified /\ member'[p].role = member[p].role
      /\ \A q \in Protocols \ {p} : member'[q] = member[q]
  BY <1>1, <1>2, MemberFields
<1>4. /\ \A q \in Protocols : /\ member'[q].exists = member[q].exists
                              /\ member'[q].ratified = member[q].ratified
                              /\ member'[q].role = member[q].role
                              /\ q # p => member'[q].armed = member[q].armed
  BY <1>3
<1>5. Joined' = Joined /\ Ratified' = Ratified /\ Armed' = Armed \cup {p}
  BY <1>3, <1>4 DEF Joined, Armed, Ratified
<1>6. Owners(Joined)' = Owners(Joined)
  BY <1>4, <1>5 DEF Owners, Joined
<1> QED BY <1>5, <1>6

(* Adding one to a set is adding one to its count.                         *)
LEMMA OneMore ==
  ASSUME NEW S \in SUBSET Protocols, NEW p \in Protocols, p \notin S
  PROVE  Cardinality(S \cup {p}) = Cardinality(S) + 1
BY OwnersCount, FS_AddElement

LEMMA CreateKeeps ==
  ASSUME CovenantInv, CovenantTypeOK', NEW t \in Thresholds, CreateCovenant(t)
  PROVE  CovenantInv'
<1>1. /\ covenant'.status = "Draft" /\ covenant'.required_approvals = t
      /\ covenant'.member_count = 0 /\ covenant'.ratified_count = 0
      /\ covenant'.armed_count = 0
  BY CovenantFields DEF CovenantInv, Consistent, CovenantTypeOK, CreateCovenant
<1>2. Joined = {} /\ Ratified = {} /\ Armed = {} /\ snapshots' = {}
  BY SetsOfMembers DEF CovenantInv, Consistent, CreateCovenant
<1>3. Joined' = {} /\ Ratified' = {} /\ Armed' = {}
  BY <1>2 DEF CreateCovenant, Joined, Ratified, Armed
<1>4. Consistent' /\ CountsAreMembers'
  BY <1>1, <1>2, <1>3, FS_EmptySet DEF Consistent, CountsAreMembers
<1> QED BY <1>1, <1>4, DraftKeeps

LEMMA AddKeeps ==
  ASSUME CovenantInv, CovenantTypeOK', NEW p \in Protocols, NEW role \in Roles,
         AddCovenantMember(p, role)
  PROVE  CovenantInv'
<1>1. covenant \in Covenants /\ covenant.member_count + 1 \in Nat
  BY ConstantFacts DEF CovenantInv, Consistent, CovenantTypeOK, Covenants
<1>2. /\ covenant'.status = "Draft"
      /\ covenant'.required_approvals = covenant.required_approvals
      /\ covenant'.member_count = covenant.member_count + 1
      /\ covenant'.ratified_count = covenant.ratified_count
      /\ covenant'.armed_count = covenant.armed_count
  BY <1>1, CovenantFields DEF AddCovenantMember
<1>3. /\ Joined' = Joined \cup {p} /\ p \notin Joined
      /\ Ratified' = Ratified /\ Armed' = Armed
  BY AddJoins DEF CovenantInv, AddCovenantMember
<1>4. Armed = {} /\ snapshots' = {}
  BY DEF CovenantInv, Consistent, AddCovenantMember
<1>5. Consistent'
  BY <1>2, <1>3, <1>4 DEF CovenantInv, Consistent, AddCovenantMember
<1>6. CountsAreMembers'
  BY <1>2, <1>3, SetsOfMembers, OneMore
  DEF CovenantInv, Consistent, CountsAreMembers
<1> QED BY <1>2, <1>5, <1>6, DraftKeeps

LEMMA RatifyMemberKeeps ==
  ASSUME CovenantInv, CovenantTypeOK', NEW p \in Protocols,
         RatifyCovenantMember(p)
  PROVE  CovenantInv'
<1>1. covenant \in Covenants /\ covenant.ratified_count + 1 \in Nat
  BY DEF CovenantInv, Consistent, CovenantTypeOK, Covenants
<1>2. /\ covenant'.status = "Draft"
      /\ covenant'.required_approvals = covenant.required_approvals
      /\ covenant'.member_count = covenant.member_count
      /\ covenant'.ratified_count = covenant.ratified_count + 1
      /\ covenant'.armed_count = covenant.armed_count
  BY <1>1, CovenantFields DEF RatifyCovenantMember
<1>3. /\ Joined' = Joined /\ Ratified' = Ratified \cup {p} /\ Armed' = Armed
  BY RatifyMarks DEF CovenantInv, Consistent, RatifyCovenantMember
<1>4. Armed = {} /\ snapshots' = {} /\ p \in Joined /\ p \notin Ratified
  BY DEF CovenantInv, Consistent, RatifyCovenantMember, Joined, Ratified
<1>5. Consistent'
  BY <1>2, <1>3, <1>4 DEF CovenantInv, Consistent, RatifyCovenantMember
<1>6. CountsAreMembers'
  BY <1>2, <1>3, <1>4, SetsOfMembers, OneMore
  DEF CovenantInv, Consistent, CountsAreMembers
<1> QED BY <1>2, <1>5, <1>6, DraftKeeps

(* The list that reconstructs the set is the whole circle: as many members *)
(* as joined, all of them ratified, hence joined.                          *)
LEMMA FreezeKeeps ==
  ASSUME CovenantInv, CovenantTypeOK', NEW S \in SUBSET Protocols,
         RatifyCovenant(S)
  PROVE  CovenantInv'
<1>1. covenant \in Covenants
  BY DEF CovenantInv, Consistent, CovenantTypeOK
<1>2. /\ covenant'.status = "Ratified" /\ covenant'.member_set = S
      /\ covenant'.adapter_count = Cardinality(Owners(S))
      /\ covenant'.required_approvals = covenant.required_approvals
      /\ covenant'.member_count = covenant.member_count
      /\ covenant'.ratified_count = covenant.ratified_count
      /\ covenant'.armed_count = covenant.armed_count
  BY <1>1, OwnersCount, CovenantFields DEF RatifyCovenant
<1>3. /\ Joined' = Joined /\ Ratified' = Ratified /\ Armed' = Armed
      /\ Owners(Joined)' = Owners(Joined) /\ snapshots' = snapshots
  BY DEF RatifyCovenant, Joined, Ratified, Armed, Owners
<1>4. Joined = S /\ Joined = Ratified
  <2>1. S \subseteq Ratified /\ Ratified \subseteq Joined
    BY DEF CovenantInv, Consistent, RatifyCovenant, ReconstructsMembers
  <2>2. Cardinality(S) = Cardinality(Joined)
    BY DEF CovenantInv, CountsAreMembers, RatifyCovenant, ReconstructsMembers
  <2>3. IsFiniteSet(Joined)
    BY SetsOfMembers, OwnersCount DEF CovenantInv, Consistent
  <2>4. S = Joined
    BY <2>1, <2>2, <2>3, FS_Subset
  <2> QED BY <2>1, <2>4
<1>5. Consistent'
  BY <1>2, <1>3 DEF CovenantInv, Consistent, RatifyCovenant
<1>6. CountsAreMembers'
  BY <1>2, <1>3 DEF CovenantInv, CountsAreMembers
<1>7. FrozenSetIsComplete'
  <2>1. Cardinality(Joined) = covenant.member_count
    BY DEF CovenantInv, CountsAreMembers
  <2>2. covenant.required_approvals \in 1..covenant.member_count
    BY <1>1, ConstantFacts DEF CovenantInv, Consistent, RatifyCovenant, Covenants
  <2>3. covenant.member_count \in 1..MaxMembers
    BY <1>1, ConstantFacts DEF RatifyCovenant, Covenants
  <2> QED BY <1>2, <1>3, <1>4, <2>1, <2>2, <2>3 DEF FrozenSetIsComplete
<1>8. IncidentsAreGrounded'
  BY <1>3 DEF CovenantInv, Consistent, RatifyCovenant, IncidentsAreGrounded
<1> QED BY <1>5, <1>6, <1>7, <1>8 DEF CovenantInv

(* In an armed covenant every owner is armed, so only a ratified one is    *)
(* left for a member to arm in.                                            *)
LEMMA ArmMemberKeeps ==
  ASSUME CovenantInv, CovenantTypeOK', NEW p \in Protocols,
         ArmCovenantMember(p) \/ \E S \in SUBSET Protocols : ArmTogether(p, S)
  PROVE  CovenantInv'
<1>1. covenant \in Covenants /\ covenant.armed_count + 1 \in Nat
  BY DEF CovenantInv, Consistent, CovenantTypeOK, Covenants
<1>2. /\ covenant' = [covenant EXCEPT !.armed_count = covenant.armed_count + 1]
      /\ member' = [member EXCEPT ![p].armed = TRUE]
      /\ snapshots' = snapshots
      /\ covenant.status \in {"Ratified", "Armed"}
      /\ member[p].exists /\ OwnsAnAdapter(member[p].role) /\ ~member[p].armed
  BY DEF ArmCovenantMember, ArmTogether
<1>3. /\ covenant'.status = covenant.status
      /\ covenant'.required_approvals = covenant.required_approvals
      /\ covenant'.member_count = covenant.member_count
      /\ covenant'.ratified_count = covenant.ratified_count
      /\ covenant'.armed_count = covenant.armed_count + 1
      /\ covenant'.adapter_count = covenant.adapter_count
      /\ covenant'.member_set = covenant.member_set
  BY <1>1, <1>2, CovenantFields
<1>4. /\ Joined' = Joined /\ Ratified' = Ratified /\ Armed' = Armed \cup {p}
      /\ Owners(Joined)' = Owners(Joined)
  BY <1>2, ArmMarks DEF CovenantInv, Consistent
<1>5. p \in Owners(Joined) /\ p \notin Armed
  BY <1>2 DEF Owners, Joined, Armed
<1>6. covenant.status = "Ratified" /\ snapshots = {}
  BY <1>2, <1>5 DEF CovenantInv, Consistent, FrozenSetIsComplete
<1>7. Consistent'
  BY <1>2, <1>3, <1>4, <1>5, <1>6 DEF CovenantInv, Consistent
<1>8. CountsAreMembers'
  BY <1>3, <1>4, <1>5, SetsOfMembers, OneMore
  DEF CovenantInv, Consistent, CountsAreMembers
<1>9. FrozenSetIsComplete'
  BY <1>3, <1>4, <1>6 DEF CovenantInv, FrozenSetIsComplete
<1>10. IncidentsAreGrounded'
  BY <1>2, <1>6 DEF IncidentsAreGrounded
<1> QED BY <1>7, <1>8, <1>9, <1>10 DEF CovenantInv

LEMMA ArmKeeps ==
  ASSUME CovenantInv, CovenantTypeOK', ArmCovenant
  PROVE  CovenantInv'
<1>1. covenant \in Covenants
  BY DEF CovenantInv, Consistent, CovenantTypeOK
<1>2. /\ covenant'.status = "Armed"
      /\ covenant'.required_approvals = covenant.required_approvals
      /\ covenant'.member_count = covenant.member_count
      /\ covenant'.ratified_count = covenant.ratified_count
      /\ covenant'.armed_count = covenant.armed_count
      /\ covenant'.adapter_count = covenant.adapter_count
      /\ covenant'.member_set = covenant.member_set
  BY <1>1, CovenantFields DEF ArmCovenant
<1>3. /\ Joined' = Joined /\ Ratified' = Ratified /\ Armed' = Armed
      /\ Owners(Joined)' = Owners(Joined) /\ snapshots' = snapshots
  BY DEF ArmCovenant, Joined, Ratified, Armed, Owners
<1>4. Owners(Joined) = Armed
  <2>1. Armed \subseteq Owners(Joined)
    BY DEF CovenantInv, Consistent
  <2>2. Cardinality(Armed) = Cardinality(Owners(Joined))
    BY DEF CovenantInv, CountsAreMembers, FrozenSetIsComplete, ArmCovenant
  <2>3. IsFiniteSet(Owners(Joined))
    BY SetsOfMembers, OwnersCount DEF CovenantInv, Consistent
  <2> QED BY <2>1, <2>2, <2>3, FS_Subset
<1>5. snapshots = {}
  BY DEF CovenantInv, Consistent, ArmCovenant
<1>6. Consistent' /\ CountsAreMembers'
  BY <1>2, <1>3, <1>5 DEF CovenantInv, Consistent, CountsAreMembers, ArmCovenant
<1>7. FrozenSetIsComplete'
  BY <1>2, <1>3, <1>4 DEF CovenantInv, FrozenSetIsComplete, ArmCovenant
<1>8. IncidentsAreGrounded'
  BY <1>3, <1>5 DEF IncidentsAreGrounded
<1> QED BY <1>6, <1>7, <1>8 DEF CovenantInv

LEMMA InitializeKeeps ==
  ASSUME CovenantInv, CovenantTypeOK', NEW p \in Protocols, InitializeIncident(p)
  PROVE  CovenantInv'
<1>1. /\ snapshots' = snapshots \cup {Snapshot} /\ Snapshot' = Snapshot
      /\ covenant' = covenant /\ covenant.status = "Armed"
      /\ Joined' = Joined /\ Ratified' = Ratified /\ Armed' = Armed
      /\ \A S \in SUBSET Protocols : Owners(S)' = Owners(S)
  BY DEF InitializeIncident, Snapshot, Joined, Ratified, Armed, Owners
<1>2. Consistent' /\ CountsAreMembers' /\ FrozenSetIsComplete'
  BY <1>1, SetsOfMembers
  DEF CovenantInv, Consistent, CountsAreMembers, FrozenSetIsComplete
<1>3. /\ Snapshot.members = Ratified
      /\ Snapshot.members # {}
      /\ Snapshot.member_count = Cardinality(Snapshot.members)
      /\ Snapshot.required_approvals \in 1..Snapshot.member_count
      /\ Owners(Snapshot.members) = Armed
  <2>1. /\ covenant.member_set = Joined /\ Joined = Ratified
        /\ covenant.required_approvals \in 1..Cardinality(Joined)
        /\ Cardinality(Joined) # 0 /\ Owners(Joined) = Armed
        /\ covenant.member_count = Cardinality(Joined)
    BY <1>1 DEF CovenantInv, FrozenSetIsComplete, CountsAreMembers
  <2> QED BY <2>1, FS_EmptySet DEF Snapshot
<1>4. IncidentsAreGrounded'
  <2> SUFFICES ASSUME NEW s \in snapshots'
               PROVE  /\ s = Snapshot /\ s.members = Ratified /\ s.members # {}
                      /\ s.member_count = Cardinality(s.members)
                      /\ s.required_approvals \in 1..s.member_count
                      /\ Owners(s.members) = Armed /\ s.members \in SUBSET Protocols
    BY <1>1 DEF IncidentsAreGrounded
  <2>1. s = Snapshot
    BY <1>1 DEF CovenantInv, IncidentsAreGrounded
  <2> QED BY <2>1, <1>3, SetsOfMembers DEF CovenantInv, Consistent
<1> QED BY <1>2, <1>4 DEF CovenantInv

LEMMA CovenantInvStep ==
  CovenantInv /\ [CovenantNext]_covenantVars => CovenantInv'
<1> SUFFICES ASSUME CovenantInv, [CovenantNext]_covenantVars
             PROVE  CovenantInv'
  OBVIOUS
<1>1. CovenantTypeOK'
  BY CovenantTypeStep DEF CovenantInv, Consistent
<1>2. ASSUME NEW p \in Protocols, ByAuthority(p) PROVE CovenantInv'
  BY <1>1, <1>2, RatifyMemberKeeps, ArmMemberKeeps, InitializeKeeps, OthersKeep
  DEF ByAuthority, ArmCapability, SuspendCapability
<1>3. ASSUME NEW p \in Protocols, NEW S \in SUBSET Protocols,
             InstallCapability(p, S) \/ ArmTogether(p, S)
      PROVE  CovenantInv'
  BY <1>1, <1>3, ArmMemberKeeps, OthersKeep DEF InstallCapability
<1>4. CASE EpochEnds \/ UNCHANGED covenantVars
  BY <1>1, <1>4, OthersKeep DEF EpochEnds, covenantVars
<1> QED BY <1>1, <1>2, <1>3, <1>4, CreateKeeps, AddKeeps, FreezeKeeps, ArmKeeps
        DEF CovenantNext

LEMMA CovenantInvariance == CovenantSpec => []CovenantInv
BY CovenantInvInit, CovenantInvStep, PTL DEF CovenantSpec

(* The counts kept along the way are the numbers of the member accounts    *)
(* behind them, in every order of joining, ratifying and arming.           *)
THEOREM CountsAlwaysMembers == CovenantSpec => []CountsAreMembers
BY CovenantInvariance, PTL DEF CovenantInv

(* A frozen set is the whole circle, ratified to the last member and able  *)
(* to meet its threshold; an armed covenant waits for no adapter.          *)
THEOREM FrozenIsComplete == CovenantSpec => []FrozenSetIsComplete
BY CovenantInvariance, PTL DEF CovenantInv

(* Whatever incident is ever opened rests on the same complete, ratified   *)
(* and armed circle.                                                       *)
THEOREM IncidentsAlwaysGrounded == CovenantSpec => []IncidentsAreGrounded
BY CovenantInvariance, PTL DEF CovenantInv

-----------------------------------------------------------------------------
(* The page.                                                               *)

CovenantStatuses == {"None", "Draft", "Ratified", "Armed"}

IncidentStatuses == {"None", "Draft", "Collecting", "Terminal"}

Lists == [rows : [Tab -> Memberships], allArmed : BOOLEAN]

Views ==
  [for : Wallets, shown : BOOLEAN, status : CovenantStatuses,
   member_set : SUBSET Protocols, members : Lists, image : IncidentStatuses]

PollLoops ==
  [stage : {"off", "waiting", "reading"}, orphan : BOOLEAN, found : BOOLEAN,
   status : CovenantStatuses, member_set : SUBSET Protocols,
   scanned : BOOLEAN, members : Lists]

FormationTypeOK ==
  /\ naming \in Seq(Protocols)
  /\ incident \in [place : {"none", "base", "rollup"},
                   status : IncidentStatuses, image : IncidentStatuses,
                   written : BOOLEAN]
  /\ wallet \in Wallets
  /\ view \in Views
  /\ loop \in [Wallets -> PollLoops]

-----------------------------------------------------------------------------
(* A page is a covenant that forms, and more: none of its steps, and none  *)
(* of anybody else's around it, is foreign to the program.                 *)
LEMMA PageSteps ==
  ASSUME FormationTypeOK, [FormationNext]_formationVars
  PROVE  [CovenantNext]_covenantVars
<1>1. Tab \subseteq Protocols
  BY FormationAssumption
<1>2. ASSUME NEW t \in Thresholds, Convene(t) PROVE CovenantNext
  BY <1>2 DEF Convene, CovenantNext
<1>3. CASE NameNext
  <2>1. Head(naming) \in Protocols /\ "Protocol" \in Roles
    BY <1>3 DEF NameNext, FormationTypeOK, Roles
  <2>2. QED
    BY <1>3, <2>1 DEF NameNext, CovenantNext
<1>4. CASE Tooling
  <2>1. ASSUME NEW p \in Protocols \ NamedHere, NEW role \in ScriptRoles,
               AddCovenantMember(p, role)
        PROVE  CovenantNext
    BY <2>1, FormationAssumption DEF CovenantNext
  <2>2. ASSUME NEW p \in Tooled,
               RatifyCovenantMember(p) \/ ArmCovenantMember(p)
        PROVE  CovenantNext
    BY <2>2 DEF Tooled, CovenantNext, ByAuthority
  <2>3. QED
    BY <1>4, <2>1, <2>2 DEF Tooling, CovenantNext
<1>5. ASSUME NEW p \in Protocols, OpenedUnderCovenant(p) PROVE CovenantNext
  BY <1>5 DEF OpenedUnderCovenant, CovenantNext, ByAuthority
<1>6. ASSUME RowShown PROVE wallet \in Protocols
  BY <1>1, <1>6 DEF RowShown, FormationTypeOK, Wallets
<1>7. CASE RatifyOwn
  BY <1>6, <1>7 DEF RatifyOwn, CovenantNext, ByAuthority
<1>8. CASE ArmOwn
  <2>1. view.member_set \in SUBSET Protocols
    BY DEF FormationTypeOK, Views
  <2>2. QED
    BY <1>6, <1>8, <2>1 DEF ArmOwn, CovenantNext
<1>9. CASE \/ NamingRefused \/ DelegateIncident \/ OpenIncident
           \/ WriteProtected \/ Settle \/ Scrub \/ Exit
  BY <1>9 DEF NamingRefused, DelegateIncident, OpenIncident, WriteProtected,
     Settle, Scrub, Exit, Becomes
<1>10. ASSUME NEW w \in Wallets,
              \/ \E serves \in BOOLEAN : StartRead(w, serves)
              \/ ReadCovenant(w) \/ ScanMembers(w) \/ ReadIncident(w)
              \/ ReadFails(w) \/ ChangeWallet(w)
       PROVE  UNCHANGED covenantVars
  BY <1>10 DEF StartRead, ReadCovenant, ScanMembers, ReadIncident, ReadFails,
     ChangeWallet, Loops
<1>11. QED
  BY <1>2, <1>3, <1>4, <1>5, <1>7, <1>8, <1>9, <1>10
  DEF FormationNext, formationVars

(* The naming only ever shortens, and the tab's wallet is one of its own.  *)
LEMMA NamingSteps ==
  ASSUME FormationTypeOK, [FormationNext]_formationVars
  PROVE  naming' \in Seq(Protocols) /\ wallet' \in Wallets
<1>1. \/ naming' = naming
      \/ naming' = Named
      \/ naming # <<>> /\ naming' = Tail(naming)
      \/ naming' = <<>>
  BY DEF FormationNext, formationVars, Convene, NameNext, NamingRefused,
     Tooling, OpenedUnderCovenant, DelegateIncident, OpenIncident,
     WriteProtected, Settle, Scrub, Exit, Becomes, StartRead, ReadCovenant,
     ScanMembers, ReadIncident, ReadFails, ChangeWallet, Loops, RatifyOwn,
     ArmOwn
<1>2. wallet' \in Wallets
  BY DEF FormationNext, formationVars, tabVars, Convene, NameNext,
     NamingRefused, Tooling, OpenedUnderCovenant, DelegateIncident,
     OpenIncident, WriteProtected, Settle, Scrub, Exit, Becomes, StartRead,
     ReadCovenant, ScanMembers, ReadIncident, ReadFails, ChangeWallet, Loops,
     RatifyOwn, ArmOwn, FormationTypeOK
<1>3. ASSUME naming # <<>> PROVE Tail(naming) \in Seq(Protocols)
  BY <1>3 DEF FormationTypeOK
<1>4. <<>> \in Seq(Protocols)
  OBVIOUS
<1>5. QED
  BY <1>1, <1>2, <1>3, <1>4, FormationAssumption DEF FormationTypeOK

-----------------------------------------------------------------------------
(* A settled incident with nothing protected left in it.                   *)
Finished == incident.status = "Terminal" /\ ~incident.written

(* The incident ends finished for good, and the base layer shows a settled *)
(* core of no other.                                                       *)
LEMMA IncidentSteps ==
  ASSUME FormationTypeOK, [FormationNext]_formationVars,
         incident.image = "Terminal" => Finished
  PROVE  /\ incident' \in [place : {"none", "base", "rollup"},
                           status : IncidentStatuses, image : IncidentStatuses,
                           written : BOOLEAN]
         /\ Finished => Finished'
         /\ incident'.image = "Terminal" => Finished'
<1> DEFINE Incidents == [place : {"none", "base", "rollup"},
                         status : IncidentStatuses, image : IncidentStatuses,
                         written : BOOLEAN]
           Kept == /\ incident' \in Incidents
                   /\ Finished => Finished'
                   /\ incident'.image = "Terminal" => Finished'
<1>1. incident \in Incidents
  BY DEF FormationTypeOK
<1>2. CASE incident' = incident
  BY <1>1, <1>2 DEF Finished
<1>3. ASSUME NEW p \in Protocols, OpenedUnderCovenant(p) PROVE Kept
  BY <1>3 DEF OpenedUnderCovenant, NoIncident, Finished, IncidentStatuses
<1>4. CASE DelegateIncident
  BY <1>1, <1>4 DEF DelegateIncident, Becomes, Finished
<1>5. CASE OpenIncident
  BY <1>1, <1>5 DEF OpenIncident, Becomes, Finished, IncidentStatuses
<1>6. CASE WriteProtected
  BY <1>1, <1>6 DEF WriteProtected, Becomes, Finished
<1>7. CASE Settle
  BY <1>1, <1>7 DEF Settle, Becomes, Finished, IncidentStatuses
<1>8. CASE Scrub
  BY <1>1, <1>8 DEF Scrub, Becomes, Finished
<1>9. CASE Exit
  BY <1>1, <1>9 DEF Exit, Becomes, Finished, IncidentStatuses
<1>10. \/ incident' = incident
       \/ \E p \in Protocols : OpenedUnderCovenant(p)
       \/ DelegateIncident \/ OpenIncident \/ WriteProtected \/ Settle
       \/ Scrub \/ Exit
  BY DEF FormationNext, formationVars, Convene, NameNext, NamingRefused,
     Tooling, StartRead, ReadCovenant, ScanMembers, ReadIncident, ReadFails,
     ChangeWallet, Loops, RatifyOwn, ArmOwn
<1>11. Kept
  BY <1>2, <1>3, <1>4, <1>5, <1>6, <1>7, <1>8, <1>9, <1>10
<1>12. QED
  BY <1>11

-----------------------------------------------------------------------------
(* What may be read of the covenant, and what becomes of it afterwards: an *)
(* armed covenant stays armed, a circle that is armed to the last member   *)
(* stays so, and a set that is not the empty one is never replaced.        *)
AllArmed == Joined # {} /\ Joined = Armed

UnfrozenIsUnset ==
  covenant.status \in {"None", "Draft"} => covenant.member_set = {}

LEMMA CovenantMoves ==
  ASSUME CovenantInv, UnfrozenIsUnset, [CovenantNext]_covenantVars
  PROVE  /\ covenant.status = "Armed" => covenant'.status = "Armed"
         /\ AllArmed => AllArmed'
         /\ \/ covenant'.member_set = covenant.member_set
            \/ covenant.member_set = {}
         /\ UnfrozenIsUnset'
<1> DEFINE Moved == /\ covenant.status = "Armed" => covenant'.status = "Armed"
                    /\ AllArmed => AllArmed'
                    /\ \/ covenant'.member_set = covenant.member_set
                       \/ covenant.member_set = {}
                    /\ UnfrozenIsUnset'
<1>1. covenant \in Covenants /\ CovenantTypeOK /\ Consistent
  BY DEF CovenantInv, Consistent, CovenantTypeOK
<1>2. AllArmed => covenant.status \notin {"None", "Draft"}
  BY <1>1 DEF Consistent, AllArmed
<1>3. Armed \subseteq Joined
  BY <1>1, SetsOfMembers DEF Consistent
<1>4. ASSUME UNCHANGED <<covenant, member>> PROVE Moved
  BY <1>4 DEF UnfrozenIsUnset, AllArmed, Joined, Armed
<1>5. ASSUME NEW t \in Thresholds, CreateCovenant(t) PROVE Moved
  BY <1>2, <1>5 DEF CreateCovenant, NoCovenant, UnfrozenIsUnset
<1>6. ASSUME NEW p \in Protocols, NEW role \in Roles, AddCovenantMember(p, role)
      PROVE  Moved
  <2>1. covenant' = [covenant EXCEPT !.member_count = covenant.member_count + 1]
           /\ covenant.status = "Draft"
    BY <1>6 DEF AddCovenantMember
  <2>2. covenant'.member_set = covenant.member_set /\ covenant'.status = "Draft"
    BY <1>1, <2>1 DEF Covenants
  <2>3. QED
    BY <1>2, <2>1, <2>2 DEF UnfrozenIsUnset
<1>7. ASSUME NEW p \in Protocols, RatifyCovenantMember(p) PROVE Moved
  <2>1. covenant' = [covenant EXCEPT !.ratified_count = covenant.ratified_count + 1]
           /\ covenant.status = "Draft"
    BY <1>7 DEF RatifyCovenantMember
  <2>2. covenant'.member_set = covenant.member_set /\ covenant'.status = "Draft"
    BY <1>1, <2>1 DEF Covenants
  <2>3. QED
    BY <1>2, <2>1, <2>2 DEF UnfrozenIsUnset
<1>8. ASSUME NEW S \in SUBSET Protocols, RatifyCovenant(S) PROVE Moved
  <2>1. covenant.status = "Draft" /\ covenant'.status = "Ratified"
    BY <1>1, <1>8 DEF RatifyCovenant, Covenants
  <2>2. QED
    BY <1>2, <2>1 DEF UnfrozenIsUnset
<1>9. ASSUME NEW p \in Protocols,
             ArmCovenantMember(p) \/ \E S \in SUBSET Protocols : ArmTogether(p, S)
      PROVE  Moved
  <2>1. /\ covenant' = [covenant EXCEPT !.armed_count = covenant.armed_count + 1]
        /\ member' = [member EXCEPT ![p].armed = TRUE]
        /\ covenant.status \in {"Ratified", "Armed"} /\ p \in Joined
    BY <1>9 DEF ArmCovenantMember, ArmTogether, Joined
  <2>2. /\ covenant'.member_set = covenant.member_set
        /\ covenant'.status = covenant.status
    BY <1>1, <2>1 DEF Covenants
  <2>3. Joined' = Joined /\ Armed' = Armed \cup {p}
    BY <1>1, <2>1, ArmMarks
  <2>4. AllArmed => AllArmed'
    BY <2>1, <2>3 DEF AllArmed
  <2>5. QED
    BY <2>1, <2>2, <2>4 DEF UnfrozenIsUnset
<1>10. CASE ArmCovenant
  <2>1. /\ covenant'.member_set = covenant.member_set /\ covenant'.status = "Armed"
        /\ member' = member
    BY <1>1, <1>10 DEF ArmCovenant, Covenants
  <2>2. QED
    BY <2>1 DEF UnfrozenIsUnset, AllArmed, Joined, Armed
<1>11. ASSUME NEW p \in Protocols, ByAuthority(p) PROVE Moved
  BY <1>4, <1>7, <1>9, <1>11
  DEF ByAuthority, ArmCapability, SuspendCapability, InitializeIncident
<1>12. ASSUME NEW p \in Protocols, NEW S \in SUBSET Protocols,
              InstallCapability(p, S) \/ ArmTogether(p, S)
       PROVE  Moved
  BY <1>4, <1>9, <1>12 DEF InstallCapability
<1>13. Moved
  BY <1>4, <1>5, <1>6, <1>8, <1>10, <1>11, <1>12
  DEF CovenantNext, covenantVars, EpochEnds
<1>14. QED
  BY <1>13

-----------------------------------------------------------------------------
(* A poll that is over, and one that is left to finish on its own.         *)
LEMMA ReadShapes ==
  ASSUME NEW x \in PollLoops
  PROVE  /\ Off \in PollLoops
         /\ LET y == Waiting(x)
            IN  /\ y \in PollLoops
                /\ y.status = "None" /\ y.member_set = {}
                /\ y.members = EmptyList
         /\ LET y == [x EXCEPT !.orphan = TRUE]
            IN  /\ y \in PollLoops
                /\ y.status = x.status /\ y.member_set = x.member_set
                /\ y.members = x.members
<1>1. NoMember \in Memberships /\ EmptyList \in Lists
  BY DEF NoMember, Memberships, Roles, EmptyList, Lists
<1>2. QED
  BY <1>1 DEF PollLoops, Off, Waiting, CovenantStatuses

(* What one step does to what a poll has read: nothing, or it reads the    *)
(* covenant, or the member list, or it starts anew.                        *)
SameReads(w) ==
  /\ loop'[w].status = loop[w].status
  /\ loop'[w].member_set = loop[w].member_set
  /\ loop'[w].members = loop[w].members

Restarted(w) ==
  /\ loop'[w].status = "None" /\ loop'[w].member_set = {}
  /\ loop'[w].members = EmptyList

CovenantRead(w) ==
  /\ loop'[w].status = covenant.status
  /\ loop'[w].member_set = covenant.member_set
  /\ loop'[w].members = loop[w].members

MembersRead(w) ==
  /\ loop'[w].status = loop[w].status
  /\ loop'[w].member_set = loop[w].member_set
  /\ loop'[w].members = List

LEMMA LoopSteps ==
  ASSUME CovenantTypeOK, FormationTypeOK, [FormationNext]_formationVars
  PROVE  /\ loop' \in [Wallets -> PollLoops]
         /\ \A w \in Wallets :
              SameReads(w) \/ Restarted(w) \/ CovenantRead(w) \/ MembersRead(w)
<1> DEFINE Kept ==
      /\ loop' \in [Wallets -> PollLoops]
      /\ \A w \in Wallets :
           SameReads(w) \/ Restarted(w) \/ CovenantRead(w) \/ MembersRead(w)
<1>1. /\ loop \in [Wallets -> PollLoops] /\ wallet \in Wallets
      /\ Tab \subseteq Protocols
  BY FormationAssumption DEF FormationTypeOK
<1>2. covenant.status \in CovenantStatuses /\ covenant.member_set \in SUBSET Protocols
  BY DEF CovenantTypeOK, Covenants, CovenantStatuses
<1>3. List \in Lists
  BY <1>1 DEF List, Lists, CovenantTypeOK
<1>4. CASE UNCHANGED loop
  BY <1>1, <1>4 DEF SameReads
<1>5. ASSUME NEW w \in Wallets, NEW serves \in BOOLEAN, StartRead(w, serves)
      PROVE  Kept
  <2>1. PICK f \in BOOLEAN : f <=> w # NoWallet /\ member[w].exists
    OBVIOUS
  <2>2. PICK b \in BOOLEAN : b <=> ~serves
    OBVIOUS
  <2>3. loop' = [loop EXCEPT ![w] = [loop[w] EXCEPT !.stage = "reading",
                                       !.scanned = b, !.found = f]]
    BY <1>5, <2>1, <2>2 DEF StartRead, Loops
  <2>4. /\ loop'[w] = [loop[w] EXCEPT !.stage = "reading", !.scanned = b, !.found = f]
        /\ loop[w] \in PollLoops
        /\ \A v \in Wallets \ {w} : loop'[v] = loop[v]
    BY <1>1, <2>3
  <2>5. loop'[w] \in PollLoops /\ SameReads(w)
    BY <2>4 DEF SameReads, PollLoops
  <2>6. QED
    BY <1>1, <2>3, <2>4, <2>5 DEF SameReads
<1>6. ASSUME NEW w \in Wallets, ReadCovenant(w) PROVE Kept
  <2>1. loop' = [loop EXCEPT ![w] = [loop[w] EXCEPT !.status = covenant.status,
                                       !.member_set = covenant.member_set]]
    BY <1>6 DEF ReadCovenant, Loops
  <2>2. /\ loop'[w] = [loop[w] EXCEPT !.status = covenant.status,
                                     !.member_set = covenant.member_set]
        /\ loop[w] \in PollLoops
        /\ \A v \in Wallets \ {w} : loop'[v] = loop[v]
    BY <1>1, <2>1
  <2>3. loop'[w] \in PollLoops /\ CovenantRead(w)
    BY <1>2, <2>2 DEF PollLoops, CovenantRead
  <2>4. /\ loop' \in [Wallets -> PollLoops]
        /\ \A v \in Wallets : v = w \/ SameReads(v)
    BY <1>1, <2>1, <2>2, <2>3 DEF SameReads
  <2>5. QED
    BY <2>3, <2>4
<1>7. ASSUME NEW w \in Wallets, ScanMembers(w) PROVE Kept
  <2>1. loop' = [loop EXCEPT ![w] = [loop[w] EXCEPT !.scanned = TRUE,
                                                    !.members = List]]
    BY <1>7 DEF ScanMembers, Loops
  <2>2. /\ loop'[w] = [loop[w] EXCEPT !.scanned = TRUE, !.members = List]
        /\ loop[w] \in PollLoops
        /\ \A v \in Wallets \ {w} : loop'[v] = loop[v]
    BY <1>1, <2>1
  <2>3. loop'[w] \in PollLoops /\ MembersRead(w)
    BY <1>3, <2>2 DEF PollLoops, MembersRead
  <2>4. /\ loop' \in [Wallets -> PollLoops]
        /\ \A v \in Wallets : v = w \/ SameReads(v)
    BY <1>1, <2>1, <2>2, <2>3 DEF SameReads
  <2>5. QED
    BY <2>3, <2>4
<1>8. ASSUME NEW w \in Wallets, ReadIncident(w) PROVE Kept
  BY <1>1, <1>8, ReadShapes
  DEF ReadIncident, Loops, SameReads, Restarted
<1>9. ASSUME NEW w \in Wallets, ChangeWallet(w) PROVE Kept
  <2>1. /\ w # wallet
        /\ loop'= [loop EXCEPT ![wallet] = Left(loop[wallet]),
                    ![w] = IF loop[w].stage = "off" THEN Waiting(loop[w])
                           ELSE loop[w]]
    BY <1>1, <1>9 DEF ChangeWallet
  <2>2. /\ \A v \in Wallets \ {w, wallet} : loop'[v] = loop[v]
        /\ \/ loop'[wallet] = Off
           \/ loop'[wallet] = [loop[wallet] EXCEPT !.orphan = TRUE]
        /\ \/ loop'[w] = loop[w]
           \/ loop'[w] = Waiting(loop[w])
    BY <1>1, <2>1 DEF Left
  <2>3. /\ loop'[w] \in PollLoops
        /\ SameReads(w) \/ Restarted(w)
    <3>1. loop[w] \in PollLoops
      BY <1>1
    <3>2. QED
      BY <2>2, <3>1, ReadShapes DEF SameReads, Restarted
  <2>4. /\ loop'[wallet] \in PollLoops
        /\ SameReads(wallet) \/ Restarted(wallet)
    <3>1. loop[wallet] \in PollLoops
      BY <1>1
    <3>2. Off.status = "None" /\ Off.member_set = {} /\ Off.members = EmptyList
      BY DEF Off
    <3>3. QED
      BY <2>2, <3>1, <3>2, ReadShapes DEF SameReads, Restarted
  <2>5. /\ loop' \in [Wallets -> PollLoops]
        /\ \A v \in Wallets \ {w, wallet} : SameReads(v)
    BY <1>1, <2>1, <2>2, <2>3, <2>4 DEF SameReads
  <2>6. QED
    BY <2>3, <2>4, <2>5
<1>10. \/ UNCHANGED loop
       \/ \E w \in Wallets :
            \/ \E serves \in BOOLEAN : StartRead(w, serves)
            \/ ReadCovenant(w) \/ ScanMembers(w) \/ ReadIncident(w)
            \/ ChangeWallet(w)
  BY DEF FormationNext, formationVars, tabVars, Convene, NameNext,
     NamingRefused, Tooling, OpenedUnderCovenant, DelegateIncident,
     OpenIncident, WriteProtected, Settle, Scrub, Exit, Becomes, ReadFails,
     RatifyOwn, ArmOwn
<1>11. Kept
  BY <1>4, <1>5, <1>6, <1>7, <1>8, <1>9, <1>10
<1>12. QED
  BY <1>11

(* What one step does to the page: it keeps what it shows, or is cleared,  *)
(* or takes what a poll has read and the incident's image as it is now.    *)
LEMMA ViewSteps ==
  ASSUME FormationTypeOK, [FormationNext]_formationVars
  PROVE  /\ view' \in Views
         /\ \/ view' = view
            \/ /\ view'.status = "None" /\ view'.member_set = {}
               /\ view'.members = EmptyList /\ view'.image = "None"
            \/ /\ \E w \in Wallets : /\ view'.status = loop[w].status
                                     /\ view'.member_set = loop[w].member_set
                                     /\ view'.members = loop[w].members
               /\ view'.image \in {"None", incident.image}
<1> DEFINE Kept ==
      /\ view' \in Views
      /\ \/ view' = view
         \/ /\ view'.status = "None" /\ view'.member_set = {}
            /\ view'.members = EmptyList /\ view'.image = "None"
         \/ /\ \E w \in Wallets : /\ view'.status = loop[w].status
                                  /\ view'.member_set = loop[w].member_set
                                  /\ view'.members = loop[w].members
            /\ view'.image \in {"None", incident.image}
<1>1. NoMember \in Memberships /\ EmptyList \in Lists
  BY DEF NoMember, Memberships, Roles, EmptyList, Lists
<1>2. CASE UNCHANGED view
  BY <1>2 DEF FormationTypeOK
<1>3. ASSUME NEW w \in Wallets, ReadFails(w) PROVE Kept
  BY <1>1, <1>3
  DEF ReadFails, NotShown, Views, Wallets, CovenantStatuses, IncidentStatuses
<1>4. ASSUME NEW w \in Wallets, ReadIncident(w) PROVE Kept
  <2>1. /\ loop[w] \in PollLoops /\ incident.image \in IncidentStatuses
        /\ "None" \in IncidentStatuses
    BY DEF FormationTypeOK, IncidentStatuses
  <2>2. view' \in Views
    BY <1>4, <2>1 DEF ReadIncident, Views, PollLoops
  <2>3. QED
    BY <1>4, <2>2 DEF ReadIncident
<1>5. \/ UNCHANGED view
      \/ \E w \in Wallets : ReadFails(w) \/ ReadIncident(w)
  BY DEF FormationNext, formationVars, tabVars, Convene, NameNext,
     NamingRefused, Tooling, OpenedUnderCovenant, DelegateIncident,
     OpenIncident, WriteProtected, Settle, Scrub, Exit, Becomes, StartRead,
     ReadCovenant, ScanMembers, ChangeWallet, RatifyOwn, ArmOwn
<1>6. Kept
  BY <1>2, <1>3, <1>4, <1>5
<1>7. QED
  BY <1>6

-----------------------------------------------------------------------------
(* A capability of the tab is moved by the page alone, with the record of  *)
(* its arming, and bound to the commitment the page shows.                 *)
LEMMA TabSteps ==
  ASSUME CovenantTypeOK, FormationTypeOK, [FormationNext]_formationVars,
         NEW p \in Tab
  PROVE  \/ /\ capability'[p] = capability[p]
            /\ \/ member'[p].armed = member[p].armed
               \/ ~member[p].exists /\ ~member'[p].armed
         \/ /\ capability'[p].installed /\ capability'[p].armed
            /\ member'[p].armed
            /\ capability'[p].member_set = view.member_set
            /\ covenant'.member_set = covenant.member_set
<1> DEFINE Same == /\ capability'[p] = capability[p]
                   /\ \/ member'[p].armed = member[p].armed
                      \/ ~member[p].exists /\ ~member'[p].armed
           Bound == /\ capability'[p].installed /\ capability'[p].armed
                    /\ member'[p].armed
                    /\ capability'[p].member_set = view.member_set
                    /\ covenant'.member_set = covenant.member_set
<1>1. /\ p \in Protocols /\ member \in [Protocols -> Memberships]
      /\ capability \in [Protocols -> Capabilities]
      /\ covenant \in Covenants
  BY FormationAssumption DEF CovenantTypeOK
<1>2. ASSUME NEW q \in Protocols, NEW role \in Roles, AddCovenantMember(q, role)
      PROVE  Same
  <2>1. /\ member' = [member EXCEPT ![q] = [NoMember EXCEPT !.exists = TRUE,
                                                          !.role = role]]
        /\ ~member[q].exists /\ capability' = capability
    BY <1>2 DEF AddCovenantMember
  <2>2. /\ ~member'[q].armed
        /\ \A r \in Protocols \ {q} : member'[r] = member[r]
    BY <1>1, <2>1 DEF NoMember
  <2>3. QED
    BY <1>1, <2>1, <2>2
<1>3. ASSUME NEW q \in Protocols, RatifyCovenantMember(q) PROVE Same
  BY <1>1, <1>3 DEF RatifyCovenantMember, Memberships
<1>4. ASSUME NEW q \in Tooled, ArmCovenantMember(q) PROVE Same
  BY <1>1, <1>4 DEF ArmCovenantMember, Tooled
<1>5. CASE UNCHANGED <<member, capability>>
  BY <1>5
<1>6. CASE ArmOwn
  <2>1. /\ ArmTogether(wallet, view.member_set) /\ wallet \in Protocols
    BY <1>6, FormationAssumption DEF ArmOwn, RowShown, FormationTypeOK, Wallets
  <2>2. CASE p # wallet
    BY <1>1, <2>1, <2>2 DEF ArmTogether
  <2>3. CASE p = wallet
    <3>1. member[p] \in Memberships
      BY <1>1
    <3>2. member' = [member EXCEPT ![p] = [member[p] EXCEPT !.armed = TRUE]]
      BY <2>1, <2>3 DEF ArmTogether
    <3>3. member'[p].armed
      BY <1>1, <3>1, <3>2 DEF Memberships
    <3>4. capability'[p] = [NoCapability EXCEPT !.installed = TRUE,
                              !.armed = TRUE, !.member_set = view.member_set]
      BY <1>1, <2>1, <2>3 DEF ArmTogether
    <3>5. /\ capability'[p].installed /\ capability'[p].armed
          /\ capability'[p].member_set = view.member_set
      BY <3>4 DEF NoCapability
    <3>6. covenant'.member_set = covenant.member_set
      BY <1>1, <2>1 DEF ArmTogether, Covenants
    <3>7. QED
      BY <3>3, <3>5, <3>6
  <2>4. QED
    BY <2>2, <2>3
<1>7. ASSUME NEW S \in SUBSET Protocols, RatifyCovenant(S)
      PROVE  UNCHANGED <<member, capability>>
  BY <1>7 DEF RatifyCovenant
<1>8. ASSUME Tooling PROVE Same
  <2>1. ScriptRoles \subseteq Roles /\ Tooled \subseteq Protocols
    BY FormationAssumption DEF Tooled
  <2>2. CASE ArmCovenant
    BY <1>5, <2>2 DEF ArmCovenant
  <2>3. QED
    BY <1>2, <1>3, <1>4, <1>5, <1>7, <1>8, <2>1, <2>2 DEF Tooling
<1>9. ASSUME NameNext PROVE Same
  <2>1. Head(naming) \in Protocols /\ "Protocol" \in Roles
    BY <1>9 DEF NameNext, FormationTypeOK, Roles
  <2>2. QED
    BY <1>2, <1>9, <2>1 DEF NameNext
<1>10. ASSUME RatifyOwn PROVE Same
  <2>1. wallet \in Protocols
    BY <1>10, FormationAssumption DEF RatifyOwn, RowShown, FormationTypeOK, Wallets
  <2>2. QED
    BY <1>3, <1>10, <2>1 DEF RatifyOwn
<1>11. \/ UNCHANGED <<member, capability>>
       \/ Tooling \/ NameNext \/ RatifyOwn \/ ArmOwn
  BY DEF FormationNext, formationVars, covenantVars, Convene, CreateCovenant,
     NamingRefused, OpenedUnderCovenant, InitializeIncident, DelegateIncident,
     OpenIncident, WriteProtected, Settle, Scrub, Exit, Becomes, StartRead,
     ReadCovenant, ScanMembers, ReadIncident, ReadFails, ChangeWallet, Loops
<1>12. Same \/ Bound
  BY <1>5, <1>6, <1>8, <1>9, <1>10, <1>11
<1>13. QED
  BY <1>12

-----------------------------------------------------------------------------
(* The inductive invariant.  Whatever was read and is still around, on the *)
(* page or in a poll of any wallet, was so when it was read; and nothing   *)
(* of it has become untrue since: an armed covenant and an armed circle    *)
(* stay, and a commitment other than the unset one is the frozen one.      *)
StillTrue(x) ==
  /\ x.status = "Armed" => covenant.status = "Armed"
  /\ x.members.allArmed => AllArmed
  /\ x.member_set \in {{}, covenant.member_set}

FormationInv ==
  /\ FormationTypeOK /\ CovenantInv /\ UnfrozenIsUnset
  /\ StillTrue(view)
  /\ \A w \in Wallets : StillTrue(loop[w])
  /\ BoundOrUnbound
  /\ incident.image = "Terminal" => Finished
  /\ view.image = "Terminal" => Finished

LEMMA FormationInvInit == FormationInit => FormationInv
<1> SUFFICES ASSUME FormationInit PROVE FormationInv
  OBVIOUS
<1>1. /\ CovenantInv /\ Tab \subseteq Protocols
      /\ covenant.status = "None" /\ covenant.member_set = {}
      /\ member = [p \in Protocols |-> NoMember]
      /\ capability = [p \in Protocols |-> NoCapability]
  BY CovenantInvInit, FormationAssumption DEF FormationInit, CovenantInit, NoCovenant
<1>2. EmptyList \in Lists /\ ~EmptyList.allArmed
  BY DEF EmptyList, Lists, NoMember, Memberships, Roles
<1>3. /\ Off \in PollLoops /\ Waiting(Off) \in PollLoops
      /\ Off.status = "None" /\ Off.member_set = {} /\ Off.members = EmptyList
  <2>1. Off \in PollLoops
    BY <1>2 DEF Off, PollLoops, CovenantStatuses
  <2>2. QED
    BY <2>1, ReadShapes DEF Off
<1>4. \A w \in Wallets : loop[w] \in {Off, Waiting(Off)}
  BY DEF FormationInit
<1>5. FormationTypeOK
  <2>1. loop \in [Wallets -> PollLoops]
    BY <1>3 DEF FormationInit, Wallets
  <2>2. view \in Views
    BY <1>2 DEF FormationInit, NotShown, Views, Wallets, CovenantStatuses,
       IncidentStatuses
  <2>3. QED
    BY <2>1, <2>2
    DEF FormationInit, FormationTypeOK, NoIncident, IncidentStatuses, Wallets
<1>6. \A w \in Wallets : StillTrue(loop[w])
  BY <1>2, <1>3, <1>4, ReadShapes DEF StillTrue
<1>7. StillTrue(view) /\ view.image = "None" /\ incident.image = "None"
  BY <1>2 DEF FormationInit, NotShown, NoIncident, StillTrue
<1>8. BoundOrUnbound
  BY <1>1 DEF BoundOrUnbound, NoMember, NoCapability
<1>9. QED
  BY <1>1, <1>5, <1>6, <1>7, <1>8 DEF FormationInv, UnfrozenIsUnset

LEMMA FormationInvStep ==
  FormationInv /\ [FormationNext]_formationVars => FormationInv'
<1> SUFFICES ASSUME FormationInv, [FormationNext]_formationVars
             PROVE  FormationInv'
  OBVIOUS
<1>1. /\ FormationTypeOK /\ CovenantInv /\ CovenantTypeOK /\ UnfrozenIsUnset
      /\ Consistent
  BY DEF FormationInv, CovenantInv, Consistent
<1>2. [CovenantNext]_covenantVars
  BY <1>1, PageSteps
<1>3. CovenantInv' /\ CovenantTypeOK'
  BY <1>1, <1>2, CovenantInvStep DEF CovenantInv, Consistent
<1>4. /\ covenant.status = "Armed" => covenant'.status = "Armed"
      /\ AllArmed => AllArmed'
      /\ \/ covenant'.member_set = covenant.member_set
         \/ covenant.member_set = {}
      /\ UnfrozenIsUnset'
  BY <1>1, <1>2, CovenantMoves
<1>5. FormationTypeOK'
  BY <1>1, NamingSteps, IncidentSteps, LoopSteps, ViewSteps
  DEF FormationTypeOK, FormationInv
<1>6. /\ Finished => Finished'
      /\ incident'.image = "Terminal" => Finished'
  BY <1>1, IncidentSteps DEF FormationInv
<1>7. ~EmptyList.allArmed /\ (List.allArmed <=> AllArmed)
  BY DEF EmptyList, List, AllArmed
<1>8. ASSUME NEW w \in Wallets PROVE StillTrue(loop[w])'
  <2>1. StillTrue(loop[w])
    BY DEF FormationInv
  <2>2. SameReads(w) \/ Restarted(w) \/ CovenantRead(w) \/ MembersRead(w)
    BY <1>1, LoopSteps
  <2>3. QED
    BY <1>4, <1>7, <2>1, <2>2
    DEF StillTrue, SameReads, Restarted, CovenantRead, MembersRead
<1>9. StillTrue(view)'
  <2>1. StillTrue(view) /\ \A w \in Wallets : StillTrue(loop[w])
    BY DEF FormationInv
  <2>2. \/ view' = view
        \/ /\ view'.status = "None" /\ view'.member_set = {}
           /\ view'.members = EmptyList
        \/ \E w \in Wallets : /\ view'.status = loop[w].status
                             /\ view'.member_set = loop[w].member_set
                             /\ view'.members = loop[w].members
    BY <1>1, ViewSteps
  <2>3. QED
    BY <1>4, <1>7, <2>1, <2>2 DEF StillTrue
<1>10. (view.image = "Terminal" => Finished)'
  <2>1. view'.image \in {view.image, "None", incident.image}
    BY <1>1, ViewSteps
  <2>2. QED
    BY <1>6, <2>1 DEF FormationInv
<1>11. BoundOrUnbound'
  <2> SUFFICES ASSUME NEW p \in Tab
               PROVE  /\ capability'[p].installed <=> member'[p].armed
                      /\ capability'[p].armed <=> member'[p].armed
                      /\ capability'[p].installed =>
                           capability'[p].member_set \in {{}, covenant'.member_set}
    BY DEF BoundOrUnbound
  <2>1. /\ capability[p].installed <=> member[p].armed
        /\ capability[p].armed <=> member[p].armed
        /\ capability[p].installed =>
             capability[p].member_set \in {{}, covenant.member_set}
        /\ view.member_set \in {{}, covenant.member_set}
    BY DEF FormationInv, BoundOrUnbound, StillTrue
  <2>2. ~member[p].exists => ~member[p].armed
    <3>1. p \in Protocols /\ Armed \subseteq Joined
      BY <1>1, SetsOfMembers, FormationAssumption DEF Consistent
    <3>2. QED
      BY <3>1 DEF Armed, Joined
  <2>3. \/ /\ capability'[p] = capability[p]
           /\ \/ member'[p].armed = member[p].armed
              \/ ~member[p].exists /\ ~member'[p].armed
        \/ /\ capability'[p].installed /\ capability'[p].armed
           /\ member'[p].armed
           /\ capability'[p].member_set = view.member_set
           /\ covenant'.member_set = covenant.member_set
    BY <1>1, TabSteps
  <2>4. QED
    BY <1>4, <2>1, <2>2, <2>3
<1>12. QED
  BY <1>3, <1>4, <1>5, <1>6, <1>8, <1>9, <1>10, <1>11 DEF FormationInv

LEMMA FormationInvHolds == FormationSpec => []FormationInv
BY FormationInvInit, FormationInvStep, PTL DEF FormationSpec

(* However torn, stale or orphaned its reads are, and whatever the others  *)
(* do meanwhile: a page that marks the covenant "Ready", or its ballots    *)
(* scrubbed, is right; one that says every protocol has ratified and armed *)
(* is right in that, though not in adding that the covenant is ready; and  *)
(* a capability signed from it is bound to the frozen circle or to none    *)
(* (useCovenants, describeReadiness, armOwnAdapter, IncidentRoom).         *)
THEOREM PageClaimsAreBorneOut == FormationSpec => []ClaimsAreBorneOut
<1>1. ASSUME FormationInv PROVE ClaimsAreBorneOut
  <2>1. ReadyIsTruthful /\ ScrubbedIsScrubbed /\ BoundOrUnbound
    BY <1>1 DEF FormationInv, StillTrue, AllArmed, Finished, ReadyIsTruthful,
       ReadyIn, ScrubbedIsScrubbed
  <2>2. ASSUME AllArmed
        PROVE  /\ covenant.status \in {"Ratified", "Armed"}
               /\ Joined = Ratified /\ Joined = Armed
    <3>1. covenant.status \in {"None", "Draft", "Ratified", "Armed"}
      BY <1>1 DEF FormationInv, CovenantInv, Consistent, CovenantTypeOK, Covenants
    <3>2. covenant.status \notin {"None", "Draft"}
      BY <1>1, <2>2 DEF AllArmed, FormationInv, CovenantInv, Consistent
    <3>3. QED
      BY <1>1, <2>2, <3>1, <3>2
      DEF AllArmed, FormationInv, CovenantInv, FrozenSetIsComplete
  <2>3. ArmedIsTruthful
    BY <1>1, <2>2 DEF FormationInv, StillTrue, ArmedIsTruthful, SaysReady
  <2>4. QED
    BY <2>1, <2>3 DEF ClaimsAreBorneOut
<1>2. QED
  BY <1>1, FormationInvHolds, PTL

(* The page, the tooling around it and the steward's script form a         *)
(* covenant and do nothing else: every history of theirs is one of the     *)
(* program, so all that is proved of a covenant is proved here as well.    *)
THEOREM PagesFormACovenant == FormationSpec => CovenantSpec
<1>1. FormationInit => CovenantInit
  BY DEF FormationInit
<1>2. FormationInv /\ [FormationNext]_formationVars => [CovenantNext]_covenantVars
  BY PageSteps DEF FormationInv
<1>3. QED
  BY <1>1, <1>2, FormationInvHolds, PTL DEF FormationSpec, CovenantSpec
=============================================================================
