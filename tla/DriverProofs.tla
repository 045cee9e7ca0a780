---------------------------- MODULE DriverProofs -----------------------------
(***************************************************************************)
(* Theorems about the proof scripts: what a verdict says of the chain, for *)
(* any number of troubles around a run, any thresholds and windows, and    *)
(* whatever strangers, the committor and the scheduler do in between.      *)
(*                                                                         *)
(* First come facts about the scripts as lists: which steps occur in them  *)
(* and in which order.  Then what a step of the system leaves of the       *)
(* chain, and the invariants that a verdict is read off.                   *)
(***************************************************************************)
EXTENDS Drivers, IncidentProofs, SequenceTheorems

-----------------------------------------------------------------------------
(* What the steps do, section by section.                                  *)
FormationDos ==
  {"createCovenant", "addCovenantMember", "ratifyCovenantMember",
   "ratifyCovenant", "armCovenantMember", "armCovenant"}
CreationDos ==
  {"initializeIncident", "initializeClaim", "initializeAttestation"}
DelegationDos == {"delegateIncident", "delegateClaim", "delegateAttestation"}
PermissionDos == {"createClaimPermission", "createAttestationPermission"}
OpeningDos == {"openIncident", "submitPrivateClaim"}
ReleaseDos ==
  {"scrubClaim", "scrubAttestation", "closeClaimPermission",
   "closeAttestationPermission", "releaseIncident"}
RefusalDos ==
  {"outsiderAttests", "replaysNonce", "nonOpenerQuarantines",
   "commitIncident", "releaseIncident", "closeClaimPermission",
   "certifyShort"}
ArmingDos ==
  {"initializeMarket", "installCapability", "armCapability", "setAdapter",
   "clearAdapter"}
ReceiptDos == {"initializeSettlementReceipt", "initializeAdapterReceipt"}
CohortDos ==
  {"initializeOperation", "delegateOperation", "scheduleSettlementCohort"}
Begins == {"beginExpiry", "beginCancel"}
Homes == {"owner", "landed"}
OtherDos ==
  {"submitSealedAttestation", "certifyIncident", "publishCertificate",
   "suspendCapability", "requestExpiryCrank", "cancelExpiryCrank",
   "attestsAfterwards", "matrix", "canaries", "verdict", "freshness",
   "control", "scan", "reconcile", "scrubHeld", "verified", "watch",
   "iterated", "safe", "certificate", "effects", "checkpoint"}
Words ==
  UNION {FormationDos, CreationDos, DelegationDos, PermissionDos, OpeningDos,
         ReleaseDos, RefusalDos, ArmingDos, ReceiptDos, CohortDos, Begins,
         Homes, OtherDos}

(* Whom a step is about: the handlers that take a member get one, those    *)
(* that take a list of ballots get all of them; and what a script sends in *)
(* order to be refused.                                                    *)
Aimed(x) ==
  /\ x.do \in {"initializeAttestation", "delegateAttestation",
               "submitSealedAttestation", "scrubAttestation",
               "replaysNonce", "attestsAfterwards",
               "addCovenantMember", "ratifyCovenantMember",
               "armCovenantMember", "installCapability", "armCapability",
               "initializeIncident", "createAttestationPermission",
               "closeAttestationPermission"} => x.of \in Members
  /\ x.do \in {"releaseIncident", "commitIncident", "ratifyCovenant",
               "scheduleSettlementCohort"} => x.of = Members
  /\ x.do = "createCovenant" => x.of = RequiredApprovals
  /\ x.do = "requestExpiryCrank" => x.of = Requested
  /\ x.do = "suspendCapability" => x.of = gamma
  /\ x.mode = "refused" => x.do \in RefusalDos \cup {"attestsAfterwards"}

Modes == {"send", "tolerant", "refused", "look"}
Ofs == Members \cup {Members, {alpha, beta}} \cup Nat \cup {"opener", "payer"}
AllSteps == {x \in [mode : Modes, do : Words, of : Ofs] : Aimed(x)}

(* A section of a script is a list of steps, known by what they do.        *)
Dos(s) == {s[i].do : i \in DOMAIN s}
Section(s, dos) == s \in Seq(AllSteps) /\ Dos(s) = dos

(* What is known of two lists is known of the one made of them.            *)
LEMMA Joining ==
  ASSUME NEW s \in Seq(AllSteps), NEW t \in Seq(AllSteps)
  PROVE  /\ s \o t \in Seq(AllSteps)
         /\ Len(s) \in Nat /\ Len(t) \in Nat
         /\ DOMAIN s = 1..Len(s) /\ DOMAIN t = 1..Len(t)
         /\ DOMAIN (s \o t) = 1..(Len(s) + Len(t))
         /\ \A i \in 1..Len(s) : (s \o t)[i] = s[i]
         /\ \A i \in 1..Len(t) : (s \o t)[i + Len(s)] = t[i]
         /\ \A i \in DOMAIN (s \o t) :
              \/ i \in DOMAIN s /\ (s \o t)[i] = s[i]
              \/ i - Len(s) \in DOMAIN t /\ (s \o t)[i] = t[i - Len(s)]
<1>1. /\ s \o t \in Seq(AllSteps)
      /\ Len(s \o t) = Len(s) + Len(t)
      /\ \A i \in 1..Len(s) + Len(t) :
           (s \o t)[i] = IF i <= Len(s) THEN s[i] ELSE t[i - Len(s)]
  BY ConcatProperties
<1>2. /\ Len(s) \in Nat /\ Len(t) \in Nat
      /\ DOMAIN s = 1..Len(s) /\ DOMAIN t = 1..Len(t)
      /\ DOMAIN (s \o t) = 1..(Len(s) + Len(t))
  BY <1>1
<1>3. QED
  BY <1>1, <1>2

LEMMA Joined ==
  ASSUME NEW s \in Seq(AllSteps), NEW t \in Seq(AllSteps)
  PROVE  s \o t \in Seq(AllSteps) /\ Dos(s \o t) = Dos(s) \cup Dos(t)
<1>1. Dos(s \o t) \subseteq Dos(s) \cup Dos(t)
  BY Joining DEF Dos
<1>2. ASSUME NEW i \in DOMAIN s PROVE s[i].do \in Dos(s \o t)
  <2>1. i \in DOMAIN (s \o t) /\ (s \o t)[i] = s[i]
    BY Joining
  <2>2. QED
    BY <2>1 DEF Dos
<1>3. ASSUME NEW i \in DOMAIN t PROVE t[i].do \in Dos(s \o t)
  <2>1. i + Len(s) \in DOMAIN (s \o t) /\ (s \o t)[i + Len(s)] = t[i]
    BY Joining
  <2>2. QED
    BY <2>1 DEF Dos
<1>4. s \o t \in Seq(AllSteps)
  BY Joining
<1>5. QED
  BY <1>1, <1>2, <1>3, <1>4 DEF Dos

(* One step, two, or none.                                                 *)
LEMMA OneStep ==
  ASSUME NEW x \in AllSteps
  PROVE  <<x>> \in Seq(AllSteps) /\ Dos(<<x>>) = {x.do}
<1>1. <<x>> \in Seq(AllSteps) /\ DOMAIN <<x>> = {1} /\ <<x>>[1] = x
  OBVIOUS
<1>2. QED
  BY <1>1 DEF Dos

LEMMA TwoSteps ==
  ASSUME NEW x \in AllSteps, NEW y \in AllSteps
  PROVE  <<x, y>> \in Seq(AllSteps) /\ Dos(<<x, y>>) = {x.do, y.do}
<1>1. /\ <<x, y>> \in Seq(AllSteps) /\ DOMAIN <<x, y>> = {1, 2}
      /\ <<x, y>>[1] = x /\ <<x, y>>[2] = y
  OBVIOUS
<1>2. QED
  BY <1>1 DEF Dos

LEMMA NoStep == << >> \in Seq(AllSteps) /\ Dos(<< >>) = {}
BY DEF Dos

LEMMA SectionsJoin ==
  ASSUME NEW s, NEW t, NEW a, NEW b, Section(s, a), Section(t, b)
  PROVE  Section(s \o t, a \cup b)
BY Joined DEF Section

(* A step for each member.                                                 *)
LEMMA EachIs ==
  ASSUME NEW do \in Words,
         do \notin {"releaseIncident", "commitIncident", "ratifyCovenant",
                    "scheduleSettlementCohort", "requestExpiryCrank",
                    "createCovenant", "suspendCapability"}
  PROVE  Section(Each(do), {do})
<1>1. \A i \in 1..3 : Order[i] \in Members
  BY DriversAssumption DEF Order
<1>2. Each(do) = [i \in 1..3 |-> Step(do, Order[i])]
  BY DEF Each
<1>3. \A i \in 1..3 : Step(do, Order[i]) \in AllSteps
  BY <1>1 DEF AllSteps, Step, Ofs, Aimed, Modes
<1>4. Each(do) \in Seq(AllSteps)
  BY <1>2, <1>3
<1>5. QED
  BY <1>2, <1>4 DEF Dos, Step, Section

(* To tolerate a refusal changes the mode of a step only.                  *)
LEMMA TolerantIs ==
  ASSUME NEW s, NEW a, Section(s, a)
  PROVE  /\ Section(Tolerant(s), a)
         /\ DOMAIN Tolerant(s) = DOMAIN s
         /\ \A i \in DOMAIN s : /\ Tolerant(s)[i].do = s[i].do
                               /\ Tolerant(s)[i].of = s[i].of
<1>1. s \in Seq(AllSteps) /\ DOMAIN s = 1..Len(s) /\ Len(s) \in Nat
  BY DEF Section
<1>2. ASSUME NEW i \in DOMAIN s
      PROVE  /\ Tolerant(s)[i] \in AllSteps
             /\ Tolerant(s)[i].do = s[i].do
             /\ Tolerant(s)[i].of = s[i].of
  <2>1. s[i] \in AllSteps
    BY <1>1
  <2>2. Tolerant(s)[i] = [s[i] EXCEPT !.mode = "tolerant"]
    BY DEF Tolerant
  <2>3. QED
    BY <2>1, <2>2 DEF AllSteps, Aimed, Modes
<1>3. DOMAIN Tolerant(s) = DOMAIN s
  BY DEF Tolerant
<1>4. Tolerant(s) \in Seq(AllSteps)
  <2>1. Tolerant(s) = [i \in 1..Len(s) |-> Tolerant(s)[i]]
    BY <1>1 DEF Tolerant
  <2>2. QED
    BY <1>1, <1>2, <2>1
<1>5. QED
  BY <1>1, <1>2, <1>3, <1>4 DEF Dos, Section

(* A list of one step, and one of two.                                     *)
LEMMA MembersAre ==
  /\ alpha \in Members /\ beta \in Members /\ gamma \in Members
  /\ opener = alpha
  /\ Members \in Ofs /\ {alpha, beta} \in Ofs /\ opener \in Ofs
  /\ alpha \in Ofs /\ beta \in Ofs /\ gamma \in Ofs /\ "opener" \in Ofs
  /\ ClaimPayer \in Ofs /\ RequiredApprovals \in Ofs /\ Requested \in Ofs
  /\ 4 \in Ofs
<1>1. alpha \in Members /\ beta \in Members /\ gamma \in Members
  BY DriversAssumption
<1>2. RequiredApprovals \in Nat /\ Requested \in Nat
  BY ConstantTypes, WatchAssumption, IterationsAssumption
<1>3. QED
  BY <1>1, <1>2, DriversAssumption DEF Ofs, opener

LEMMA OneIs ==
  ASSUME NEW m \in Modes, NEW do \in Words, NEW of \in Ofs,
         Aimed([mode |-> m, do |-> do, of |-> of])
  PROVE  /\ [mode |-> m, do |-> do, of |-> of] \in AllSteps
         /\ Section(<<[mode |-> m, do |-> do, of |-> of]>>, {do})
<1>1. [mode |-> m, do |-> do, of |-> of] \in AllSteps
  BY DEF AllSteps
<1>2. QED
  BY <1>1, OneStep DEF Section

LEMMA LookIs ==
  ASSUME NEW do \in Begins \cup Homes \cup
           (OtherDos \ {"submitSealedAttestation", "suspendCapability",
                        "requestExpiryCrank", "attestsAfterwards"})
  PROVE  Look(do) \in AllSteps /\ Section(<<Look(do)>>, {do})
<1>1. Aimed([mode |-> "look", do |-> do, of |-> alpha])
  BY DEF Aimed, Begins, Homes, OtherDos
<1>2. do \in Words
  BY DEF Words
<1>3. QED
  BY <1>1, <1>2, OneIs, MembersAre DEF Look, Modes

(* A transaction that is sent to nobody in particular, or where it must.   *)
LEMMA StepIs ==
  ASSUME NEW do \in Words, NEW of \in Ofs, Aimed(Step(do, of))
  PROVE  Step(do, of) \in AllSteps /\ Section(<<Step(do, of)>>, {do})
<1>1. Step(do, of) = [mode |-> "send", do |-> do, of |-> of]
  BY DEF Step
<1>2. QED
  BY <1>1, OneIs DEF Modes

LEMMA SectionsJoin3 ==
  ASSUME NEW s, NEW t, NEW u, NEW a, NEW b, NEW c,
         Section(s, a), Section(t, b), Section(u, c)
  PROVE  Section(s \o t \o u, a \cup b \cup c)
<1>1. Section(s \o t, a \cup b)
  BY SectionsJoin
<1>2. QED
  BY <1>1, SectionsJoin

LEMMA SectionsJoin4 ==
  ASSUME NEW s, NEW t, NEW u, NEW v, NEW a, NEW b, NEW c, NEW d,
         Section(s, a), Section(t, b), Section(u, c), Section(v, d)
  PROVE  Section(s \o t \o u \o v, a \cup b \cup c \cup d)
<1>1. Section(s \o t \o u, a \cup b \cup c)
  BY SectionsJoin3
<1>2. QED
  BY <1>1, SectionsJoin

-----------------------------------------------------------------------------
(* The sections of the scripts.                                            *)
LEMMA FormationIs == Section(CovenantSteps, FormationDos)
<1> DEFINE a == <<Step("createCovenant", RequiredApprovals)>>
           b == Each("addCovenantMember")
           c == Each("ratifyCovenantMember")
           d == <<Step("ratifyCovenant", Members)>>
           e == Each("armCovenantMember")
           f == <<Step("armCovenant", Members)>>
<1>1. Section(a, {"createCovenant"}) /\ Section(d, {"ratifyCovenant"})
        /\ Section(f, {"armCovenant"})
  BY StepIs, MembersAre DEF Aimed, Step, Words, FormationDos
<1>2. Section(b, {"addCovenantMember"}) /\ Section(c, {"ratifyCovenantMember"})
        /\ Section(e, {"armCovenantMember"})
  BY EachIs DEF Words, FormationDos
<1>3. CovenantSteps = a \o b \o c \o d \o e \o f
  BY DEF CovenantSteps
<1> HIDE DEF a, b, c, d, e, f
<1>4. Section(a \o b \o c \o d,
              {"createCovenant"} \cup {"addCovenantMember"}
                \cup {"ratifyCovenantMember"} \cup {"ratifyCovenant"})
  BY <1>1, <1>2, SectionsJoin4
<1>5. Section(a \o b \o c \o d \o e \o f,
              ({"createCovenant"} \cup {"addCovenantMember"}
                \cup {"ratifyCovenantMember"} \cup {"ratifyCovenant"})
                \cup {"armCovenantMember"} \cup {"armCovenant"})
  BY <1>1, <1>2, <1>4, SectionsJoin3
<1>6. FormationDos = ({"createCovenant"} \cup {"addCovenantMember"}
                \cup {"ratifyCovenantMember"} \cup {"ratifyCovenant"})
                \cup {"armCovenantMember"} \cup {"armCovenant"}
  BY DEF FormationDos
<1>7. QED
  BY <1>3, <1>5, <1>6

LEMMA TwoAre ==
  ASSUME NEW x \in AllSteps, NEW y \in AllSteps
  PROVE  Section(<<x, y>>, {x.do} \cup {y.do})
<1>1. <<x, y>> \in Seq(AllSteps) /\ Dos(<<x, y>>) = {x.do, y.do}
  BY TwoSteps
<1>2. {x.do, y.do} = {x.do} \cup {y.do}
  OBVIOUS
<1>3. QED
  BY <1>1, <1>2 DEF Section

LEMMA CreationIs == Section(CreationSteps, CreationDos)
<1> DEFINE a == <<Step("initializeIncident", opener),
                  Step("initializeClaim", opener)>>
           b == Each("initializeAttestation")
<1>1. Section(a, {"initializeIncident"} \cup {"initializeClaim"})
  <2>1. /\ Step("initializeIncident", opener) \in AllSteps
        /\ Step("initializeClaim", opener) \in AllSteps
    BY StepIs, MembersAre DEF Aimed, Step, Words, CreationDos
  <2>2. QED
    BY <2>1, TwoAre DEF Step
<1>2. Section(b, {"initializeAttestation"})
  BY EachIs DEF Words, CreationDos
<1>3. CreationSteps = a \o b
  BY DEF CreationSteps
<1> HIDE DEF a, b
<1>4. CreationDos = ({"initializeIncident"} \cup {"initializeClaim"})
                      \cup {"initializeAttestation"}
  BY DEF CreationDos
<1>5. QED
  BY <1>1, <1>2, <1>3, <1>4, SectionsJoin

LEMMA DelegationIs == Section(DelegationSteps, DelegationDos)
<1> DEFINE a == <<Step("delegateIncident", opener),
                  Step("delegateClaim", opener)>>
           b == Each("delegateAttestation")
<1>1. Section(a, {"delegateIncident"} \cup {"delegateClaim"})
  <2>1. /\ Step("delegateIncident", opener) \in AllSteps
        /\ Step("delegateClaim", opener) \in AllSteps
    BY StepIs, MembersAre DEF Aimed, Step, Words, DelegationDos
  <2>2. QED
    BY <2>1, TwoAre DEF Step
<1>2. Section(b, {"delegateAttestation"})
  BY EachIs DEF Words, DelegationDos
<1>3. DelegationSteps = a \o b
  BY DEF DelegationSteps
<1> HIDE DEF a, b
<1>4. DelegationDos = ({"delegateIncident"} \cup {"delegateClaim"})
                        \cup {"delegateAttestation"}
  BY DEF DelegationDos
<1>5. QED
  BY <1>1, <1>2, <1>3, <1>4, SectionsJoin

LEMMA PermissionsAre ==
  ASSUME NEW signer \in Ofs
  PROVE  Section(PermissionSteps(signer), PermissionDos)
<1> DEFINE a == <<Step("createClaimPermission", signer)>>
           b == Each("createAttestationPermission")
<1>1. Section(a, {"createClaimPermission"})
  BY StepIs DEF Aimed, Step, Words, PermissionDos
<1>2. Section(b, {"createAttestationPermission"})
  BY EachIs DEF Words, PermissionDos
<1>3. PermissionSteps(signer) = a \o b
  BY DEF PermissionSteps
<1> HIDE DEF a, b
<1>4. PermissionDos
        = {"createClaimPermission"} \cup {"createAttestationPermission"}
  BY DEF PermissionDos
<1>5. QED
  BY <1>1, <1>2, <1>3, <1>4, SectionsJoin

LEMMA OpeningIs ==
  /\ Section(OpeningSteps, OpeningDos)
  /\ OpeningSteps[1] = Step("openIncident", opener)
  /\ OpeningSteps[2] = Step("submitPrivateClaim", opener)
  /\ OpeningSteps[1] \in AllSteps /\ OpeningSteps[2] \in AllSteps
<1>1. /\ Step("openIncident", opener) \in AllSteps
      /\ Step("submitPrivateClaim", opener) \in AllSteps
  BY StepIs, MembersAre DEF Aimed, Step, Words, OpeningDos
<1>2. Section(OpeningSteps, {"openIncident"} \cup {"submitPrivateClaim"})
  BY <1>1, TwoAre DEF Step, OpeningSteps
<1>3. OpeningDos = {"openIncident"} \cup {"submitPrivateClaim"}
  BY DEF OpeningDos
<1>4. QED
  BY <1>1, <1>2, <1>3 DEF OpeningSteps

LEMMA ApprovalsAre == Section(ApprovalSteps, {"submitSealedAttestation"})
<1>1. /\ Step("submitSealedAttestation", alpha) \in AllSteps
      /\ Step("submitSealedAttestation", beta) \in AllSteps
  BY StepIs, MembersAre DEF Aimed, Step, Words, OtherDos
<1>2. Section(ApprovalSteps, {"submitSealedAttestation"}
                               \cup {"submitSealedAttestation"})
  BY <1>1, TwoAre DEF Step, ApprovalSteps
<1>3. QED
  BY <1>2

LEMMA ReleaseIs == Section(ReleaseSteps, ReleaseDos)
<1> DEFINE a == <<Step("scrubClaim", opener)>>
           b == Each("scrubAttestation")
           c == <<Step("closeClaimPermission", opener)>>
           d == Each("closeAttestationPermission")
           e == <<Step("releaseIncident", Members)>>
<1>1. Section(a, {"scrubClaim"}) /\ Section(c, {"closeClaimPermission"})
        /\ Section(e, {"releaseIncident"})
  BY StepIs, MembersAre DEF Aimed, Step, Words, ReleaseDos
<1>2. /\ Section(b, {"scrubAttestation"})
      /\ Section(d, {"closeAttestationPermission"})
  BY EachIs DEF Words, ReleaseDos
<1>3. ReleaseSteps = (a \o b) \o (c \o d) \o e
  BY DEF ReleaseSteps, ScrubSteps, CloseSteps
<1> HIDE DEF a, b, c, d, e
<1>4. /\ Section(a \o b, {"scrubClaim"} \cup {"scrubAttestation"})
      /\ Section(c \o d, {"closeClaimPermission"}
                           \cup {"closeAttestationPermission"})
  BY <1>1, <1>2, SectionsJoin
<1>5. Section((a \o b) \o (c \o d) \o e,
              ({"scrubClaim"} \cup {"scrubAttestation"})
                \cup ({"closeClaimPermission"}
                        \cup {"closeAttestationPermission"})
                \cup {"releaseIncident"})
  BY <1>1, <1>4, SectionsJoin3
<1>6. ReleaseDos = ({"scrubClaim"} \cup {"scrubAttestation"})
                \cup ({"closeClaimPermission"}
                        \cup {"closeAttestationPermission"})
                \cup {"releaseIncident"}
  BY DEF ReleaseDos
<1>7. QED
  BY <1>3, <1>5, <1>6

(* Certify, scrub, close and release.                                      *)
LEMMA ExitIs ==
  Section(<<Step("certifyIncident", Members)>> \o ReleaseSteps,
          {"certifyIncident"} \cup ReleaseDos)
<1>1. Section(<<Step("certifyIncident", Members)>>, {"certifyIncident"})
  BY StepIs, MembersAre DEF Aimed, Step, Words, OtherDos
<1>2. QED
  BY <1>1, ReleaseIs, SectionsJoin

LEMMA ReceiptsAre == Section(CohortReceipts, ReceiptDos)
<1> DEFINE a == <<Step("initializeSettlementReceipt", opener)>>
           b == Each("initializeAdapterReceipt")
<1>1. Section(a, {"initializeSettlementReceipt"})
  BY StepIs, MembersAre DEF Aimed, Step, Words, ReceiptDos
<1>2. Section(b, {"initializeAdapterReceipt"})
  BY EachIs DEF Words, ReceiptDos
<1>3. CohortReceipts = a \o b
  BY DEF CohortReceipts
<1> HIDE DEF a, b
<1>4. ReceiptDos
        = {"initializeSettlementReceipt"} \cup {"initializeAdapterReceipt"}
  BY DEF ReceiptDos
<1>5. QED
  BY <1>1, <1>2, <1>3, <1>4, SectionsJoin

LEMMA CohortIs ==
  /\ Section(CohortSteps, CohortDos)
  /\ \A i \in 1..3 : CohortSteps[i] \in AllSteps
  /\ CohortSteps[1].do = "initializeOperation"
  /\ CohortSteps[2].do = "delegateOperation"
  /\ CohortSteps[3].do = "scheduleSettlementCohort"
<1> DEFINE a == Step("initializeOperation", 4)
           b == Step("delegateOperation", opener)
           c == Step("scheduleSettlementCohort", Members)
<1>1. a \in AllSteps /\ b \in AllSteps /\ c \in AllSteps
  BY StepIs, MembersAre DEF Aimed, Step, Words, CohortDos
<1>2. /\ a.do = "initializeOperation" /\ b.do = "delegateOperation"
      /\ c.do = "scheduleSettlementCohort"
  BY DEF Step
<1>3. CohortSteps = <<a, b, c>>
  BY DEF CohortSteps
<1> HIDE DEF a, b, c
<1>4. /\ CohortSteps \in Seq(AllSteps) /\ DOMAIN CohortSteps = {1, 2, 3}
      /\ CohortSteps[1] = a /\ CohortSteps[2] = b /\ CohortSteps[3] = c
  BY <1>1, <1>3
<1>5. QED
  BY <1>1, <1>2, <1>4 DEF Section, Dos, CohortDos

(* A market is armed, with its adapter registered or not.                  *)
LEMMA ArmingIs ==
  ASSUME NEW p \in Members, NEW registers \in BOOLEAN
  PROVE  /\ Section(Arming(p, registers),
                    {"initializeMarket", "installCapability",
                     "armCapability",
                     IF registers THEN "setAdapter" ELSE "clearAdapter"})
         /\ \A i \in DOMAIN Arming(p, registers) :
              Arming(p, registers)[i].of = p
<1> DEFINE a == Step("initializeMarket", p)
           b == Step("installCapability", p)
           c == Step("armCapability", p)
           last == IF registers THEN "setAdapter" ELSE "clearAdapter"
           d == Step(last, p)
<1>1. p \in Ofs /\ last \in Words
  BY DEF Ofs, Words, ArmingDos
<1>2. /\ Aimed(a) /\ Aimed(b) /\ Aimed(c) /\ Aimed(d)
      /\ "initializeMarket" \in Words /\ "installCapability" \in Words
      /\ "armCapability" \in Words
  BY DEF Aimed, Step, Words, ArmingDos
<1>3. a \in AllSteps /\ b \in AllSteps /\ c \in AllSteps /\ d \in AllSteps
  BY <1>1, <1>2, StepIs
<1>4. /\ a.do = "initializeMarket" /\ b.do = "installCapability"
      /\ c.do = "armCapability" /\ d.do = last
      /\ a.of = p /\ b.of = p /\ c.of = p /\ d.of = p
  BY DEF Step
<1>5. Arming(p, registers) = <<a, b, c, d>>
  BY DEF Arming
<1> HIDE DEF a, b, c, d
<1>6. /\ Arming(p, registers) \in Seq(AllSteps)
      /\ DOMAIN Arming(p, registers) = {1, 2, 3, 4}
      /\ Arming(p, registers)[1] = a /\ Arming(p, registers)[2] = b
      /\ Arming(p, registers)[3] = c /\ Arming(p, registers)[4] = d
  BY <1>3, <1>5
<1>7. QED
  BY <1>4, <1>6 DEF Section, Dos

-----------------------------------------------------------------------------
(* The order of the steps.                                                 *)

(* From the first step of one kind on there is none of another.            *)
NoneAfter(s, kind, other) ==
  \A i, j \in DOMAIN s : i <= j /\ s[i].do \in kind => s[j].do \notin other

(* A step of one kind comes after one of another.                          *)
Precedes(s, other, kind) ==
  \A j \in DOMAIN s : s[j].do \in kind =>
    \E i \in DOMAIN s : i < j /\ s[i].do \in other

(* Nobody's adapter is registered here but the first two members'.         *)
SparesGamma(s) ==
  \A i \in DOMAIN s : s[i].do = "setAdapter" => s[i].of # gamma

LEMMA Absent ==
  ASSUME NEW s, NEW a, Section(s, a), NEW kind, NEW other, kind \cap a = {}
  PROVE  NoneAfter(s, kind, other) /\ Precedes(s, other, kind)
BY DEF Section, Dos, NoneAfter, Precedes

LEMMA NoneMore ==
  ASSUME NEW s, NEW a, Section(s, a), NEW t, NEW b, Section(t, b),
         NEW kind, NEW other, NoneAfter(s, kind, other), other \cap b = {}
  PROVE  NoneAfter(s \o t, kind, other)
<1>1. s \in Seq(AllSteps) /\ t \in Seq(AllSteps)
  BY DEF Section
<1>2. SUFFICES ASSUME NEW i \in DOMAIN (s \o t), NEW j \in DOMAIN (s \o t),
                      i <= j, (s \o t)[i].do \in kind,
                      (s \o t)[j].do \in other
               PROVE  FALSE
  BY DEF NoneAfter
<1>3. j \in DOMAIN s /\ (s \o t)[j] = s[j]
  BY <1>1, <1>2, Joining DEF Section, Dos
<1>4. i \in DOMAIN s /\ (s \o t)[i] = s[i]
  BY <1>1, <1>2, <1>3, Joining
<1>5. QED
  BY <1>2, <1>3, <1>4 DEF NoneAfter

LEMMA PrecedesStill ==
  ASSUME NEW s, NEW a, Section(s, a), NEW t, NEW b, Section(t, b),
         NEW kind, NEW other, Precedes(s, other, kind),
         other \cap a # {} \/ Precedes(t, other, kind)
  PROVE  Precedes(s \o t, other, kind)
<1>1. s \in Seq(AllSteps) /\ t \in Seq(AllSteps)
  BY DEF Section
<1>2. SUFFICES ASSUME NEW j \in DOMAIN (s \o t), (s \o t)[j].do \in kind
               PROVE  \E i \in DOMAIN (s \o t) :
                        i < j /\ (s \o t)[i].do \in other
  BY DEF Precedes
<1>3. CASE j \in DOMAIN s /\ (s \o t)[j] = s[j]
  <2>1. PICK i \in DOMAIN s : i < j /\ s[i].do \in other
    BY <1>2, <1>3 DEF Precedes
  <2>2. i \in DOMAIN (s \o t) /\ (s \o t)[i] = s[i]
    BY <1>1, Joining
  <2>3. QED
    BY <2>1, <2>2
<1>4. CASE j - Len(s) \in DOMAIN t /\ (s \o t)[j] = t[j - Len(s)]
  <2>1. CASE other \cap a # {}
    <3>1. PICK i \in DOMAIN s : s[i].do \in other
      BY <2>1 DEF Section, Dos
    <3>2. i \in DOMAIN (s \o t) /\ (s \o t)[i] = s[i] /\ i < j
      BY <1>1, <1>4, Joining
    <3>3. QED
      BY <3>1, <3>2
  <2>2. CASE Precedes(t, other, kind)
    <3>1. PICK i \in DOMAIN t : i < j - Len(s) /\ t[i].do \in other
      BY <1>2, <1>4, <2>2 DEF Precedes
    <3>2. /\ i + Len(s) \in DOMAIN (s \o t) /\ (s \o t)[i + Len(s)] = t[i]
          /\ i + Len(s) < j
      BY <1>1, <1>2, <1>4, <3>1, Joining
    <3>3. QED
      BY <3>1, <3>2
  <2>3. QED
    BY <2>1, <2>2
<1>5. QED
  BY <1>1, <1>2, <1>3, <1>4, Joining

LEMMA SparingJoins ==
  ASSUME NEW s, NEW a, Section(s, a), NEW t, NEW b, Section(t, b),
         SparesGamma(s), SparesGamma(t) \/ "setAdapter" \notin b
  PROVE  SparesGamma(s \o t)
<1>1. s \in Seq(AllSteps) /\ t \in Seq(AllSteps)
  BY DEF Section
<1>2. ASSUME NEW i \in DOMAIN (s \o t), (s \o t)[i].do = "setAdapter"
      PROVE  (s \o t)[i].of # gamma
  <2>1. CASE i \in DOMAIN s /\ (s \o t)[i] = s[i]
    BY <1>2, <2>1 DEF SparesGamma
  <2>2. CASE i - Len(s) \in DOMAIN t /\ (s \o t)[i] = t[i - Len(s)]
    BY <1>2, <2>2 DEF SparesGamma, Section, Dos
  <2>3. QED
    BY <1>1, <2>1, <2>2, Joining
<1>3. QED
  BY <1>2 DEF SparesGamma

(* What a script ends with is what the last of its sections ends with.     *)
Last(s) == s[Len(s)]
LEMMA EndsWith ==
  ASSUME NEW s, NEW a, Section(s, a), NEW t, NEW b, Section(t, b), b # {}
  PROVE  /\ Len(s \o t) \in Nat \ {0} /\ Last(s \o t) = Last(t)
<1>1. s \in Seq(AllSteps) /\ t \in Seq(AllSteps)
  BY DEF Section
<1>2. Len(s \o t) = Len(s) + Len(t) /\ Len(s) \in Nat /\ Len(t) \in Nat
  BY <1>1
<1>3. Len(t) # 0
  BY <1>1 DEF Section, Dos
<1>4. (s \o t)[Len(t) + Len(s)] = t[Len(t)]
  BY <1>1, <1>2, <1>3, Joining
<1>5. QED
  BY <1>2, <1>3, <1>4 DEF Last

-----------------------------------------------------------------------------
(* What every script is: a list of aimed steps that ends with its verdict  *)
(* and in which nothing is delegated, requested or read again once it      *)
(* watches the scheduler or saw its incident come home; a checkpoint comes *)
(* after what it looks at.                                                 *)
Observing == Begins \cup Homes
Moving == {"delegateIncident", "requestExpiryCrank", "checkpoint"}
WellMade(s) ==
  /\ s \in Seq(AllSteps) /\ Len(s) \in Nat \ {0} /\ Last(s) = Look("verdict")
  /\ NoneAfter(s, Observing, Moving)
  /\ Precedes(s, {"effects"}, {"checkpoint"})

LEMMA TwoLooks ==
  ASSUME NEW x \in Begins \cup Homes \cup
           (OtherDos \ {"submitSealedAttestation", "suspendCapability",
                        "requestExpiryCrank", "attestsAfterwards"}),
         NEW y \in Begins \cup Homes \cup
           (OtherDos \ {"submitSealedAttestation", "suspendCapability",
                        "requestExpiryCrank", "attestsAfterwards"})
  PROVE  /\ Section(<<Look(x), Look(y)>>, {x} \cup {y})
         /\ Last(<<Look(x), Look(y)>>) = Look(y)
<1>1. Look(x) \in AllSteps /\ Look(y) \in AllSteps
  BY LookIs
<1>2. Look(x).do = x /\ Look(y).do = y
  BY DEF Look
<1>3. QED
  BY <1>1, <1>2, TwoAre DEF Last

LEMMA ThreeLooks ==
  ASSUME NEW x \in Begins \cup Homes \cup
           (OtherDos \ {"submitSealedAttestation", "suspendCapability",
                        "requestExpiryCrank", "attestsAfterwards"}),
         NEW y \in Begins \cup Homes \cup
           (OtherDos \ {"submitSealedAttestation", "suspendCapability",
                        "requestExpiryCrank", "attestsAfterwards"}),
         NEW z \in Begins \cup Homes \cup
           (OtherDos \ {"submitSealedAttestation", "suspendCapability",
                        "requestExpiryCrank", "attestsAfterwards"})
  PROVE  /\ Section(<<Look(x), Look(y), Look(z)>>, {x, y, z})
         /\ Last(<<Look(x), Look(y), Look(z)>>) = Look(z)
<1> DEFINE a == Look(x)
           b == Look(y)
           c == Look(z)
<1>1. a \in AllSteps /\ b \in AllSteps /\ c \in AllSteps
  BY LookIs
<1>2. a.do = x /\ b.do = y /\ c.do = z
  BY DEF Look
<1> HIDE DEF a, b, c
<1>3. /\ <<a, b, c>> \in Seq(AllSteps) /\ DOMAIN <<a, b, c>> = {1, 2, 3}
      /\ <<a, b, c>>[1] = a /\ <<a, b, c>>[2] = b /\ <<a, b, c>>[3] = c
      /\ Len(<<a, b, c>>) = 3
  BY <1>1
<1>4. Section(<<a, b, c>>, {x, y, z}) /\ Last(<<a, b, c>>) = c
  BY <1>2, <1>3 DEF Section, Dos, Last
<1>5. QED
  BY <1>4 DEF a, b, c

LEMMA Finished ==
  ASSUME NEW s, NEW a, Section(s, a), NEW t, NEW b, Section(t, b), b # {},
         Last(t) = Look("verdict"), NoneAfter(s, Observing, Moving),
         Moving \cap b = {}, "checkpoint" \notin a
  PROVE  WellMade(s \o t) /\ Section(s \o t, a \cup b)
<1>5. Precedes(s \o t, {"effects"}, {"checkpoint"})
  <2>1. {"checkpoint"} \cap (a \cup b) = {}
    BY DEF Moving
  <2>2. QED
    BY <2>1, SectionsJoin, Absent
<1>1. NoneAfter(s \o t, Observing, Moving)
  BY NoneMore
<1>2. Section(s \o t, a \cup b)
  BY SectionsJoin
<1>3. Len(s \o t) \in Nat \ {0} /\ Last(s \o t) = Look("verdict")
  BY EndsWith
<1>4. QED
  BY <1>1, <1>2, <1>3, <1>5 DEF WellMade, Section

(* The private incident, from the circle to the sealed ballots.            *)
IncidentDos ==
  FormationDos \cup CreationDos \cup DelegationDos \cup PermissionDos

(* phase4-local reads the matrix before it judges.                         *)
LEMMA LocalIs ==
  /\ WellMade(Local) /\ Precedes(Local, {"matrix"}, {"verdict"})
  /\ Dos(Local) \cap Begins = {} /\ "safe" \notin Dos(Local)
<1> DEFINE a == LocalFormation
           b == LocalAccounts
           c == LocalDelegation
           d == LocalPermissions
           e == LocalRun
           f == <<Look("matrix")>>
           g == LocalExit
           h == <<Look("owner"), Look("canaries"), Look("verdict")>>
           runDos == OpeningDos \cup {"submitSealedAttestation"}
           exitDos == {"certifyIncident"} \cup ReleaseDos
           lastDos == {"owner", "canaries", "verdict"}
<1>1. /\ Section(a, FormationDos) /\ Section(b, CreationDos)
      /\ Section(c, DelegationDos) /\ Section(d, PermissionDos)
  BY FormationIs, CreationIs, TolerantIs, DelegationIs, PermissionsAre,
     MembersAre DEF LocalFormation, LocalAccounts, LocalDelegation,
     LocalPermissions
<1>2. Section(e, runDos)
  BY OpeningIs, ApprovalsAre, SectionsJoin DEF LocalRun
<1>3. Section(f, {"matrix"})
  BY LookIs DEF OtherDos
<1>4. Section(g, exitDos)
  BY ExitIs DEF LocalExit
<1>5. Section(h, lastDos) /\ Last(h) = Look("verdict")
  BY ThreeLooks DEF Homes, OtherDos
<1>6. Local = a \o b \o c \o d \o e \o f \o g \o h
  BY DEF Local
<1> HIDE DEF a, b, c, d, e, f, g, h
<1> DEFINE k == a \o b \o c \o d
           l == k \o e \o f
           m == l \o g
<1>7. Section(k, IncidentDos)
  BY <1>1, SectionsJoin4 DEF IncidentDos
<1> HIDE DEF k
<1>8. Section(l, IncidentDos \cup runDos \cup {"matrix"})
  BY <1>2, <1>3, <1>7, SectionsJoin3
<1> HIDE DEF l
<1>9. Section(m, (IncidentDos \cup runDos \cup {"matrix"}) \cup exitDos)
  BY <1>4, <1>8, SectionsJoin
<1>10. Local = m \o h
  BY <1>6 DEF m, l, k
<1>11. Precedes(l, {"matrix"}, {"verdict"})
  BY <1>8, Absent DEF IncidentDos, FormationDos, CreationDos, DelegationDos,
     PermissionDos, OpeningDos
<1>12. Precedes(m, {"matrix"}, {"verdict"})
  BY <1>4, <1>8, <1>11, PrecedesStill DEF m
<1> HIDE DEF m
<1>13. Precedes(m \o h, {"matrix"}, {"verdict"})
  <2>1. "matrix" \in (IncidentDos \cup runDos \cup {"matrix"}) \cup exitDos
    OBVIOUS
  <2>2. {"matrix"} \cap
          ((IncidentDos \cup runDos \cup {"matrix"}) \cup exitDos) # {}
    BY <2>1
  <2>3. QED
    BY <1>5, <1>9, <1>12, <2>2, PrecedesStill
<1>14. NoneAfter(m, Observing, Moving)
  <2>1. Observing \cap
          ((IncidentDos \cup runDos \cup {"matrix"}) \cup exitDos) = {}
    BY DEF Observing, Begins, Homes, IncidentDos, FormationDos, CreationDos,
       DelegationDos, PermissionDos, OpeningDos, ReleaseDos
  <2>2. QED
    BY <1>9, <2>1, Absent
<1>15. /\ WellMade(m \o h)
       /\ Section(m \o h, ((IncidentDos \cup runDos \cup {"matrix"})
                             \cup exitDos) \cup lastDos)
  <2>1. Moving \cap lastDos = {}
    BY DEF Moving
  <2>2. "checkpoint" \notin
          (IncidentDos \cup runDos \cup {"matrix"}) \cup exitDos
    BY DEF IncidentDos, FormationDos, CreationDos, DelegationDos,
       PermissionDos, OpeningDos, ReleaseDos
  <2>3. QED
    BY <1>5, <1>9, <1>14, <2>1, <2>2, Finished
<1>16. (Begins \cup {"safe"}) \cap (((IncidentDos \cup runDos \cup {"matrix"})
                       \cup exitDos) \cup lastDos) = {}
  BY DEF Begins, IncidentDos, FormationDos, CreationDos,
     DelegationDos, PermissionDos, OpeningDos, ReleaseDos
<1>17. QED
  BY <1>10, <1>13, <1>15, <1>16 DEF Section

(* phase4-per.                                                             *)
LEMMA RefusalsAre == Section(PerRefusals, RefusalDos)
<1> DEFINE a == Refused("outsiderAttests", opener)
           b == Refused("replaysNonce", alpha)
           c == Refused("nonOpenerQuarantines", gamma)
           d == Refused("commitIncident", Members)
           e == Refused("releaseIncident", Members)
           f == Refused("closeClaimPermission", opener)
           g == Refused("certifyShort", {alpha, beta})
<1>1. /\ Aimed(a) /\ Aimed(b) /\ Aimed(c) /\ Aimed(d) /\ Aimed(e)
      /\ Aimed(f) /\ Aimed(g)
  BY MembersAre DEF Aimed, Refused, RefusalDos
<1>2. RefusalDos \subseteq Words /\ "refused" \in Modes
  BY DEF Words, Modes
<1>3. /\ a \in AllSteps /\ b \in AllSteps /\ c \in AllSteps
      /\ d \in AllSteps /\ e \in AllSteps /\ f \in AllSteps /\ g \in AllSteps
  BY <1>1, <1>2, OneIs, MembersAre DEF Refused, RefusalDos
<1>4. /\ a.do = "outsiderAttests" /\ b.do = "replaysNonce"
      /\ c.do = "nonOpenerQuarantines" /\ d.do = "commitIncident"
      /\ e.do = "releaseIncident" /\ f.do = "closeClaimPermission"
      /\ g.do = "certifyShort"
  BY DEF Refused
<1>5. PerRefusals = <<a, b, c, d, e, f, g>>
  BY DEF PerRefusals
<1> HIDE DEF a, b, c, d, e, f, g
<1>6. /\ PerRefusals \in Seq(AllSteps)
      /\ DOMAIN PerRefusals = {1, 2, 3, 4, 5, 6, 7}
      /\ PerRefusals[1] = a /\ PerRefusals[2] = b /\ PerRefusals[3] = c
      /\ PerRefusals[4] = d /\ PerRefusals[5] = e /\ PerRefusals[6] = f
      /\ PerRefusals[7] = g
  BY <1>3, <1>5
<1>7. QED
  BY <1>4, <1>6 DEF Section, Dos, RefusalDos

LEMMA PerIs == WellMade(Per) /\ Dos(Per) \cap Begins = {}
<1> DEFINE a == <<Look("freshness")>>
           b == PerFormation
           c == PerAccounts
           d == PerDelegation
           e == PerPermissions
           f == PerRun
           g == <<Look("matrix"), Look("control")>>
           h == PerRefusals
           k == PerExit
           o == <<Look("owner")>>
           r == PerReplay
           z == <<Look("scan"), Look("verdict")>>
           runDos == OpeningDos \cup {"submitSealedAttestation"}
           exitDos == {"certifyIncident"} \cup ReleaseDos
           readDos == {"matrix"} \cup {"control"}
           lastDos == {"scan"} \cup {"verdict"}
<1>1. /\ Section(b, FormationDos) /\ Section(c, CreationDos)
      /\ Section(d, DelegationDos) /\ Section(e, PermissionDos)
  BY FormationIs, CreationIs, TolerantIs, DelegationIs, PermissionsAre,
     MembersAre DEF PerFormation, PerAccounts, PerDelegation, PerPermissions
<1>2. Section(f, runDos)
  <2> DEFINE x == Tolerant(<<OpeningSteps[1]>>)
             y == <<OpeningSteps[2]>>
  <2>1. /\ Section(<<OpeningSteps[1]>>, {"openIncident"})
        /\ Section(y, {"submitPrivateClaim"})
    <3>1. /\ OpeningSteps[1].do = "openIncident"
          /\ OpeningSteps[2].do = "submitPrivateClaim"
      BY OpeningIs DEF Step
    <3>2. QED
      BY <3>1, OpeningIs, OneStep DEF Section
  <2>2. Section(x, {"openIncident"})
    BY <2>1, TolerantIs
  <2>3. f = x \o y \o ApprovalSteps
    BY DEF PerRun
  <2> HIDE DEF x, y
  <2>4. Section(x \o y \o ApprovalSteps,
                {"openIncident"} \cup {"submitPrivateClaim"}
                  \cup {"submitSealedAttestation"})
    BY <2>1, <2>2, ApprovalsAre, SectionsJoin3
  <2>5. runDos = {"openIncident"} \cup {"submitPrivateClaim"}
                   \cup {"submitSealedAttestation"}
    BY DEF OpeningDos
  <2>6. QED
    BY <2>3, <2>4, <2>5
<1>3. Section(a, {"freshness"}) /\ Section(o, {"owner"})
  BY LookIs DEF OtherDos, Homes
<1>4. Section(g, readDos) /\ Section(z, lastDos) /\ Last(z) = Look("verdict")
  BY TwoLooks DEF OtherDos
<1>5. Section(h, RefusalDos)
  BY RefusalsAre
<1>6. Section(k, exitDos)
  BY ExitIs DEF PerExit
<1>7. Section(r, {"attestsAfterwards"})
  BY OneIs, MembersAre DEF PerReplay, Refused, Aimed, Modes, Words, OtherDos
<1>8. Per = a \o b \o c \o d \o e \o f \o g \o h \o k \o o \o r \o z
  BY DEF Per
<1> HIDE DEF a, b, c, d, e, f, g, h, k, o, r, z
<1> DEFINE s == a \o b \o c \o d
           t == s \o e \o f \o g
           u == t \o h \o k \o o
           v == u \o r
           sDos == {"freshness"} \cup FormationDos \cup CreationDos
                     \cup DelegationDos
           tDos == sDos \cup PermissionDos \cup runDos \cup readDos
           uDos == tDos \cup RefusalDos \cup exitDos \cup {"owner"}
           vDos == uDos \cup {"attestsAfterwards"}
<1>9. Per = v \o z
  BY <1>8
<1>10. Section(s, sDos)
  BY <1>1, <1>3, SectionsJoin4
<1> HIDE DEF s
<1>11. Section(t, tDos)
  BY <1>1, <1>2, <1>4, <1>10, SectionsJoin4
<1> HIDE DEF t
<1>12. Section(t \o h \o k, tDos \cup RefusalDos \cup exitDos)
  BY <1>5, <1>6, <1>11, SectionsJoin3
<1>13. Section(u, uDos)
  BY <1>3, <1>12, SectionsJoin
<1>14. NoneAfter(t \o h \o k, Observing, Moving)
  <2>1. Observing \cap (tDos \cup RefusalDos \cup exitDos) = {}
    BY DEF Observing, Begins, Homes, FormationDos, CreationDos,
       DelegationDos, PermissionDos, OpeningDos, ReleaseDos, RefusalDos
  <2>2. QED
    BY <1>12, <2>1, Absent
<1>15. NoneAfter(u, Observing, Moving)
  <2>1. Moving \cap {"owner"} = {}
    BY DEF Moving
  <2>2. QED
    BY <1>3, <1>12, <1>14, <2>1, NoneMore
<1> HIDE DEF u
<1>16. NoneAfter(v, Observing, Moving) /\ Section(v, vDos)
  <2>1. Moving \cap {"attestsAfterwards"} = {}
    BY DEF Moving
  <2>2. QED
    BY <1>7, <1>13, <1>15, <2>1, NoneMore, SectionsJoin
<1> HIDE DEF v
<1>17. WellMade(v \o z) /\ Section(v \o z, vDos \cup lastDos)
  <2>1. Moving \cap lastDos = {}
    BY DEF Moving
  <2>2. "checkpoint" \notin vDos
    BY DEF FormationDos, CreationDos, DelegationDos, PermissionDos,
       OpeningDos, ReleaseDos, RefusalDos
  <2>3. QED
    BY <1>4, <1>16, <2>1, <2>2, Finished
<1>18. Begins \cap (vDos \cup lastDos) = {}
  BY DEF Begins, FormationDos, CreationDos, DelegationDos, PermissionDos,
     OpeningDos, ReleaseDos, RefusalDos
<1>19. QED
  BY <1>9, <1>17, <1>18 DEF Section

-----------------------------------------------------------------------------
(* phase5-composition and phase3-seam.                                     *)

LEMMA MembersDiffer == alpha # gamma /\ beta # gamma
<1>1. Cardinality({alpha, beta, gamma}) = 3
  BY DriversAssumption
<1>2. \A x, y : Cardinality({x} \cup {y}) # 3
  <2>1. \A x : IsFiniteSet({x}) /\ Cardinality({x}) = 1
    BY FS_Singleton
  <2>2. ASSUME NEW x, NEW y PROVE Cardinality({x} \cup {y}) # 3
    <3>1. IsFiniteSet({x}) /\ Cardinality({x}) = 1
      BY <2>1
    <3>2. \/ y \in {x} /\ {x} \cup {y} = {x}
          \/ Cardinality({x} \cup {y}) = Cardinality({x}) + 1
      BY <3>1, FS_AddElement
    <3>3. QED
      BY <3>1, <3>2
  <2>3. QED
    BY <2>2
<1>3. ASSUME alpha = gamma \/ beta = gamma PROVE FALSE
  <2>1. {alpha, beta, gamma} = {alpha} \cup {beta}
    BY <1>3
  <2>2. QED
    BY <1>1, <1>2, <2>1
<1>4. QED
  BY <1>3

LEMMA ArmingsAre ==
  ASSUME NEW failOne \in BOOLEAN, NEW s,
         s = Arming(alpha, TRUE) \o Arming(beta, TRUE) \o Arming(gamma, ~failOne)
  PROVE  /\ \E dos \in SUBSET ArmingDos : Section(s, dos)
         /\ failOne => SparesGamma(s)
<1> DEFINE a == Arming(alpha, TRUE)
           b == Arming(beta, TRUE)
           c == Arming(gamma, ~failOne)
           both == {"initializeMarket", "installCapability", "armCapability",
                    "setAdapter"}
           last == {"initializeMarket", "installCapability", "armCapability",
                    IF ~failOne THEN "setAdapter" ELSE "clearAdapter"}
<1>1. Section(a, both) /\ Section(b, both) /\ Section(c, last)
  BY ArmingIs, MembersAre
<1>2. SparesGamma(a) /\ SparesGamma(b)
  BY ArmingIs, MembersAre, MembersDiffer DEF SparesGamma
<1>3. s = a \o b \o c
  OBVIOUS
<1> HIDE DEF a, b, c
<1> HIDE DEF last, both
<1>4. Section(s, both \cup both \cup last)
  <2>1. Section(a \o b \o c, both \cup both \cup last)
    BY <1>1, SectionsJoin3
  <2>2. QED
    BY <1>3, <2>1
<1>5. both \cup both \cup last \subseteq ArmingDos
  BY DEF ArmingDos, both, last
<1>6. SparesGamma(a \o b) /\ Section(a \o b, both \cup both)
  BY <1>1, <1>2, SparingJoins, SectionsJoin
<1>7. ASSUME failOne PROVE SparesGamma(s)
  <2>1. "setAdapter" \notin last
    BY <1>7 DEF last
  <2>2. SparesGamma(a \o b \o c)
    BY <1>1, <1>6, <2>1, SparingJoins
  <2>3. QED
    BY <1>3, <2>2
<1>8. QED
  BY <1>4, <1>5, <1>7

(* The settlement's steps, and that a suspension comes before the cohort.  *)
LEMMA SettlementIs ==
  ASSUME NEW suspendOne \in BOOLEAN
  PROVE  /\ \E dos \in SUBSET ({"landed", "publishCertificate",
                                "suspendCapability"}
                                 \cup ReceiptDos \cup CohortDos) :
              Section(CompositionSettlement(suspendOne), dos)
         /\ suspendOne => Precedes(CompositionSettlement(suspendOne),
                                   {"suspendCapability"},
                                   {"scheduleSettlementCohort"})
<1> DEFINE a == <<Look("landed"), Step("publishCertificate", opener)>>
           b == CohortReceipts
           c == IF suspendOne THEN <<Step("suspendCapability", gamma)>>
                ELSE << >>
           d == CohortSteps
           cDos == IF suspendOne THEN {"suspendCapability"} ELSE {}
           firstDos == {"landed"} \cup {"publishCertificate"}
<1>1. Section(a, firstDos)
  <2>1. Look("landed") \in AllSteps
    BY LookIs DEF Homes
  <2>2. Step("publishCertificate", opener) \in AllSteps
    BY StepIs, MembersAre DEF Aimed, Step, Words, OtherDos
  <2>3. /\ Look("landed").do = "landed"
        /\ Step("publishCertificate", opener).do = "publishCertificate"
    BY DEF Look, Step
  <2>4. QED
    BY <2>1, <2>2, <2>3, TwoAre
<1>2. Section(c, cDos)
  <2>1. Section(<<Step("suspendCapability", gamma)>>, {"suspendCapability"})
    BY StepIs, MembersAre DEF Aimed, Step, Words, OtherDos
  <2>2. Section(<< >>, {})
    BY NoStep DEF Section
  <2>3. QED
    BY <2>1, <2>2
<1>3. CompositionSettlement(suspendOne) = a \o b \o c \o d
  BY DEF CompositionSettlement
<1> HIDE DEF a, b, c, d
<1>4. Section(b, ReceiptDos) /\ Section(d, CohortDos)
  BY ReceiptsAre, CohortIs DEF b, d
<1> DEFINE k == a \o b \o c
           kDos == firstDos \cup ReceiptDos \cup cDos
<1>5. Section(k, kDos)
  BY <1>1, <1>2, <1>4, SectionsJoin3
<1>6. CompositionSettlement(suspendOne) = k \o d
  BY <1>3
<1> HIDE DEF k
<1>7. Section(k \o d, kDos \cup CohortDos)
  BY <1>4, <1>5, SectionsJoin
<1>8. kDos \cup CohortDos \subseteq
        ({"landed", "publishCertificate", "suspendCapability"}
           \cup ReceiptDos \cup CohortDos)
  OBVIOUS
<1>9. ASSUME suspendOne
      PROVE  Precedes(k \o d, {"suspendCapability"},
                      {"scheduleSettlementCohort"})
  <2>1. {"scheduleSettlementCohort"} \cap kDos = {}
    BY DEF ReceiptDos
  <2>2. Precedes(k, {"suspendCapability"}, {"scheduleSettlementCohort"})
    BY <1>5, <2>1, Absent
  <2>3. "suspendCapability" \in kDos
    BY <1>9
  <2>4. QED
    BY <1>4, <1>5, <2>2, <2>3, PrecedesStill
<1>10. QED
  BY <1>6, <1>7, <1>8, <1>9

LEMMA CompositionIs ==
  ASSUME NEW label
  PROVE  /\ WellMade(Composition(label))
         /\ label = "fail-one" => SparesGamma(Composition(label))
         /\ label = "suspend-one" =>
              /\ Precedes(Composition(label), {"suspendCapability"},
                          {"scheduleSettlementCohort"})
              /\ NoneAfter(Composition(label), {"suspendCapability"},
                           {"installCapability", "armCapability"})
         /\ {"safe", "checkpoint"} \cap Dos(Composition(label)) = {}
<1> DEFINE a == CompositionFormation
           b == CompositionArming(label = "fail-one")
           c == CompositionIncident
           d == CompositionExit
           e == CompositionSettlement(label = "suspend-one")
           f == <<Look("reconcile"), Look("scrubHeld"), Look("verified"),
                  Look("verdict")>>
           incDos == (CreationDos \cup DelegationDos \cup PermissionDos
                        \cup OpeningDos) \cup {"submitSealedAttestation"}
           exitDos == {"certifyIncident"} \cup ReleaseDos
           settleDos == {"landed", "publishCertificate", "suspendCapability"}
                          \cup ReceiptDos \cup CohortDos
           lastDos == {"reconcile", "scrubHeld", "verified", "verdict"}
<1>1. Section(a, FormationDos)
  BY FormationIs DEF CompositionFormation
<1>2. PICK armDos \in SUBSET ArmingDos : Section(b, armDos)
  BY ArmingsAre DEF CompositionArming
<1>3. label = "fail-one" => SparesGamma(b)
  BY ArmingsAre DEF CompositionArming
<1>4. Section(c, incDos)
  <2> DEFINE x == CreationSteps
             y == DelegationSteps
             z == PermissionSteps("opener")
             u == OpeningSteps
             v == ApprovalSteps
  <2>1. /\ Section(x, CreationDos) /\ Section(y, DelegationDos)
        /\ Section(z, PermissionDos) /\ Section(u, OpeningDos)
        /\ Section(v, {"submitSealedAttestation"})
    BY CreationIs, DelegationIs, PermissionsAre, OpeningIs, ApprovalsAre,
       MembersAre
  <2>2. c = x \o y \o z \o u \o v
    BY DEF CompositionIncident
  <2> HIDE DEF x, y, z, u, v
  <2>3. Section(x \o y \o z \o u,
                CreationDos \cup DelegationDos \cup PermissionDos
                  \cup OpeningDos)
    BY <2>1, SectionsJoin4
  <2>4. QED
    BY <2>1, <2>2, <2>3, SectionsJoin
<1>5. Section(d, exitDos)
  BY ExitIs DEF CompositionExit
<1>6. PICK eDos \in SUBSET settleDos : Section(e, eDos)
  BY SettlementIs
<1>7. label = "suspend-one" =>
        Precedes(e, {"suspendCapability"}, {"scheduleSettlementCohort"})
  BY SettlementIs
<1>8. Section(f, lastDos) /\ Last(f) = Look("verdict")
  <2> DEFINE x == Look("reconcile")
             y == Look("scrubHeld")
             z == Look("verified")
             u == Look("verdict")
  <2>1. x \in AllSteps /\ y \in AllSteps /\ z \in AllSteps /\ u \in AllSteps
    BY LookIs DEF OtherDos
  <2>2. /\ x.do = "reconcile" /\ y.do = "scrubHeld" /\ z.do = "verified"
        /\ u.do = "verdict"
    BY DEF Look
  <2>3. f = <<x, y, z, u>>
    OBVIOUS
  <2>4. u = Look("verdict")
    OBVIOUS
  <2> HIDE DEF x, y, z, u, f
  <2>5. /\ f \in Seq(AllSteps) /\ DOMAIN f = {1, 2, 3, 4} /\ Len(f) = 4
        /\ f[1] = x /\ f[2] = y /\ f[3] = z /\ f[4] = u
    BY <2>1, <2>3
  <2>6. QED
    BY <2>2, <2>4, <2>5 DEF Section, Dos, Last
<1>9. Composition(label) = a \o b \o c \o d \o e \o f
  BY DEF Composition
<1> HIDE DEF a, b, c, d, e, f
<1> DEFINE k == a \o b \o c \o d
           l == k \o e
           kDos == FormationDos \cup armDos \cup incDos \cup exitDos
<1>10. Section(k, kDos)
  BY <1>1, <1>2, <1>4, <1>5, SectionsJoin4
<1>11. Composition(label) = l \o f
  BY <1>9
<1>12. label = "fail-one" => SparesGamma(k)
  <2>1. "setAdapter" \notin FormationDos \cup incDos \cup exitDos
    BY DEF FormationDos, CreationDos, DelegationDos, PermissionDos,
       OpeningDos, ReleaseDos
  <2>2. SparesGamma(a)
    BY <1>1, <2>1 DEF SparesGamma, Section, Dos
  <2>3. ASSUME label = "fail-one" PROVE SparesGamma(k)
    <3>1. SparesGamma(a \o b) /\ Section(a \o b, FormationDos \cup armDos)
      BY <1>1, <1>2, <1>3, <2>2, <2>3, SparingJoins, SectionsJoin
    <3>2. /\ SparesGamma(a \o b \o c)
          /\ Section(a \o b \o c, FormationDos \cup armDos \cup incDos)
      BY <1>4, <2>1, <3>1, SparingJoins, SectionsJoin
    <3>3. QED
      BY <1>5, <2>1, <3>2, SparingJoins
  <2>4. QED
    BY <2>3
<1> HIDE DEF k
<1>13. Section(l, kDos \cup eDos)
  BY <1>6, <1>10, SectionsJoin
<1>14. NoneAfter(l, Observing, Moving)
  <2>1. Observing \cap kDos = {}
    BY DEF Observing, Begins, Homes, FormationDos, CreationDos,
       DelegationDos, PermissionDos, OpeningDos, ReleaseDos, ArmingDos
  <2>2. Moving \cap eDos = {}
    BY DEF Moving, ReceiptDos, CohortDos
  <2>3. NoneAfter(k, Observing, Moving)
    BY <1>10, <2>1, Absent
  <2>4. QED
    BY <1>6, <1>10, <2>2, <2>3, NoneMore
<1>15. WellMade(l \o f)
  <2>1. Moving \cap lastDos = {}
    BY DEF Moving
  <2>2. "checkpoint" \notin kDos \cup eDos
    BY DEF FormationDos, CreationDos, DelegationDos, PermissionDos,
       OpeningDos, ReleaseDos, ArmingDos, ReceiptDos, CohortDos
  <2>3. QED
    BY <1>8, <1>13, <1>14, <2>1, <2>2, Finished
<1>16. label = "fail-one" => SparesGamma(l \o f)
  <2>1. "setAdapter" \notin settleDos
    BY DEF ReceiptDos, CohortDos
  <2>2. label = "fail-one" => SparesGamma(l)
    BY <1>6, <1>10, <1>12, <2>1, SparingJoins
  <2>3. "setAdapter" \notin lastDos
    OBVIOUS
  <2>4. QED
    BY <1>8, <1>13, <2>2, <2>3, SparingJoins
<1>17. ASSUME label = "suspend-one"
       PROVE  /\ Precedes(l \o f, {"suspendCapability"},
                          {"scheduleSettlementCohort"})
              /\ NoneAfter(l \o f, {"suspendCapability"},
                           {"installCapability", "armCapability"})
  <2>1. /\ {"scheduleSettlementCohort"} \cap kDos = {}
        /\ {"suspendCapability"} \cap kDos = {}
    BY DEF FormationDos, CreationDos, DelegationDos, PermissionDos,
       OpeningDos, ReleaseDos, ArmingDos
  <2>2. /\ Precedes(k, {"suspendCapability"}, {"scheduleSettlementCohort"})
        /\ NoneAfter(k, {"suspendCapability"},
                     {"installCapability", "armCapability"})
    BY <1>10, <2>1, Absent
  <2>3. /\ {"installCapability", "armCapability"} \cap eDos = {}
        /\ {"installCapability", "armCapability"} \cap lastDos = {}
        /\ {"scheduleSettlementCohort"} \cap lastDos = {}
    BY DEF ReceiptDos, CohortDos
  <2>4. /\ Precedes(l, {"suspendCapability"}, {"scheduleSettlementCohort"})
        /\ NoneAfter(l, {"suspendCapability"},
                     {"installCapability", "armCapability"})
    BY <1>6, <1>7, <1>10, <1>17, <2>2, <2>3, PrecedesStill, NoneMore
  <2>5. Precedes(f, {"suspendCapability"}, {"scheduleSettlementCohort"})
    BY <1>8, <2>3, Absent
  <2>6. QED
    BY <1>8, <1>13, <2>3, <2>4, <2>5, PrecedesStill, NoneMore
<1>18. {"safe", "checkpoint"} \cap Dos(l \o f) = {}
  <2>1. Section(l \o f, (kDos \cup eDos) \cup lastDos)
    BY <1>8, <1>13, SectionsJoin
  <2>2. {"safe", "checkpoint"} \cap ((kDos \cup eDos) \cup lastDos) = {}
    BY DEF FormationDos, CreationDos, DelegationDos, PermissionDos,
       OpeningDos, ReleaseDos, ArmingDos, ReceiptDos, CohortDos
  <2>3. QED
    BY <2>1, <2>2 DEF Section
<1>19. QED
  BY <1>11, <1>15, <1>16, <1>17, <1>18

(* phase3-seam reads and classifies in a loop, and watches nothing.        *)
LEMMA SeamIs ==
  ASSUME NEW failOne \in BOOLEAN
  PROVE  WellMade(Seam(failOne)) /\ Dos(Seam(failOne)) \cap Observing = {}
<1> DEFINE a == SeamFixture(failOne)
           b == <<Look("certificate")>>
           c == SeamReceipts
           d == SeamSchedule
           e == <<Look("effects"), Look("checkpoint"), Look("verdict")>>
           cDos == ReceiptDos \cup {"initializeOperation"}
           dDos == {"delegateOperation"} \cup {"scheduleSettlementCohort"}
           eDos == {"effects", "checkpoint", "verdict"}
<1>1. PICK armDos \in SUBSET ArmingDos : Section(a, armDos)
  BY ArmingsAre, TolerantIs DEF SeamFixture
<1>2. Section(b, {"certificate"})
  BY LookIs DEF OtherDos
<1>3. Section(c, cDos)
  <2>1. Section(<<CohortSteps[1]>>, {"initializeOperation"})
    BY CohortIs, OneStep DEF Section
  <2>2. Section(CohortReceipts \o <<CohortSteps[1]>>, cDos)
    BY <2>1, ReceiptsAre, SectionsJoin
  <2>3. QED
    BY <2>2, TolerantIs DEF SeamReceipts
<1>4. Section(d, dDos)
  <2>1. /\ Section(<<CohortSteps[2]>>, {"delegateOperation"})
        /\ Section(<<CohortSteps[3]>>, {"scheduleSettlementCohort"})
    BY CohortIs, OneStep DEF Section
  <2>2. Section(Tolerant(<<CohortSteps[2]>>), {"delegateOperation"})
    BY <2>1, TolerantIs
  <2>3. QED
    BY <2>1, <2>2, SectionsJoin DEF SeamSchedule
<1>5. Section(e, eDos) /\ Last(e) = Look("verdict")
  BY ThreeLooks DEF OtherDos
<1>14. Precedes(e, {"effects"}, {"checkpoint"})
  <2>1. /\ DOMAIN e = {1, 2, 3} /\ e[1].do = "effects"
        /\ e[2].do = "checkpoint" /\ e[3].do = "verdict"
    BY DEF Look
  <2> HIDE DEF e
  <2>2. QED
    BY <2>1 DEF Precedes
<1>6. Seam(failOne) = a \o b \o c \o d \o e
  BY DEF Seam
<1> HIDE DEF a, b, c, d, e
<1> DEFINE k == a \o b \o c \o d
           kDos == armDos \cup {"certificate"} \cup cDos \cup dDos
<1>7. Section(k, kDos)
  BY <1>1, <1>2, <1>3, <1>4, SectionsJoin4
<1>8. Seam(failOne) = k \o e
  BY <1>6
<1> HIDE DEF k
<1>9. Section(k \o e, kDos \cup eDos)
  BY <1>5, <1>7, SectionsJoin
<1>10. Observing \cap (kDos \cup eDos) = {}
  BY DEF Observing, Begins, Homes, ArmingDos, ReceiptDos
<1>11. NoneAfter(k \o e, Observing, Moving)
  BY <1>9, <1>10, Absent
<1>12. Len(k \o e) \in Nat \ {0} /\ Last(k \o e) = Look("verdict")
  BY <1>5, <1>7, EndsWith
<1>15. Precedes(k \o e, {"effects"}, {"checkpoint"})
  <2>1. {"checkpoint"} \cap kDos = {}
    BY DEF ArmingDos, ReceiptDos
  <2>2. Precedes(k, {"effects"}, {"checkpoint"})
    BY <1>7, <2>1, Absent
  <2>3. QED
    BY <1>5, <1>7, <1>14, <2>2, PrecedesStill
<1>13. QED
  BY <1>8, <1>9, <1>10, <1>11, <1>12, <1>15 DEF WellMade, Section

(* phase6-expiry asks for its task before it watches, and looks whether    *)
(* the scrub held after it saw the incident land.                          *)
LEMMA WatchesAre ==
  /\ Section(ExpiryWatch, {"beginExpiry"} \cup {"watch"})
  /\ \E dos \in SUBSET {"beginExpiry", "watch", "iterated",
                        "cancelExpiryCrank", "beginCancel"} :
       Section(CancelWatch, dos)
<1>1. Section(ExpiryWatch, {"beginExpiry"} \cup {"watch"})
  BY TwoLooks DEF ExpiryWatch, Begins, OtherDos
<1> DEFINE a == Look("beginExpiry")
           b == Look("watch")
           c == Look("iterated")
           d == Step("cancelExpiryCrank", opener)
           e == Look("beginCancel")
<1>2. a \in AllSteps /\ b \in AllSteps /\ c \in AllSteps /\ e \in AllSteps
  BY LookIs DEF Begins, OtherDos
<1>3. d \in AllSteps
  BY StepIs, MembersAre DEF Aimed, Step, Words, OtherDos
<1>4. /\ a.do = "beginExpiry" /\ b.do = "watch" /\ c.do = "iterated"
      /\ d.do = "cancelExpiryCrank" /\ e.do = "beginCancel"
  BY DEF Look, Step
<1>5. CancelWatch = <<a, b, c, d, e, b>>
  BY DEF CancelWatch
<1> HIDE DEF a, b, c, d, e
<1>6. /\ CancelWatch \in Seq(AllSteps)
      /\ DOMAIN CancelWatch = {1, 2, 3, 4, 5, 6}
      /\ CancelWatch[1] = a /\ CancelWatch[2] = b /\ CancelWatch[3] = c
      /\ CancelWatch[4] = d /\ CancelWatch[5] = e /\ CancelWatch[6] = b
  BY <1>2, <1>3, <1>5
<1>7. Section(CancelWatch, {"beginExpiry", "watch", "iterated",
                            "cancelExpiryCrank", "beginCancel"})
  BY <1>4, <1>6 DEF Section, Dos
<1>8. QED
  BY <1>1, <1>7

LEMMA ExpiryIs ==
  ASSUME NEW cancel \in BOOLEAN
  PROVE  /\ WellMade(Expiry(cancel))
         /\ Precedes(Expiry(cancel), {"landed"}, {"scrubHeld"})
         /\ "owner" \notin Dos(Expiry(cancel))
<1> DEFINE a == ExpiryFormation
           b == ExpiryIncident
           c == ExpiryRequest
           d == IF cancel THEN CancelWatch ELSE ExpiryWatch
           e == ExpiryExit
           f == <<Look("verdict")>>
           bDos == CreationDos \cup DelegationDos \cup PermissionDos
                     \cup OpeningDos
           watchDos == {"beginExpiry", "watch", "iterated",
                        "cancelExpiryCrank", "beginCancel"}
           homeDos == {"landed"} \cup {"scrubHeld"}
           eDos == {"safe"} \cup ReleaseDos \cup homeDos
<1>1. Section(a, FormationDos)
  BY FormationIs DEF ExpiryFormation
<1>2. Section(b, bDos)
  BY CreationIs, DelegationIs, PermissionsAre, OpeningIs, MembersAre,
     SectionsJoin4 DEF ExpiryIncident
<1>3. Section(c, {"requestExpiryCrank"})
  BY StepIs, MembersAre DEF ExpiryRequest, Aimed, Step, Words, OtherDos
<1>4. PICK dDos \in SUBSET watchDos : Section(d, dDos)
  BY WatchesAre
<1>5. Section(e, eDos) /\ Precedes(e, {"landed"}, {"scrubHeld"})
  <2> DEFINE x == <<Look("safe")>>
             y == ReleaseSteps
             z == <<Look("landed"), Look("scrubHeld")>>
  <2>1. Section(x, {"safe"}) /\ Section(y, ReleaseDos)
    BY LookIs, ReleaseIs DEF OtherDos
  <2>2. Section(z, homeDos)
    BY TwoLooks DEF OtherDos, Homes
  <2>3. Precedes(z, {"landed"}, {"scrubHeld"})
    <3>1. /\ DOMAIN z = {1, 2} /\ z[1].do = "landed"
          /\ z[2].do = "scrubHeld"
      BY DEF Look
    <3> HIDE DEF z
    <3>2. QED
      BY <3>1 DEF Precedes
  <2>4. e = x \o y \o z
    BY DEF ExpiryExit
  <2> HIDE DEF x, y, z
  <2>5. Section(x \o y, {"safe"} \cup ReleaseDos)
    BY <2>1, SectionsJoin
  <2>6. Section(x \o y \o z, {"safe"} \cup ReleaseDos \cup homeDos)
    BY <2>2, <2>5, SectionsJoin
  <2>7. Precedes(x \o y, {"landed"}, {"scrubHeld"})
    <3>1. {"scrubHeld"} \cap ({"safe"} \cup ReleaseDos) = {}
      BY DEF ReleaseDos
    <3>2. QED
      BY <2>5, <3>1, Absent
  <2>8. Precedes(x \o y \o z, {"landed"}, {"scrubHeld"})
    BY <2>2, <2>3, <2>5, <2>7, PrecedesStill
  <2>9. QED
    BY <2>4, <2>6, <2>8
<1>6. Section(f, {"verdict"}) /\ Last(f) = Look("verdict")
  BY LookIs DEF OtherDos, Last
<1>7. Expiry(cancel) = a \o b \o c \o d \o e \o f
  BY DEF Expiry
<1> HIDE DEF a, b, c, d, e, f
<1> DEFINE k == a \o b \o c
           l == k \o d
           m == l \o e
           kDos == FormationDos \cup bDos \cup {"requestExpiryCrank"}
<1>8. Section(k, kDos)
  BY <1>1, <1>2, <1>3, SectionsJoin3
<1>9. Expiry(cancel) = m \o f
  BY <1>7
<1> HIDE DEF k
<1>10. Section(l, kDos \cup dDos)
  BY <1>4, <1>8, SectionsJoin
<1>11. NoneAfter(l, Observing, Moving)
  <2>1. Observing \cap kDos = {} /\ Moving \cap dDos = {}
    BY DEF Observing, Begins, Homes, Moving, FormationDos, CreationDos,
       DelegationDos, PermissionDos, OpeningDos
  <2>2. NoneAfter(k, Observing, Moving)
    BY <1>8, <2>1, Absent
  <2>3. QED
    BY <1>4, <1>8, <2>1, <2>2, NoneMore
<1>12. Precedes(l, {"landed"}, {"scrubHeld"})
  <2>1. {"scrubHeld"} \cap (kDos \cup dDos) = {}
    BY DEF FormationDos, CreationDos, DelegationDos, PermissionDos,
       OpeningDos
  <2>2. QED
    BY <1>10, <2>1, Absent
<1> HIDE DEF l
<1>13. Section(m, (kDos \cup dDos) \cup eDos)
  BY <1>5, <1>10, SectionsJoin
<1>14. NoneAfter(m, Observing, Moving)
  <2>1. Moving \cap eDos = {}
    BY DEF Moving, ReleaseDos
  <2>2. QED
    BY <1>5, <1>10, <1>11, <2>1, NoneMore
<1>15. Precedes(m, {"landed"}, {"scrubHeld"})
  BY <1>5, <1>10, <1>12, PrecedesStill
<1> HIDE DEF m
<1>16. /\ WellMade(m \o f)
       /\ Section(m \o f, ((kDos \cup dDos) \cup eDos) \cup {"verdict"})
  <2>1. Moving \cap {"verdict"} = {}
    BY DEF Moving
  <2>2. "checkpoint" \notin (kDos \cup dDos) \cup eDos
    BY DEF FormationDos, CreationDos, DelegationDos, PermissionDos,
       OpeningDos, ReleaseDos
  <2>3. QED
    BY <1>6, <1>13, <1>14, <2>1, <2>2, Finished
<1>17. Precedes(m \o f, {"landed"}, {"scrubHeld"})
  <2>1. Precedes(f, {"landed"}, {"scrubHeld"})
    BY <1>6, Absent
  <2>2. QED
    BY <1>6, <1>13, <1>15, <2>1, PrecedesStill
<1>18. "owner" \notin ((kDos \cup dDos) \cup eDos) \cup {"verdict"}
  BY DEF FormationDos, CreationDos, DelegationDos, PermissionDos,
     OpeningDos, ReleaseDos
<1>19. QED
  BY <1>9, <1>16, <1>17, <1>18 DEF Section

-----------------------------------------------------------------------------
(* All scripts.                                                            *)
LEMMA ScriptsAre ==
  ASSUME NEW s \in Scripts
  PROVE  /\ WellMade(Program[s])
         /\ s \in {"local", "per", "success", "fail_one", "suspend_one",
                   "expire", "cancel", "seam", "seam_fail"}
         /\ s \in Rerunnable => Dos(Program[s]) \cap Begins = {}
         /\ s = "local" => Precedes(Program[s], {"matrix"}, {"verdict"})
         /\ s \in {"local", "suspend_one"} => "safe" \notin Dos(Program[s])
         /\ s = "fail_one" => SparesGamma(Program[s])
         /\ s = "suspend_one" =>
              /\ "checkpoint" \notin Dos(Program[s])
              /\ Precedes(Program[s], {"suspendCapability"},
                          {"scheduleSettlementCohort"})
              /\ NoneAfter(Program[s], {"suspendCapability"},
                           {"installCapability", "armCapability"})
         /\ s = "expire" =>
              /\ Precedes(Program[s], {"landed"}, {"scrubHeld"})
              /\ "owner" \notin Dos(Program[s])
<1>1. s \in {"local", "per", "success", "fail_one", "suspend_one",
             "expire", "cancel", "seam", "seam_fail"}
  <2>1. DOMAIN Program = {"local", "per", "success", "fail_one",
             "suspend_one", "expire", "cancel", "seam", "seam_fail"}
    BY DEF Program
  <2>2. QED
    BY <2>1, ScriptsAssumption
<1>2. /\ Program["local"] = Local /\ Program["per"] = Per
      /\ Program["success"] = Composition("success")
      /\ Program["fail_one"] = Composition("fail-one")
      /\ Program["suspend_one"] = Composition("suspend-one")
      /\ Program["expire"] = Expiry(FALSE) /\ Program["cancel"] = Expiry(TRUE)
      /\ Program["seam"] = Seam(FALSE) /\ Program["seam_fail"] = Seam(TRUE)
  BY DEF Program
<1>3. CASE s = "local"
  BY <1>2, <1>3, LocalIs
<1>4. CASE s = "per"
  BY <1>2, <1>4, PerIs
<1>5. CASE s = "success"
  BY <1>2, <1>5, CompositionIs DEF Rerunnable
<1>6. CASE s = "fail_one"
  BY <1>2, <1>6, CompositionIs DEF Rerunnable
<1>7. CASE s = "suspend_one"
  BY <1>2, <1>7, CompositionIs DEF Rerunnable
<1>8. CASE s = "expire"
  BY <1>2, <1>8, ExpiryIs DEF Rerunnable
<1>9. CASE s = "cancel"
  BY <1>2, <1>9, ExpiryIs DEF Rerunnable
<1>10. CASE s \in {"seam", "seam_fail"}
  <2>1. PICK b \in BOOLEAN : Program[s] = Seam(b)
    BY <1>2, <1>10
  <2>2. WellMade(Program[s]) /\ Dos(Program[s]) \cap Observing = {}
    BY <2>1, SeamIs
  <2>3. QED
    BY <1>10, <2>2 DEF Observing
<1>11. QED
  BY <1>1, <1>3, <1>4, <1>5, <1>6, <1>7, <1>8, <1>9, <1>10

-----------------------------------------------------------------------------
(* Where a script is.                                                      *)
AtStep == script \in Scripts /\ pc \in 1..Len(Program[script])

Passed(kind) == \E i \in 1..(pc - 1) : Program[script][i].do \in kind

LEMMA CurrentIs ==
  ASSUME AtStep
  PROVE  /\ Program[script] \in Seq(AllSteps)
         /\ Len(Program[script]) \in Nat \ {0} /\ pc \in Nat \ {0}
         /\ DOMAIN Program[script] = 1..Len(Program[script])
         /\ pc \in DOMAIN Program[script]
         /\ Current \in AllSteps /\ Current = Program[script][pc]
         /\ Aimed(Current)
         /\ pc = Len(Program[script]) =>
              Current.do = "verdict" /\ Current.mode = "look"
<1>1. WellMade(Program[script])
  BY ScriptsAre DEF AtStep
<1>2. /\ Program[script] \in Seq(AllSteps)
      /\ Len(Program[script]) \in Nat \ {0}
      /\ Program[script][Len(Program[script])] = Look("verdict")
  BY <1>1 DEF WellMade, Last
<1>3. Look("verdict").do = "verdict" /\ Look("verdict").mode = "look"
  BY DEF Look
<1>4. DOMAIN Program[script] = 1..Len(Program[script])
  BY <1>2
<1>5. pc \in DOMAIN Program[script] /\ pc \in Nat \ {0}
  BY <1>2, <1>4 DEF AtStep
<1>6. Current \in AllSteps /\ Current = Program[script][pc]
  BY <1>2, <1>5 DEF Current
<1>7. QED
  BY <1>2, <1>3, <1>4, <1>5, <1>6 DEF AllSteps

(* A script goes on by one step, or stays, except where it observes again, *)
(* skips to its verdict, or is run a second time.                          *)
Goes ==
  /\ Running /\ pc' = pc + 1
  /\ ~(Current.do = "verdict" /\ Current.mode = "look")
  /\ UNCHANGED <<script, outcome, enforced>>

LEMMA RunSteps ==
  ASSUME [DriverNext]_driverVars
  PROVE  /\ UNCHANGED <<script, enforced>>
         /\ \/ UNCHANGED <<pc, outcome>>
            \/ UNCHANGED pc /\ Running /\ outcome' = "thrown"
            \/ UNCHANGED pc /\ RuntimeIsStale
            \/ UNCHANGED pc /\ GiveVerdict
            \/ Goes
            \/ Rerun \/ ObserveAgain \/ LookWhetherSafe
<1> USE DEF Advance, Throw, Note, Looking, Sending, Trying
<1>1. CASE UNCHANGED driverVars
  BY <1>1 DEF driverVars, runVars
<1>2. CASE Send \/ SendIdempotent \/ SendRefused \/ ConfirmationLost
  BY <1>2 DEF Send, SendIdempotent, SendRefused, ConfirmationLost, Goes
<1>3. CASE AttemptSucceeds \/ AttemptRefused \/ AttemptLost
  BY <1>3 DEF AttemptSucceeds, AttemptRefused, AttemptLost, Goes
<1>4. CASE \/ RuntimeIsFresh \/ LookAtMatrix \/ LookAtControl \/ CoreLands
           \/ OwnerWindowCloses \/ LandingWindowCloses
  BY <1>4 DEF RuntimeIsFresh, LookAtMatrix, LookAtControl, CoreLands,
     OwnerWindowCloses, LandingWindowCloses, Goes
<1>5. CASE \/ LookForCanaries \/ ScanSurfaces \/ LookAtScrub
           \/ LookForCertificate \/ Reconcile \/ ReadEffects \/ LookVerified
  BY <1>5 DEF LookForCanaries, ScanSurfaces, LookAtScrub,
     LookForCertificate, Reconcile, ReadEffects, LookVerified, Goes
<1>6. CASE \/ BeginWatching \/ Watching \/ WatchEnds \/ LookForIterations
           \/ LookWhetherSafe
  BY <1>6 DEF BeginWatching, Watching, WatchEnds, LookForIterations,
     LookWhetherSafe, Goes
<1>7. CASE ObserveAgain \/ ObservationEnds \/ Rerun \/ GiveVerdict
  BY <1>7 DEF ObserveAgain, ObservationEnds, Rerun, GiveVerdict, Goes
<1>8. CASE \/ LookAtMatrixInOutage \/ ScanInOutage \/ RuntimeIsStale
           \/ StrangerCalls
  BY <1>8 DEF LookAtMatrixInOutage, ScanInOutage, RuntimeIsStale,
     StrangerCalls, OffScript, Goes
<1>9. CASE World
  BY <1>9 DEF World, Lands, CohortLands, CohortStripped, Schedules,
     OthersRun, TimePasses, OldCertificate, OffScript
<1>10. QED
  BY <1>1, <1>2, <1>3, <1>4, <1>5, <1>6, <1>7, <1>8, <1>9
  DEF DriverNext, Steps, Faults

LEMMA PcSteps ==
  ASSUME AtStep, [DriverNext]_driverVars
  PROVE  AtStep'
<1>1. UNCHANGED script
  BY RunSteps
<1>2. CASE UNCHANGED pc
  BY <1>1, <1>2 DEF AtStep
<1>3. CASE Goes
  BY <1>1, <1>3, CurrentIs DEF AtStep, Goes
<1>4. CASE Rerun
  BY <1>1, <1>4, CurrentIs DEF AtStep, Rerun
<1>5. CASE LookWhetherSafe
  BY <1>1, <1>5, CurrentIs DEF AtStep, LookWhetherSafe, Looking
<1>6. CASE ObserveAgain
  <2>1. Precedes(Program[script], {"effects"}, {"checkpoint"})
    BY ScriptsAre DEF AtStep, WellMade
  <2>2. Current.do = "checkpoint" /\ pc' = pc - 1
    BY <1>6 DEF ObserveAgain, Looking
  <2>3. \E i \in DOMAIN Program[script] : i < pc
    BY <2>1, <2>2, CurrentIs DEF Precedes
  <2>4. QED
    BY <1>1, <2>2, <2>3, CurrentIs DEF AtStep
<1>7. QED
  BY <1>2, <1>3, <1>4, <1>5, <1>6, RunSteps

(* What has been passed stays so while the script goes on, and something   *)
(* is passed by being done, or skipped on the way to the verdict.          *)
LEMMA PassedStays ==
  ASSUME AtStep, [DriverNext]_driverVars, ~Rerun, ~ObserveAgain, NEW kind,
         Passed(kind)
  PROVE  Passed(kind)'
<1>1. UNCHANGED script
  BY RunSteps
<1>2. pc' \in Nat /\ pc' >= pc
  BY RunSteps, CurrentIs DEF Goes, LookWhetherSafe
<1>3. PICK i \in 1..(pc - 1) : Program[script][i].do \in kind
  BY DEF Passed
<1>4. i \in 1..(pc' - 1) /\ Program[script'][i].do \in kind
  BY <1>1, <1>2, <1>3, CurrentIs
<1>5. QED
  BY <1>4 DEF Passed

LEMMA PassedNow ==
  ASSUME AtStep, [DriverNext]_driverVars, NEW kind, Passed(kind)'
  PROVE  \/ Passed(kind)
         \/ Goes /\ Current.do \in kind
         \/ LookWhetherSafe
<1>1. UNCHANGED script
  BY RunSteps
<1>2. PICK i \in 1..(pc' - 1) : Program[script][i].do \in kind
  BY <1>1 DEF Passed
<1>3. CASE pc' \in Nat /\ pc' <= pc
  <2>1. pc \in Nat
    BY CurrentIs
  <2>2. i \in 1..(pc - 1)
    BY <1>2, <1>3, <2>1
  <2>3. QED
    BY <1>2, <2>2 DEF Passed
<1>4. CASE Goes
  BY <1>2, <1>4, CurrentIs DEF Passed, Goes
<1>5. \/ pc' \in Nat /\ pc' <= pc
     \/ Goes
     \/ LookWhetherSafe
  BY RunSteps, CurrentIs DEF Rerun, ObserveAgain
<1>6. QED
  BY <1>3, <1>4, <1>5

LEMMA PassedBy ==
  ASSUME AtStep, NEW kind, Goes, Current.do \in kind
  PROVE  Passed(kind)'
<1>1. pc \in 1..(pc' - 1) /\ Program[script'][pc].do \in kind
  BY CurrentIs DEF Goes
<1>2. QED
  BY <1>1 DEF Passed

(* Once it watched, or saw its incident come home, a script delegates and  *)
(* requests nothing, and observes no second time.                          *)
LEMMA PassedObserving ==
  ASSUME AtStep, Passed(Begins) \/ Passed(Homes)
  PROVE  /\ Current.do \notin Moving
         /\ ~ObserveAgain
<1>1. NoneAfter(Program[script], Observing, Moving)
  BY ScriptsAre DEF AtStep, WellMade
<1>2. PICK i \in 1..(pc - 1) : Program[script][i].do \in Observing
  BY DEF Passed, Observing
<1>3. i \in DOMAIN Program[script] /\ i <= pc
  BY <1>2, CurrentIs
<1>4. Current.do \notin Moving
  BY <1>1, <1>2, <1>3, CurrentIs DEF NoneAfter
<1>5. QED
  BY <1>4 DEF ObserveAgain, Looking, Moving

-----------------------------------------------------------------------------
(* What a step leaves of the chain.                                        *)
Sends == Running /\ (Call(Current) \/ Attempt(Current))

LEMMA ChainSteps ==
  ASSUME [DriverNext]_driverVars
  PROVE  \/ UNCHANGED <<chainVars, watching>>
         \/ Sends \/ BeginWatching \/ Watching \/ World \/ StrangerCalls
<1> USE DEF Advance, Throw, Note, Looking, Sending, Trying, Untouched
<1>1. CASE UNCHANGED driverVars
  BY <1>1 DEF driverVars
<1>2. CASE Send \/ SendIdempotent \/ SendRefused \/ ConfirmationLost
  BY <1>2 DEF Send, SendIdempotent, SendRefused, ConfirmationLost, Sends
<1>3. CASE AttemptSucceeds \/ AttemptRefused \/ AttemptLost
  BY <1>3 DEF AttemptSucceeds, AttemptRefused, AttemptLost, Sends
<1>4. CASE \/ RuntimeIsFresh \/ LookAtMatrix \/ LookAtControl \/ CoreLands
           \/ OwnerWindowCloses \/ LandingWindowCloses
  BY <1>4 DEF RuntimeIsFresh, LookAtMatrix, LookAtControl, CoreLands,
     OwnerWindowCloses, LandingWindowCloses
<1>5. CASE \/ LookForCanaries \/ ScanSurfaces \/ LookAtScrub
           \/ LookForCertificate \/ Reconcile \/ ReadEffects \/ LookVerified
  BY <1>5 DEF LookForCanaries, ScanSurfaces, LookAtScrub,
     LookForCertificate, Reconcile, ReadEffects, LookVerified
<1>6. CASE \/ WatchEnds \/ LookForIterations \/ LookWhetherSafe
  BY <1>6 DEF WatchEnds, LookForIterations, LookWhetherSafe
<1>7. CASE ObserveAgain \/ ObservationEnds \/ Rerun \/ GiveVerdict
  BY <1>7 DEF ObserveAgain, ObservationEnds, Rerun, GiveVerdict
<1>8. CASE LookAtMatrixInOutage \/ ScanInOutage \/ RuntimeIsStale
  BY <1>8 DEF LookAtMatrixInOutage, ScanInOutage, RuntimeIsStale
<1>9. QED
  BY <1>1, <1>2, <1>3, <1>4, <1>5, <1>6, <1>7, <1>8
  DEF DriverNext, Steps, Faults

(* The calls of a script are calls of an incident's family: they go to the *)
(* rollup, for a member, with the whole list of ballots.                   *)
LEMMA CallsAreSteps ==
  ASSUME NEW s, Aimed(s), Call(s) \/ Attempt(s)
  PROVE  /\ [Next]_vars
         /\ coreAt = "base" /\ coreAt' # "base" => s.do = "delegateIncident"
<1>1. "er" \in Routes /\ Members \in ExitFamilies
      /\ 1 \in 1..MaxNonce /\ 2 \in 1..MaxNonce
  BY DriversAssumption
<1>2. "Approve" \in Decisions /\ "Reject" \in Decisions
  BY DEF Decisions
<1>3. ASSUME IncidentCall(s)
      PROVE  /\ [Next]_vars
             /\ coreAt = "base" /\ coreAt' # "base" =>
                  s.do = "delegateIncident"
  <2>1. CASE \/ s.do = "initializeClaim" /\ InitializeClaim
             \/ s.do = "initializeAttestation" /\ InitializeAttestation(s.of)
             \/ s.do = "delegateIncident" /\ DelegateIncident
             \/ s.do = "delegateClaim" /\ DelegateClaim
             \/ s.do = "delegateAttestation" /\ DelegateAttestation(s.of)
    <3>1. Formation
      BY <2>1 DEF Formation, Aimed
    <3>2. coreAt = "base" /\ coreAt' # "base" => s.do = "delegateIncident"
      BY <2>1 DEF InitializeClaim, InitializeAttestation, DelegateClaim,
         DelegateAttestation
    <3>3. QED
      BY <3>1, <3>2 DEF Next
  <2>2. CASE \/ s.do = "openIncident" /\ OpenIncident("er")
             \/ s.do = "submitPrivateClaim" /\ SubmitPrivateClaim("er", TRUE)
             \/ s.do = "submitSealedAttestation"
                  /\ SubmitSealedAttestation("er", s.of, "Approve", 1)
             \/ s.do = "certifyIncident" /\ CertifyIncident("er")
             \/ s.do = "scrubClaim" /\ ScrubClaim("er")
             \/ s.do = "scrubAttestation" /\ ScrubAttestation("er", s.of)
    <3>1. Runtime
      BY <1>1, <1>2, <2>2 DEF Runtime, Aimed
    <3>2. UNCHANGED coreAt
      BY <2>2 DEF OpenIncident, SubmitPrivateClaim, SubmitSealedAttestation,
                  MayAttest,
         CertifyIncident, ScrubClaim, ScrubAttestation, places
    <3>3. QED
      BY <3>1, <3>2 DEF Next
  <2>3. CASE \/ s.do = "commitIncident" /\ CommitIncident(s.of)
             \/ s.do = "releaseIncident" /\ ReleaseIncident(s.of)
             \/ s.do = "publishCertificate" /\ PublishCertificate
    <3>1. Exit
      BY <1>1, <2>3 DEF Exit, Aimed
    <3>2. coreAt = "base" => coreAt' = "base"
      BY <2>3 DEF CommitIncident, ReleaseIncident, PublishCertificate,
         Delegated, places
    <3>3. QED
      BY <3>1, <3>2 DEF Next
  <2>4. QED
    BY <1>3, <2>1, <2>2, <2>3 DEF IncidentCall
<1>4. ASSUME Call(s)
      PROVE  /\ [Next]_vars
             /\ coreAt = "base" /\ coreAt' # "base" =>
                  s.do = "delegateIncident"
  <2>1. CASE InitializeIncident
    BY <2>1 DEF Next, Formation, InitializeIncident
  <2>2. CASE InIncident(IncidentCall(s))
    BY <1>3, <2>2 DEF InIncident
  <2>3. CASE UNCHANGED vars
    BY <2>3 DEF vars, places
  <2>4. CASE InSeals(SealCall(s))
    BY <2>3, <2>4 DEF InSeals, SealCall, CreateClaimPermission,
       CreateAttestationPermission, CloseClaimPermission,
       CloseAttestationPermission
  <2>5. CASE InCrank(CrankCall(s))
    BY <2>3, <2>5 DEF InCrank, CrankCall, RequestExpiryCrank,
       CancelExpiryCrank, cvars
  <2>6. QED
    BY <1>4, <2>1, <2>2, <2>3, <2>4, <2>5
    DEF Call, InCircle, InCohort, MarketCall
<1>5. ASSUME NEW n \in {1, 2}, NEW d \in {"Approve", "Reject"},
             s.of \in Members,
             SubmitSealedAttestation("er", s.of, d, n)
      PROVE  [Next]_vars /\ UNCHANGED coreAt
  <2>1. Runtime
    BY <1>1, <1>2, <1>5 DEF Runtime
  <2>2. QED
    BY <1>5, <2>1 DEF Next, SubmitSealedAttestation, MayAttest, places
<1>6. ASSUME Attempt(s)
      PROVE  /\ [Next]_vars
             /\ coreAt = "base" /\ coreAt' # "base" =>
                  s.do = "delegateIncident"
  BY <1>4, <1>5, <1>6 DEF Attempt, InIncident, Aimed
<1>7. QED
  BY <1>4, <1>6

(* Whatever is done, it is a step of the incident; only the certificate    *)
(* may be an old one.                                                      *)
OlderBuild ==
  /\ ~certificate.issued
  /\ certificate' = [issued |-> TRUE, certificate_nonce |-> 1,
                     approval_count |-> 2, rejection_count |-> 0,
                     expires_at_slot |-> slot + CertificateLifetime]
  /\ UNCHANGED <<slot, core, claim, ballot, places, leaked, image, checkpoint>>

LEMMA IncidentSteps ==
  ASSUME AtStep, [DriverNext]_driverVars
  PROVE  /\ [Next]_vars \/ (OlderBuild /\ script \in {"seam", "seam_fail"})
         /\ coreAt = "base" /\ coreAt' # "base" =>
              Running /\ Current.do = "delegateIncident"
<1>1. CASE UNCHANGED <<chainVars, watching>>
  BY <1>1 DEF chainVars, vars, places
<1>2. CASE Sends
  BY <1>2, CallsAreSteps, CurrentIs DEF Sends
<1>3. CASE BeginWatching \/ Watching
  <2>1. UNCHANGED vars
    BY <1>3 DEF BeginWatching, Watching, InWatch, BeginWatch, PollExpiry,
       PollCancellation, Poll, cvars
  <2>2. QED
    BY <2>1 DEF vars, places
<1>4. ASSUME Fire PROVE [Next]_vars /\ UNCHANGED coreAt
  <2>1. CASE ExpireIncident("er")
    <3>1. Next
      BY <2>1, DriversAssumption DEF Next, Runtime
    <3>2. QED
      BY <2>1, <3>1 DEF ExpireIncident, places
  <2>2. QED
    BY <1>4, <2>1 DEF Fire, vars, places
<1>5. CASE Lands
  <2>1. LandCore \/ LandClaim \/ \E m \in Members : LandAttestation(m)
    BY <1>5 DEF Lands, InIncident
  <2>2. Next
    BY <2>1 DEF Next, Exit
  <2>3. coreAt = "base" => coreAt' = "base"
    BY <2>1 DEF LandCore, LandClaim, LandAttestation
  <2>4. QED
    BY <2>2, <2>3
<1>6. CASE CohortLands \/ CohortStripped \/ OthersRun
  <2>1. UNCHANGED vars
    BY <1>6 DEF CohortLands, CohortStripped, OthersRun, InCohort, InWatch,
       OtherTaskRuns, cvars
  <2>2. QED
    BY <2>1 DEF vars, places
<1>7. CASE Schedules
  <2>1. CASE InWatch(Iterate)
    BY <1>4, <2>1 DEF InWatch, Iterate
  <2>2. CASE InCrank(RemoveTask)
    BY <2>2 DEF InCrank, RemoveTask, vars, places
  <2>3. QED
    BY <1>7, <2>1, <2>2 DEF Schedules
<1>8. CASE TimePasses
  BY <1>8 DEF TimePasses, InIncident, Next, Tick, places
<1>9. CASE OldCertificate
  BY <1>9 DEF OldCertificate, OlderBuild, places
<1>10. CASE StrangerCalls
  <2>1. CASE \/ CertifyIncident("er") \/ ExpireIncident("er")
             \/ ScrubClaim("er")
             \/ \E m \in Members : ScrubAttestation("er", m)
    <3>1. Next
      BY <2>1, DriversAssumption DEF Next, Runtime
    <3>2. UNCHANGED coreAt
      BY <2>1 DEF CertifyIncident, ExpireIncident, ScrubClaim,
         ScrubAttestation, places
    <3>3. QED
      BY <3>1, <3>2
  <2>2. CASE ReleaseIncident(Members) \/ PublishCertificate
    <3>1. Next
      BY <2>2, DriversAssumption DEF Next, Exit
    <3>2. coreAt = "base" => coreAt' = "base"
      BY <2>2 DEF ReleaseIncident, PublishCertificate, Delegated, places
    <3>3. QED
      BY <3>1, <3>2
  <2>3. CASE UNCHANGED vars
    BY <2>3 DEF vars, places
  <2>4. QED
    BY <1>10, <2>1, <2>2, <2>3 DEF StrangerCalls, InIncident, InSeals,
       InCircle, InCohort, CloseClaimPermission, CloseAttestationPermission
<1>11. QED
  BY <1>1, <1>2, <1>3, <1>5, <1>6, <1>7, <1>8, <1>9, <1>10, ChainSteps
  DEF World

(* Types and exits hold through an older certificate too.                  *)
LEMMA IncidentKept ==
  ASSUME AtStep, TypeOK, [DriverNext]_driverVars
  PROVE  /\ TypeOK'
         /\ ExitInv => ExitInv'
         /\ IsTerminal => UNCHANGED core
<1>1. CASE [Next]_vars
  BY <1>1, TypeStep, ExitStep, SettledIsFrozen, DriversAssumption
<1>2. CASE OlderBuild
  <2>1. certificate' \in Certificates
    <3>1. slot + CertificateLifetime \in Nat
      BY ConstantTypes DEF TypeOK
    <3>2. QED
      BY <1>2, <3>1 DEF OlderBuild, Certificates
  <2>2. TypeOK'
    BY <1>2, <2>1 DEF OlderBuild, TypeOK, places
  <2>3. ExitInv => ExitInv'
    BY <1>2 DEF OlderBuild, ExitInv, NothingPrivateOnBase, ClaimMayLeave,
       places
  <2>4. QED
    BY <1>2, <2>2, <2>3 DEF OlderBuild
<1>3. QED
  BY <1>1, <1>2, IncidentSteps

(* What happens to the task and to its watcher.                            *)
LEMMA WatchSteps ==
  ASSUME AtStep, [DriverNext]_driverVars
  PROVE  \/ /\ UNCHANGED watching
            /\ \/ UNCHANGED task \/ task' = 0
               \/ /\ Running /\ Current.do = "requestExpiryCrank"
                  /\ task' = Requested
         \/ BeginWatching \/ Watching
         \/ InWatch(Iterate) \/ InWatch(OtherTaskRuns)
<1>1. CASE UNCHANGED <<chainVars, watching>>
  BY <1>1 DEF chainVars, crank
<1>2. ASSUME NEW s, Aimed(s), Call(s) \/ Attempt(s)
      PROVE  /\ UNCHANGED watching
             /\ \/ UNCHANGED task
                \/ s.do = "requestExpiryCrank" /\ task' = Requested
  <2>1. CASE Call(s)
    <3>1. CASE InCrank(CrankCall(s))
      BY <3>1, <1>2 DEF InCrank, CrankCall, RequestExpiryCrank,
         CancelExpiryCrank, Aimed, cvars, crank
    <3>2. QED
      BY <2>1, <3>1 DEF Call, InCircle, InIncident, InSeals, InCohort,
         MarketCall, crank
  <2>2. QED
    BY <1>2, <2>1 DEF Attempt, InIncident, crank
<1>3. CASE Sends
  BY <1>2, <1>3, CurrentIs DEF Sends
<1>4. CASE Lands \/ CohortLands \/ CohortStripped \/ TimePasses
             \/ OldCertificate
  BY <1>4 DEF Lands, CohortLands, CohortStripped, TimePasses,
     OldCertificate, InIncident, InCohort, crank
<1>5. CASE Schedules
  BY <1>5 DEF Schedules, InCrank, RemoveTask
<1>6. CASE StrangerCalls
  BY <1>6 DEF StrangerCalls, InIncident, InSeals, InCircle, InCohort, crank
<1>7. QED
  BY <1>1, <1>3, <1>4, <1>5, <1>6, ChainSteps DEF World, OthersRun

-----------------------------------------------------------------------------
(* What WatchIsRight rests on.  While the watcher waits for a task to be   *)
(* quiet, its count is not ahead of the iterations, and when it is level   *)
(* with them a live task has been late for as long as the count held       *)
(* still.  The second part is what is known of the watcher's record.       *)
WatchTypes ==
  /\ task \in Nat /\ fired \in Nat /\ others \in Nat /\ late \in Nat
  /\ DOMAIN watch = {"loop", "count", "quiet", "polls", "observation"}
  /\ watch.count \in Nat /\ watch.quiet \in Nat /\ watch.polls \in Nat
QuietInv ==
  watch.loop = "cancel" =>
    /\ watch.count <= CountIterations
    /\ task > 0 /\ watch.count = CountIterations => watch.quiet <= late
ConcludedInv ==
  /\ watch # Idle => Passed(Begins)
  /\ watch.observation.state = "RemovalObserved" => task = 0
  /\ \/ watch.observation.state = "DesiredStateReached"
     \/ watch.observation.terminal
     => IsTerminal
WatchInv == WatchTypes /\ QuietInv /\ ConcludedInv

LEMMA IdleIs ==
  /\ Idle.loop = "none" /\ Idle.count = 0 /\ Idle.quiet = 0 /\ Idle.polls = 0
  /\ Idle.observation.state = "none" /\ Idle.observation.terminal = FALSE
  /\ DOMAIN Idle = {"loop", "count", "quiet", "polls", "observation"}
BY DEF Idle, NoObservation

(* The record the watcher keeps, as each of its steps leaves it.           *)
Loops(loop, count, quiet, polls, observation) ==
  /\ DOMAIN watch' = {"loop", "count", "quiet", "polls", "observation"}
  /\ watch'.loop = loop /\ watch'.count = count /\ watch'.quiet = quiet
  /\ watch'.polls = polls /\ watch'.observation = observation

LEMMA RecordSteps ==
  ASSUME WatchTypes, NEW loop, NEW o
  PROVE  /\ watch' = [Idle EXCEPT !.observation = o]
              => Loops("none", 0, 0, 0, o)
         /\ watch' = [Idle EXCEPT !.loop = loop, !.count = CountIterations]
              => Loops(loop, CountIterations, 0, 0, NoObservation)
         /\ watch' = [watch EXCEPT !.polls = @ + 1]
              => Loops(watch.loop, watch.count, watch.quiet,
                       watch.polls + 1, watch.observation)
         /\ watch' = [watch EXCEPT !.count = CountIterations, !.quiet = 0,
                                   !.polls = @ + 1]
              => Loops(watch.loop, CountIterations, 0,
                       watch.polls + 1, watch.observation)
         /\ watch' = [watch EXCEPT !.quiet = @ + 1, !.polls = @ + 1]
              => Loops(watch.loop, watch.count, watch.quiet + 1,
                       watch.polls + 1, watch.observation)
<1>1. ASSUME watch' = [Idle EXCEPT !.observation = o]
      PROVE  Loops("none", 0, 0, 0, o)
  BY <1>1 DEF Loops, Idle
<1>2. ASSUME watch' = [Idle EXCEPT !.loop = loop, !.count = CountIterations]
      PROVE  Loops(loop, CountIterations, 0, 0, NoObservation)
  BY <1>2 DEF Loops, Idle
<1>3. ASSUME watch' = [watch EXCEPT !.polls = @ + 1]
      PROVE  Loops(watch.loop, watch.count, watch.quiet,
                   watch.polls + 1, watch.observation)
  BY <1>3 DEF Loops, WatchTypes
<1>4. ASSUME watch' = [watch EXCEPT !.count = CountIterations, !.quiet = 0,
                                    !.polls = @ + 1]
      PROVE  Loops(watch.loop, CountIterations, 0,
                   watch.polls + 1, watch.observation)
  BY <1>4 DEF Loops, WatchTypes
<1>5. ASSUME watch' = [watch EXCEPT !.quiet = @ + 1, !.polls = @ + 1]
      PROVE  Loops(watch.loop, watch.count, watch.quiet + 1,
                   watch.polls + 1, watch.observation)
  BY <1>5 DEF Loops, WatchTypes
<1>6. QED
  BY <1>1, <1>2, <1>3, <1>4, <1>5

(* How a loop begins and goes on.                                          *)
LEMMA BeginsTo ==
  ASSUME WatchTypes, BeginWatching
  PROVE  /\ \E loop \in {"expiry", "cancel"} :
              Loops(loop, CountIterations, 0, 0, NoObservation)
         /\ UNCHANGED <<core, task, fired, others, late>>
<1>1. PICK loop \in {"expiry", "cancel"} : InWatch(BeginWatch(loop))
  BY DEF BeginWatching
<1>2. watch' = [Idle EXCEPT !.loop = loop, !.count = CountIterations]
      /\ UNCHANGED <<core, task, fired, others, late>>
  BY <1>1 DEF InWatch, BeginWatch, cvars, crank, vars
<1>3. QED
  BY <1>2, RecordSteps

LEMMA PollsTo ==
  ASSUME WatchTypes, Watching
  PROVE  /\ UNCHANGED <<core, task, fired, others>>
         /\ task > 0 => late < Interval
         /\ late' = IF task > 0 THEN late + 1 ELSE 0
         /\ \/ \E n \in Nat :
                  Loops("none", 0, 0, 0,
                        [state |-> CrankStateFor(n, IsTerminal, FALSE, FALSE),
                         iterations |-> n, terminal |-> IsTerminal,
                         exhausted |-> FALSE])
            \/ /\ watch.loop = "expiry"
               /\ Loops("expiry", watch.count, watch.quiet, watch.polls + 1,
                        watch.observation)
            \/ Loops("none", 0, 0, 0, Cancellation(watch.count, FALSE))
            \/ /\ watch.loop = "cancel" /\ watch.count = CountIterations
               /\ watch.quiet + 1 >= QuietWindow
               /\ Loops("none", 0, 0, 0,
                        Cancellation(watch.count, watch.count < Requested))
            \/ /\ watch.loop = "cancel"
               /\ Loops("cancel", CountIterations, 0, watch.polls + 1,
                        watch.observation)
            \/ /\ watch.loop = "cancel" /\ watch.count = CountIterations
               /\ Loops("cancel", watch.count, watch.quiet + 1,
                        watch.polls + 1, watch.observation)
<1>1. Poll /\ UNCHANGED cvars
  BY DEF Watching, InWatch, PollExpiry, PollCancellation, Poll
<1>2. /\ UNCHANGED <<core, task, fired, others>>
      /\ task > 0 => late < Interval
      /\ late' = IF task > 0 THEN late + 1 ELSE 0
  BY <1>1 DEF Poll, cvars, crank, vars
<1>3. CASE PollExpiry
  <2>1. CountIterations \in Nat
    BY DEF WatchTypes, CountIterations
  <2>2. watch.loop = "expiry"
    BY <1>3 DEF PollExpiry
  <2>3. \/ watch' = [Idle EXCEPT !.observation =
                [state |-> CrankStateFor(CountIterations, IsTerminal, FALSE,
                                         FALSE),
                 iterations |-> CountIterations, terminal |-> IsTerminal,
                 exhausted |-> FALSE]]
        \/ watch' = [watch EXCEPT !.polls = @ + 1]
    BY <1>3 DEF PollExpiry
  <2>4. QED
    BY <1>2, <2>1, <2>2, <2>3, RecordSteps
<1>4. CASE PollCancellation
  <2>1. watch.loop = "cancel"
    BY <1>4 DEF PollCancellation
  <2>2. \/ watch' = [Idle EXCEPT !.observation =
                        Cancellation(watch.count, FALSE)]
        \/ watch' = [watch EXCEPT !.count = CountIterations, !.quiet = 0,
                                  !.polls = @ + 1]
        \/ /\ watch.count = CountIterations /\ watch.quiet + 1 >= QuietWindow
           /\ watch' = [Idle EXCEPT !.observation =
                        Cancellation(watch.count, watch.count < Requested)]
        \/ /\ watch.count = CountIterations
           /\ watch' = [watch EXCEPT !.quiet = @ + 1, !.polls = @ + 1]
    BY <1>4 DEF PollCancellation
  <2>3. QED
    BY <1>2, <2>1, <2>2, RecordSteps
<1>5. QED
  BY <1>3, <1>4 DEF Watching, InWatch

LEMMA IteratesTo ==
  ASSUME WatchTypes, InWatch(Iterate) \/ InWatch(OtherTaskRuns)
  PROVE  /\ UNCHANGED watch /\ task' \in Nat /\ fired' \in Nat
         /\ others' \in Nat /\ late' \in Nat
         /\ CountIterations' = CountIterations + 1
         /\ task = 0 => task' = 0
<1>1. CASE InWatch(Iterate)
  <2>1. task > 0 /\ task' = task - 1
    BY <1>1 DEF InWatch, Iterate, Fire
  <2>2. /\ fired' = fired + 1 /\ late' = 0 /\ UNCHANGED <<others, watch>>
    BY <1>1 DEF InWatch, Iterate
  <2>3. QED
    BY <2>1, <2>2 DEF WatchTypes, CountIterations
<1>2. CASE InWatch(OtherTaskRuns)
  <2>1. others' = others + 1 /\ UNCHANGED <<task, fired, late, watch>>
    BY <1>2 DEF InWatch, OtherTaskRuns, cvars, crank
  <2>2. QED
    BY <2>1 DEF WatchTypes, CountIterations
<1>3. QED
  BY <1>1, <1>2

LEMMA WatchTypesKept ==
  ASSUME AtStep, WatchTypes, [DriverNext]_driverVars
  PROVE  WatchTypes'
<1>1. Requested \in Nat /\ CountIterations \in Nat
  BY WatchAssumption, IterationsAssumption DEF WatchTypes, CountIterations
<1>2. CASE UNCHANGED watching /\ (UNCHANGED task \/ task' = 0
                                    \/ task' = Requested)
  BY <1>1, <1>2 DEF watching, WatchTypes
<1>3. CASE BeginWatching
  BY <1>1, <1>3, BeginsTo DEF Loops, WatchTypes
<1>4. CASE Watching
  <2>1. /\ task \in Nat /\ late \in Nat /\ watch.count \in Nat
        /\ watch.quiet \in Nat /\ watch.polls \in Nat
        /\ watch.quiet + 1 \in Nat /\ watch.polls + 1 \in Nat
    BY DEF WatchTypes
  <2>2. UNCHANGED <<task, fired, others>> /\ late' \in Nat
    BY <1>4, <2>1, PollsTo
  <2> DEFINE Kept == /\ DOMAIN watch' = {"loop", "count", "quiet", "polls",
                                         "observation"}
                     /\ watch'.count \in Nat /\ watch'.quiet \in Nat
                     /\ watch'.polls \in Nat
  <2>3. ASSUME NEW loop, NEW c \in Nat, NEW q \in Nat, NEW n \in Nat, NEW o,
               Loops(loop, c, q, n, o)
        PROVE  Kept
    BY <2>3 DEF Loops
  <2> HIDE DEF Kept
  <2>4. Kept
    BY <1>1, <1>4, <2>1, <2>3, PollsTo
  <2>5. QED
    BY <2>2, <2>4 DEF Kept, WatchTypes
<1>5. CASE InWatch(Iterate) \/ InWatch(OtherTaskRuns)
  BY <1>5, IteratesTo DEF WatchTypes
<1>6. QED
  BY <1>2, <1>3, <1>4, <1>5, WatchSteps

LEMMA ObservationsAre ==
  ASSUME NEW count, NEW n \in Nat
  PROVE  /\ Cancellation(count, FALSE).state # "RemovalObserved"
         /\ \A removed \in BOOLEAN :
              LET o == Cancellation(count, removed) IN
              o.state = "DesiredStateReached" \/ o.terminal => IsTerminal
         /\ LET o == [state |-> CrankStateFor(n, IsTerminal, FALSE, FALSE),
                      iterations |-> n, terminal |-> IsTerminal,
                      exhausted |-> FALSE] IN
            /\ o.state # "RemovalObserved"
            /\ o.state = "DesiredStateReached" \/ o.terminal => IsTerminal
BY DEF Cancellation, CrankStateFor

LEMMA QuietKept ==
  ASSUME AtStep, WatchTypes, QuietInv, [DriverNext]_driverVars,
         watch # Idle => Passed(Begins)
  PROVE  QuietInv'
<1>1. CountIterations \in Nat
  BY DEF WatchTypes, CountIterations
<1>2. CASE BeginWatching
  BY <1>1, <1>2, BeginsTo DEF Loops, QuietInv, CountIterations, WatchTypes
<1>3. CASE Watching
  <2>1. /\ UNCHANGED <<task, fired, others>>
        /\ late' = IF task > 0 THEN late + 1 ELSE 0
    BY <1>3, PollsTo
  <2>2. CountIterations' = CountIterations
    BY <2>1 DEF CountIterations
  <2>3. ASSUME NEW c, NEW q, NEW n, NEW o, NEW loop, loop # "cancel",
               Loops(loop, c, q, n, o)
        PROVE  QuietInv'
    BY <2>3 DEF Loops, QuietInv
  <2>4. ASSUME NEW n, NEW o, Loops("cancel", CountIterations, 0, n, o)
        PROVE  QuietInv'
    BY <1>1, <2>1, <2>2, <2>4 DEF Loops, QuietInv, WatchTypes
  <2>5. ASSUME NEW n, NEW o, watch.loop = "cancel",
               watch.count = CountIterations,
               Loops("cancel", watch.count, watch.quiet + 1, n, o)
        PROVE  QuietInv'
    BY <1>1, <2>1, <2>2, <2>5 DEF Loops, QuietInv, WatchTypes
  <2>6. "none" # "cancel" /\ "expiry" # "cancel"
    OBVIOUS
  <2>7. QED
    BY <1>3, <2>3, <2>4, <2>5, <2>6, PollsTo
<1>4. CASE InWatch(Iterate) \/ InWatch(OtherTaskRuns)
  <2>1. UNCHANGED watch /\ CountIterations' = CountIterations + 1
    BY <1>4, IteratesTo
  <2>2. QED
    BY <1>1, <2>1 DEF QuietInv, WatchTypes
<1>5. ASSUME UNCHANGED watching, UNCHANGED task \/ task' = 0
      PROVE  QuietInv'
  BY <1>5 DEF watching, QuietInv, CountIterations, WatchTypes
<1>6. ASSUME UNCHANGED watching, Current.do = "requestExpiryCrank"
      PROVE  QuietInv'
  <2>1. ~Passed(Begins)
    BY <1>6, PassedObserving DEF Moving
  <2>2. watch' = Idle
    BY <1>6, <2>1 DEF watching
  <2>3. QED
    BY <2>2, IdleIs DEF QuietInv
<1>7. QED
  BY <1>2, <1>3, <1>4, <1>5, <1>6, WatchSteps

(* A count that held still for longer than a live task may be late means   *)
(* that there is no task.                                                  *)
LEMMA ConcludedKept ==
  ASSUME Interval < QuietWindow,
         AtStep, TypeOK, WatchInv, [DriverNext]_driverVars
  PROVE  ConcludedInv'
<1>1. IsTerminal => IsTerminal'
  BY IncidentKept DEF IsTerminal
<1>2. Passed(Begins) => Passed(Begins)'
  <2>1. ASSUME Passed(Begins), Rerun PROVE FALSE
    <3>1. Dos(Program[script]) \cap Begins = {}
      BY <2>1, ScriptsAre DEF AtStep, Rerun
    <3>2. PICK i \in 1..(pc - 1) : Program[script][i].do \in Begins
      BY <2>1 DEF Passed
    <3>3. i \in DOMAIN Program[script]
      BY <3>2, CurrentIs
    <3>4. QED
      BY <3>1, <3>2, <3>3 DEF Dos
  <2>2. QED
    BY <2>1, PassedStays, PassedObserving
<1>3. watch' # Idle => Passed(Begins)'
  <2>1. CASE UNCHANGED watch
    BY <1>2, <2>1 DEF WatchInv, ConcludedInv
  <2>2. CASE BeginWatching
    <3>1. Goes /\ Current.do \in Begins
      BY <2>2 DEF BeginWatching, Goes, Advance, Begins
    <3>2. QED
      BY <3>1, PassedBy
  <2>3. CASE Watching
    <3>1. watch.loop # "none"
      BY <2>3 DEF Watching, InWatch, PollExpiry, PollCancellation
    <3>2. watch # Idle
      BY <3>1, IdleIs
    <3>3. QED
      BY <1>2, <3>2 DEF WatchInv, ConcludedInv
  <2>4. QED
    BY <2>1, <2>2, <2>3, WatchSteps, IteratesTo DEF watching, WatchInv
<1>4. /\ watch'.observation.state = "RemovalObserved" => task' = 0
      /\ \/ watch'.observation.state = "DesiredStateReached"
         \/ watch'.observation.terminal
         => IsTerminal'
  <2>1. ASSUME UNCHANGED watch, task = 0 => task' = 0 \/ watch = Idle
        PROVE  /\ watch'.observation.state = "RemovalObserved" => task' = 0
               /\ \/ watch'.observation.state = "DesiredStateReached"
                  \/ watch'.observation.terminal
                  => IsTerminal'
    BY <1>1, <2>1, IdleIs DEF WatchInv, ConcludedInv
  <2>2. CASE BeginWatching
    <3>1. watch'.observation = NoObservation
      BY <2>2, BeginsTo DEF Loops, WatchInv
    <3>2. QED
      BY <3>1 DEF NoObservation
  <2>3. CASE Watching
    <3>1. UNCHANGED <<task, core>>
      BY <2>3, PollsTo DEF WatchInv
    <3>2. IsTerminal' <=> IsTerminal
      BY <3>1 DEF IsTerminal
    <3>3. ASSUME watch.count = CountIterations, watch.loop = "cancel",
                 watch.quiet + 1 >= QuietWindow
          PROVE  task = 0
      <4>1. task > 0 => late < Interval
        BY <2>3, PollsTo DEF WatchInv
      <4>2. task > 0 => watch.quiet <= late
        BY <3>3 DEF WatchInv, QuietInv
      <4>3. /\ Interval \in Nat /\ QuietWindow \in Nat
            /\ task \in Nat /\ late \in Nat /\ watch.quiet \in Nat
        BY WatchAssumption DEF WatchInv, WatchTypes
      <4>4. QED
        BY <3>3, <4>1, <4>2, <4>3
    <3> DEFINE Ends(o) == /\ o.state = "RemovalObserved" => task = 0
                          /\ \/ o.state = "DesiredStateReached"
                             \/ o.terminal
                             => IsTerminal
    <3>4. Ends(watch'.observation)
      <4>1. CASE \E n \in Nat :
                  Loops("none", 0, 0, 0,
                        [state |-> CrankStateFor(n, IsTerminal, FALSE, FALSE),
                         iterations |-> n, terminal |-> IsTerminal,
                         exhausted |-> FALSE])
        BY <4>1, ObservationsAre DEF Loops
      <4>2. CASE \E loop, c, q, n : Loops(loop, c, q, n, watch.observation)
        BY <4>2 DEF Loops, WatchInv, ConcludedInv
      <4>3. CASE Loops("none", 0, 0, 0, Cancellation(watch.count, FALSE))
        BY <4>3, ObservationsAre DEF Loops
      <4>4. CASE /\ watch.loop = "cancel" /\ watch.count = CountIterations
                 /\ watch.quiet + 1 >= QuietWindow
                 /\ Loops("none", 0, 0, 0,
                        Cancellation(watch.count, watch.count < Requested))
        <5>1. task = 0 /\ 0 \in Nat
          BY <3>3, <4>4
        <5>2. watch'.observation = Cancellation(watch.count,
                                                watch.count < Requested)
          BY <4>4 DEF Loops
        <5>3. \/ watch'.observation.state = "DesiredStateReached"
              \/ watch'.observation.terminal
              => IsTerminal
          BY <5>2 DEF Cancellation, CrankStateFor
        <5>4. QED
          BY <5>1, <5>3
      <4>5. QED
        BY <2>3, <4>1, <4>2, <4>3, <4>4, PollsTo DEF WatchInv
    <3>5. QED
      BY <3>1, <3>2, <3>4
  <2>4. ASSUME InWatch(Iterate) \/ InWatch(OtherTaskRuns)
        PROVE  UNCHANGED watch /\ (task = 0 => task' = 0)
    BY <2>4, IteratesTo DEF WatchInv
  <2>5. ASSUME Current.do = "requestExpiryCrank"
        PROVE  watch = Idle
    BY <2>5, PassedObserving DEF Moving, WatchInv, ConcludedInv
  <2>6. QED
    BY <2>1, <2>2, <2>3, <2>4, <2>5, WatchSteps DEF watching
<1>5. QED
  BY <1>3, <1>4 DEF ConcludedInv

-----------------------------------------------------------------------------
(* Where a run starts.                                                     *)
LEMMA StartsWell == DriverInit => AtStep /\ TypeOK /\ ExitInv
<1>1. ASSUME DriverInit PROVE AtStep /\ TypeOK /\ ExitInv
  <2>1. script \in Scripts /\ pc = 1
    BY <1>1 DEF DriverInit
  <2>2. Len(Program[script]) \in Nat \ {0}
    BY <2>1, ScriptsAre DEF WellMade
  <2>3. AtStep
    BY <2>1, <2>2 DEF AtStep
  <2>4. Init
    BY <1>1 DEF DriverInit, SealInit
  <2>5. QED
    BY <2>3, <2>4, TypeInit, ExitInit
<1>2. QED
  BY <1>1

LEMMA WatchStarts == DriverInit => WatchInv
<1>1. ASSUME DriverInit PROVE WatchInv
  <2>1. /\ task = 0 /\ fired = 0 /\ others = 0 /\ late = 0 /\ watch = Idle
    BY <1>1 DEF DriverInit, WatchInit
  <2>2. watch.observation.terminal = FALSE /\ watch.observation.state = "none"
        /\ watch.loop = "none"
    BY <2>1, IdleIs
  <2>3. WatchTypes
    BY <2>1, IdleIs DEF WatchTypes
  <2>4. QuietInv /\ ConcludedInv
    BY <2>1, <2>2 DEF QuietInv, ConcludedInv
  <2>5. QED
    BY <2>3, <2>4 DEF WatchInv
<1>2. QED
  BY <1>1

LEMMA WatchKept ==
  ASSUME Interval < QuietWindow, AtStep, TypeOK, WatchInv,
         [DriverNext]_driverVars
  PROVE  WatchInv'
<1>1. WatchTypes /\ QuietInv /\ (watch # Idle => Passed(Begins))
  BY DEF WatchInv, ConcludedInv
<1>2. WatchTypes' /\ QuietInv'
  BY <1>1, WatchTypesKept, QuietKept
<1>3. ConcludedInv'
  BY ConcludedKept
<1>4. QED
  BY <1>2, <1>3 DEF WatchInv

(* What the watcher concludes is so, in every script and whatever is lost, *)
(* repeated or done by others: a task that it calls removed is gone, and   *)
(* where it lets the accounts leave the rollup, no iteration that is still *)
(* to come can write them (watchCancellation and safeToUndelegate).  This  *)
(* asks for a quiet window longer than the interval of the task.           *)
THEOREM WatchIsAlwaysRight ==
  ASSUME Interval < QuietWindow
  PROVE  DriverSpec => []WatchIsRight
<1> DEFINE IInv == AtStep /\ TypeOK /\ WatchInv
<1>1. DriverInit => IInv
  BY StartsWell, WatchStarts
<1>2. IInv /\ [DriverNext]_driverVars => IInv'
  BY PcSteps, IncidentKept, WatchKept
<1>3. IInv => WatchIsRight
  <2>1. ASSUME IInv PROVE WatchIsRight
    <3>1. RemovalIsReal
      BY <2>1 DEF WatchInv, ConcludedInv, RemovalIsReal
    <3>2. IsTerminal => ~ExpiryDue("er")
      BY DEF IsTerminal, Terminal, ExpiryDue
    <3>3. UndelegationIsSafe
      BY <2>1, <3>2 DEF WatchInv, ConcludedInv, UndelegationIsSafe,
         SafeToUndelegate
    <3>4. QED
      BY <3>1, <3>3 DEF WatchIsRight
  <2>2. QED
    BY <2>1
<1> HIDE DEF IInv
<1>4. QED
  BY <1>1, <1>2, <1>3, PTL DEF DriverSpec

-----------------------------------------------------------------------------
(* What a script remembers, as each of its steps leaves it.                *)
Fields ==
  {"rerun", "matrix", "control", "unrefused", "wrong", "view", "leaks",
   "scrub", "class", "verified", "effects"}

Sees(matrix, view, scrub, class, effects) ==
  /\ DOMAIN seen' = Fields
  /\ seen'.matrix = matrix /\ seen'.view = view /\ seen'.scrub = scrub
  /\ seen'.class = class /\ seen'.effects = effects
Keeps == Sees(seen.matrix, seen.view, seen.scrub, seen.class, seen.effects)

LEMMA SeenRecords ==
  ASSUME DOMAIN seen = Fields, NEW v
  PROVE  /\ seen' = seen => Keeps
         /\ seen' = [seen EXCEPT !.matrix = v]
              => Sees(v, seen.view, seen.scrub, seen.class, seen.effects)
         /\ seen' = [seen EXCEPT !.view = v]
              => Sees(seen.matrix, v, seen.scrub, seen.class, seen.effects)
         /\ seen' = [seen EXCEPT !.scrub = v]
              => Sees(seen.matrix, seen.view, v, seen.class, seen.effects)
         /\ seen' = [seen EXCEPT !.class = v]
              => Sees(seen.matrix, seen.view, seen.scrub, v, seen.effects)
         /\ seen' = [seen EXCEPT !.effects = v]
              => Sees(seen.matrix, seen.view, seen.scrub, seen.class, v)
         /\ \/ seen' = [seen EXCEPT !.control = v]
            \/ seen' = [seen EXCEPT !.unrefused = v]
            \/ seen' = [seen EXCEPT !.wrong = v]
            \/ seen' = [seen EXCEPT !.leaks = v]
            \/ seen' = [seen EXCEPT !.verified = v]
            => Keeps
<1> USE DEF Sees, Keeps, Fields
<1>1. seen' = seen => Keeps
  OBVIOUS
<1>2. seen' = [seen EXCEPT !.matrix = v]
        => Sees(v, seen.view, seen.scrub, seen.class, seen.effects)
  OBVIOUS
<1>3. seen' = [seen EXCEPT !.view = v]
        => Sees(seen.matrix, v, seen.scrub, seen.class, seen.effects)
  OBVIOUS
<1>4. seen' = [seen EXCEPT !.scrub = v]
        => Sees(seen.matrix, seen.view, v, seen.class, seen.effects)
  OBVIOUS
<1>5. seen' = [seen EXCEPT !.class = v]
        => Sees(seen.matrix, seen.view, seen.scrub, v, seen.effects)
  OBVIOUS
<1>6. seen' = [seen EXCEPT !.effects = v]
        => Sees(seen.matrix, seen.view, seen.scrub, seen.class, v)
  OBVIOUS
<1>7. \/ seen' = [seen EXCEPT !.control = v]
      \/ seen' = [seen EXCEPT !.unrefused = v]
      \/ seen' = [seen EXCEPT !.wrong = v]
      \/ seen' = [seen EXCEPT !.leaks = v]
      \/ seen' = [seen EXCEPT !.verified = v]
      => Keeps
  OBVIOUS
<1>8. QED
  BY <1>1, <1>2, <1>3, <1>4, <1>5, <1>6, <1>7

Seeing ==
  \/ Keeps
  \/ Rerun /\ Sees({}, NoView, FALSE, "none", NoEffects)
  \/ /\ LookAtMatrix
     /\ Sees(Readable, seen.view, seen.scrub, seen.class, seen.effects)
  \/ /\ LookAtMatrixInOutage
     /\ \E lost \in {ReadMatrix} \cup {{r} : r \in Readable} :
          Sees(Readable \ lost, seen.view, seen.scrub, seen.class,
               seen.effects)
  \/ /\ CoreLands
     /\ Sees(seen.matrix, View, seen.scrub, seen.class, seen.effects)
  \/ /\ OwnerWindowCloses
     /\ Sees(seen.matrix, NoView, seen.scrub, seen.class, seen.effects)
  \/ /\ LookAtScrub
     /\ \E scrub : Sees(seen.matrix, seen.view, scrub, seen.class,
                        seen.effects)
  \/ /\ Reconcile
     /\ Sees(seen.matrix, seen.view, seen.scrub,
             Classify(Effects, certificate.issued), seen.effects)
  \/ /\ ReadEffects
     /\ Sees(seen.matrix, seen.view, seen.scrub, seen.class, Effects)
  \/ /\ ObservationEnds
     /\ Sees(seen.matrix, seen.view, seen.scrub,
             Classify(seen.effects, operation.place = "base"), seen.effects)

LEMMA SeenSteps ==
  ASSUME DOMAIN seen = Fields, [DriverNext]_driverVars
  PROVE  Seeing
<1> USE DEF Advance, Throw, Note
<1>0. UNCHANGED seen => Keeps
  BY SeenRecords
<1>1. CASE UNCHANGED driverVars
  BY <1>0, <1>1 DEF driverVars, runVars, Seeing
<1>2. CASE Send \/ SendIdempotent \/ SendRefused \/ ConfirmationLost
  BY <1>0, <1>2 DEF Send, SendIdempotent, SendRefused, ConfirmationLost,
     Seeing
<1>3. CASE AttemptSucceeds \/ AttemptRefused \/ AttemptLost
  <2>1. \/ UNCHANGED seen
        \/ \E v : seen' = [seen EXCEPT !.unrefused = v]
        \/ \E v : seen' = [seen EXCEPT !.wrong = v]
    BY <1>3 DEF AttemptSucceeds, AttemptRefused, AttemptLost
  <2>2. QED
    BY <1>0, <2>1, SeenRecords DEF Seeing
<1>4. CASE LookAtMatrix
  BY <1>4, SeenRecords DEF LookAtMatrix, Seeing
<1>5. CASE LookAtMatrixInOutage
  <2>1. PICK lost \in {ReadMatrix} \cup {{r} : r \in Readable} :
          seen' = [seen EXCEPT !.matrix = Readable \ lost]
    BY <1>5 DEF LookAtMatrixInOutage
  <2>2. Sees(Readable \ lost, seen.view, seen.scrub, seen.class, seen.effects)
    BY <2>1, SeenRecords
  <2>3. QED
    BY <1>5, <2>2 DEF Seeing
<1>6. CASE CoreLands
  BY <1>6, SeenRecords DEF CoreLands, Seeing
<1>7. CASE OwnerWindowCloses
  BY <1>7, SeenRecords DEF OwnerWindowCloses, Seeing
<1>8. CASE LookAtScrub
  <2>1. \E v : seen' = [seen EXCEPT !.scrub = v]
    BY <1>8 DEF LookAtScrub
  <2>2. QED
    BY <1>8, <2>1, SeenRecords DEF Seeing
<1>9. CASE Reconcile
  BY <1>9, SeenRecords DEF Reconcile, Seeing
<1>10. CASE ReadEffects
  BY <1>10, SeenRecords DEF ReadEffects, Seeing
<1>11. CASE ObservationEnds
  <2>1. seen' = [seen EXCEPT !.class =
                   Classify(seen.effects, operation.place = "base")]
    BY <1>11 DEF ObservationEnds
  <2>2. Sees(seen.matrix, seen.view, seen.scrub,
             Classify(seen.effects, operation.place = "base"), seen.effects)
    BY <2>1, SeenRecords
  <2>3. QED
    BY <1>11, <2>2 DEF Seeing
<1>12. CASE Rerun
  <2>1. /\ DOMAIN Blank = Fields /\ Blank.matrix = {} /\ Blank.view = NoView
        /\ Blank.scrub = FALSE /\ Blank.class = "none"
        /\ Blank.effects = NoEffects
    BY DEF Blank, Fields
  <2>2. seen' = [Blank EXCEPT !.rerun = TRUE]
    BY <1>12 DEF Rerun
  <2>3. Sees({}, NoView, FALSE, "none", NoEffects)
    BY <2>1, <2>2 DEF Sees, Fields
  <2>4. QED
    BY <1>12, <2>3 DEF Seeing
<1>13. CASE \/ LookAtControl \/ LookForCanaries \/ ScanSurfaces
            \/ ScanInOutage \/ LookVerified
  <2>1. \/ \E v : seen' = [seen EXCEPT !.control = v]
        \/ \E v : seen' = [seen EXCEPT !.leaks = v]
        \/ \E v : seen' = [seen EXCEPT !.verified = v]
    BY <1>13 DEF LookAtControl, LookForCanaries, ScanSurfaces, ScanInOutage,
       LookVerified
  <2>2. QED
    BY <2>1, SeenRecords DEF Seeing
<1>14. CASE \/ RuntimeIsFresh \/ LandingWindowCloses \/ LookForCertificate
            \/ BeginWatching \/ Watching \/ WatchEnds \/ LookForIterations
            \/ LookWhetherSafe \/ GiveVerdict \/ ObserveAgain
            \/ RuntimeIsStale \/ StrangerCalls \/ World
  <2>1. UNCHANGED seen
    BY <1>14 DEF RuntimeIsFresh, LandingWindowCloses, LookForCertificate,
       BeginWatching, Watching, WatchEnds, LookForIterations,
       LookWhetherSafe, GiveVerdict, ObserveAgain, RuntimeIsStale,
       StrangerCalls, World, Lands, CohortLands, CohortStripped, Schedules,
       OthersRun, TimePasses, OldCertificate, OffScript
  <2>2. QED
    BY <1>0, <2>1 DEF Seeing
<1>15. QED
  BY <1>1, <1>2, <1>3, <1>4, <1>5, <1>6, <1>7, <1>8, <1>9, <1>10, <1>11,
     <1>12, <1>13, <1>14 DEF DriverNext, Steps, Faults

(* Once it gave its verdict, or was thrown out, a script does nothing.     *)
LEMMA Rests ==
  ASSUME ~Running, [DriverNext]_driverVars
  PROVE  Rerun \/ UNCHANGED <<script, pc, outcome, seen, watch>>
<1> USE DEF Looking, Sending, Trying
<1>1. CASE UNCHANGED driverVars
  BY <1>1 DEF driverVars, runVars, watching
<1>2. ~Steps
  BY DEF Steps, Send, SendIdempotent, SendRefused, AttemptSucceeds,
     AttemptRefused, RuntimeIsFresh, LookAtMatrix, LookAtControl, CoreLands,
     OwnerWindowCloses, LandingWindowCloses, LookForCanaries, ScanSurfaces,
     LookAtScrub, LookForCertificate, Reconcile, ReadEffects, LookVerified,
     BeginWatching, Watching, WatchEnds, LookForIterations, LookWhetherSafe,
     GiveVerdict
<1>3. ~ObserveAgain /\ ~ObservationEnds
  BY DEF ObserveAgain, ObservationEnds
<1>4. CASE Faults
  <2>1. StrangerCalls
    BY <1>4 DEF Faults, ConfirmationLost, AttemptLost, LookAtMatrixInOutage,
       ScanInOutage, RuntimeIsStale
  <2>2. QED
    BY <2>1 DEF StrangerCalls, OffScript, InIncident, InSeals, InCircle,
       InCohort, watching
<1>5. CASE World
  BY <1>5 DEF World, Lands, CohortLands, CohortStripped, Schedules,
     OthersRun, TimePasses, OldCertificate, OffScript, InIncident, InCohort,
     InCrank, InWatch, Iterate, OtherTaskRuns, watching
<1>6. QED
  BY <1>1, <1>2, <1>3, <1>4, <1>5 DEF DriverNext

(* How often something went wrong is never forgotten.                      *)
LEMMA TroubleSteps ==
  ASSUME trouble \in Nat, [DriverNext]_driverVars
  PROVE  /\ trouble' \in Nat
         /\ trouble <= Most => trouble' <= Most
         /\ trouble' = 0 => trouble = 0 /\ ~LookAtMatrixInOutage
<1> USE DEF Advance, Throw, Note, OffScript
<1>0. Most \in Nat
  BY DriversAssumption
<1>1. CASE UNCHANGED trouble /\ ~LookAtMatrixInOutage
  BY <1>1
<1>2. CASE trouble < Most /\ trouble' = trouble + 1
  BY <1>0, <1>2
<1>3. CASE Troubled /\ ~LookAtMatrixInOutage
  <2>1. \/ UNCHANGED trouble
        \/ trouble < Most /\ trouble' = trouble + 1
    BY <1>3 DEF Troubled
  <2>2. QED
    BY <1>0, <1>3, <2>1
<1>4. LookAtMatrixInOutage => trouble < Most /\ trouble' = trouble + 1
  BY DEF LookAtMatrixInOutage
<1>5. \/ UNCHANGED trouble
      \/ trouble < Most /\ trouble' = trouble + 1
      \/ Troubled
  <2>1. CASE UNCHANGED driverVars
    BY <2>1 DEF driverVars, runVars
  <2>2. CASE \/ Send \/ SendIdempotent \/ SendRefused \/ ConfirmationLost
             \/ AttemptSucceeds \/ AttemptRefused \/ AttemptLost
    BY <2>2 DEF Send, SendIdempotent, SendRefused, ConfirmationLost,
       AttemptSucceeds, AttemptRefused, AttemptLost
  <2>3. CASE \/ RuntimeIsFresh \/ LookAtMatrix \/ LookAtControl \/ CoreLands
             \/ OwnerWindowCloses \/ LandingWindowCloses
             \/ LookForCanaries \/ ScanSurfaces \/ LookAtScrub
             \/ LookForCertificate \/ Reconcile \/ ReadEffects
             \/ LookVerified
    BY <2>3 DEF RuntimeIsFresh, LookAtMatrix, LookAtControl, CoreLands,
       OwnerWindowCloses, LandingWindowCloses, LookForCanaries,
       ScanSurfaces, LookAtScrub, LookForCertificate, Reconcile,
       ReadEffects, LookVerified
  <2>4. CASE \/ BeginWatching \/ Watching \/ WatchEnds \/ LookForIterations
             \/ LookWhetherSafe \/ GiveVerdict \/ ObserveAgain
             \/ ObservationEnds \/ Rerun
    BY <2>4 DEF BeginWatching, Watching, WatchEnds, LookForIterations,
       LookWhetherSafe, GiveVerdict, ObserveAgain, ObservationEnds, Rerun
  <2>5. CASE LookAtMatrixInOutage \/ ScanInOutage \/ RuntimeIsStale
             \/ StrangerCalls
    BY <2>5 DEF LookAtMatrixInOutage, ScanInOutage, RuntimeIsStale,
       StrangerCalls
  <2>6. CASE World
    BY <2>6 DEF World, Lands, CohortLands, CohortStripped, Schedules,
       OthersRun, TimePasses, OldCertificate
  <2>7. QED
    BY <2>1, <2>2, <2>3, <2>4, <2>5, <2>6 DEF DriverNext, Steps, Faults
<1>6. QED
  BY <1>1, <1>2, <1>3, <1>4, <1>5

-----------------------------------------------------------------------------
(* What VerdictIsEarned rests on, one part for each thing a verdict looks  *)
(* at.  A verdict that was given is the one its script gives.              *)
GivenInv ==
  \/ outcome \in {"none", "thrown", "BLOCKED_STALE_RUNTIME"}
  \/ outcome = Verdict /\ Current.do = "verdict"

LEMMA VerdictStays ==
  ASSUME UNCHANGED <<script, pc, seen, watch>>
  PROVE  Verdict' = Verdict /\ Current' = Current
<1>1. ReadMatrix' = ReadMatrix
  BY DEF ReadMatrix
<1>2. LocalVerdict' = LocalVerdict
  BY <1>1 DEF LocalVerdict, PeersBlind, ForeignBallots
<1>3. PerVerdict' = PerVerdict
  BY <1>1 DEF PerVerdict, PeersBlind, ForeignBallots
<1>4. CompositionVerdict' = CompositionVerdict
  BY DEF CompositionVerdict
<1>5. ExpiryVerdict' = ExpiryVerdict
  BY DEF ExpiryVerdict
<1>6. Verdict' = Verdict
  BY <1>2, <1>3, <1>4, <1>5, Zenon DEF Verdict
<1>7. Current' = Current
  BY DEF Current
<1>8. QED
  BY <1>6, <1>7

LEMMA GivenKept ==
  ASSUME GivenInv, [DriverNext]_driverVars
  PROVE  GivenInv'
<1>1. CASE Running
  <2>1. CASE GiveVerdict
    <3>1. UNCHANGED <<script, pc, seen, watch>> /\ outcome' = Verdict
          /\ Current.do = "verdict"
      BY <2>1 DEF GiveVerdict, Looking, Untouched, watching
    <3>2. QED
      BY <3>1, VerdictStays DEF GivenInv
  <2>2. CASE ~GiveVerdict
    <3>1. outcome' \in {"none", "thrown", "BLOCKED_STALE_RUNTIME"}
      BY <1>1, <2>2, RunSteps DEF Running, RuntimeIsStale, Goes, Rerun,
         ObserveAgain, LookWhetherSafe
    <3>2. QED
      BY <3>1 DEF GivenInv
  <2>3. QED
    BY <2>1, <2>2
<1>2. CASE ~Running
  <2>1. CASE Rerun
    BY <2>1 DEF Rerun, GivenInv
  <2>2. CASE UNCHANGED <<script, pc, outcome, seen, watch>>
    BY <2>2, VerdictStays DEF GivenInv
  <2>3. QED
    BY <1>2, <2>1, <2>2, Rests
<1>3. QED
  BY <1>1, <1>2

(* A core that was seen came home, where it stays; and one that was seen   *)
(* settled is seen as it is.                                               *)
HomeInv ==
  seen.view # NoView =>
    /\ Passed(Homes) /\ coreAt = "base"
    /\ seen.view.status \in Terminal => seen.view = View

LEMMA HomeKept ==
  ASSUME AtStep, TypeOK, DOMAIN seen = Fields, HomeInv,
         [DriverNext]_driverVars
  PROVE  HomeInv'
<1>1. CASE seen'.view = seen.view /\ ~Rerun /\ seen.view # NoView
  <2>1. Passed(Homes) /\ coreAt = "base"
    BY <1>1 DEF HomeInv
  <2>2. Current.do \notin Moving /\ ~ObserveAgain
    BY <2>1, PassedObserving
  <2>3. Passed(Homes)' /\ coreAt' = "base"
    BY <1>1, <2>1, <2>2, PassedStays, IncidentSteps DEF Moving
  <2>4. ASSUME seen.view.status \in Terminal
        PROVE  seen'.view = View'
    <3>1. seen.view = View
      BY <1>1, <2>4 DEF HomeInv
    <3>2. IsTerminal
      BY <2>4, <3>1 DEF View, IsTerminal
    <3>3. UNCHANGED core
      BY <3>2, IncidentKept
    <3>4. View' = View
      BY <3>3 DEF View
    <3>5. QED
      BY <1>1, <3>1, <3>4
  <2>5. QED
    BY <1>1, <2>3, <2>4 DEF HomeInv
<1>2. CASE seen'.view = NoView
  BY <1>2 DEF HomeInv
<1>3. CASE CoreLands /\ seen'.view = View
  <2>1. Goes /\ Current.do \in Homes
    BY <1>3 DEF CoreLands, Looking, Note, Advance, Goes, Homes
  <2>2. coreAt = "base" /\ UNCHANGED <<core, coreAt>>
    BY <1>3 DEF CoreLands, Looking, Untouched, chainVars, vars, places
  <2>3. View' = View
    BY <2>2 DEF View
  <2>4. Passed(Homes)'
    BY <2>1, PassedBy
  <2>5. QED
    BY <1>3, <2>2, <2>3, <2>4 DEF HomeInv
<1>4. Rerun => seen'.view = NoView
  BY DEF Rerun, Blank
<1>5. QED
  BY <1>1, <1>2, <1>3, <1>4, SeenSteps DEF Seeing, Keeps, Sees

(* Where the service serves everybody, phase4-local read everything unless *)
(* something went wrong, and phase4-per read all but one, or nothing.      *)
MatrixInv ==
  ~enforced =>
    /\ script = "local" /\ trouble = 0 /\ Passed({"matrix"}) =>
         seen.matrix = ReadMatrix
    /\ script = "per" =>
         \/ seen.matrix = {}
         \/ \E r : ReadMatrix \ {r} \subseteq seen.matrix

(* A step that looks is passed by looking.                                 *)
LEMMA NotSent ==
  ASSUME AtStep, Goes, [DriverNext]_driverVars,
         Current.do \in {"matrix", "landed", "suspendCapability"}
  PROVE  /\ Current.do = "matrix" => LookAtMatrix \/ LookAtMatrixInOutage
         /\ Current.do = "landed" => CoreLands
         /\ Current.do = "suspendCapability" => Call(Current)
<1>1. Current.mode # "refused"
  <2>1. Current.do \notin RefusalDos \cup {"attestsAfterwards"}
    BY DEF RefusalDos
  <2>2. QED
    BY <2>1, CurrentIs DEF Aimed
<1>2. pc' # pc
  BY CurrentIs DEF Goes
<1>3. ~AlreadyThere(Current)
  BY DEF AlreadyThere
<1>4. Call(Current) => Current.do = "suspendCapability"
  BY DEF Call, InCircle, InIncident, InSeals, InCrank, InCohort,
     FormationCall, IncidentCall, SealCall, CrankCall, CohortCall, MarketCall
<1> USE DEF Advance, Throw, Note
<1>5. CASE Send \/ SendIdempotent \/ SendRefused \/ ConfirmationLost
  BY <1>2, <1>3, <1>4, <1>5 DEF Send, SendIdempotent, SendRefused,
     ConfirmationLost
<1>6. ~AttemptSucceeds /\ ~AttemptRefused /\ ~AttemptLost
  BY <1>1 DEF AttemptSucceeds, AttemptRefused, AttemptLost, Trying
<1>7. /\ ~RuntimeIsFresh /\ ~LookAtControl /\ ~OwnerWindowCloses
      /\ ~LookForCanaries /\ ~ScanSurfaces /\ ~LookAtScrub
      /\ ~LookForCertificate /\ ~Reconcile /\ ~ReadEffects /\ ~LookVerified
      /\ ~WatchEnds /\ ~LookForIterations /\ ~LookWhetherSafe /\ ~GiveVerdict
      /\ ~ObserveAgain /\ ~ObservationEnds /\ ~ScanInOutage
      /\ ~RuntimeIsStale /\ ~BeginWatching
  BY DEF Looking, RuntimeIsFresh, LookAtControl, OwnerWindowCloses,
     LookForCanaries, ScanSurfaces, LookAtScrub, LookForCertificate,
     Reconcile, ReadEffects, LookVerified, WatchEnds, LookForIterations,
     LookWhetherSafe, GiveVerdict, ObserveAgain, ObservationEnds,
     ScanInOutage, RuntimeIsStale, BeginWatching
<1>8. /\ ~LandingWindowCloses /\ ~Watching /\ ~Rerun /\ ~StrangerCalls
      /\ ~UNCHANGED driverVars
  BY <1>2 DEF LandingWindowCloses, Watching, Rerun, Goes, Running,
     StrangerCalls, OffScript, driverVars, runVars
<1>9. ~World
  BY <1>2 DEF World, Lands, CohortLands, CohortStripped, Schedules,
     OthersRun, TimePasses, OldCertificate, OffScript
<1>10. CASE LookAtMatrix \/ LookAtMatrixInOutage
  BY <1>10 DEF LookAtMatrix, LookAtMatrixInOutage, Looking
<1>11. CASE CoreLands
  BY <1>11 DEF CoreLands, Looking
<1>12. QED
  BY <1>5, <1>6, <1>7, <1>8, <1>9, <1>10, <1>11 DEF DriverNext, Steps, Faults

LEMMA MatrixKept ==
  ASSUME AtStep, DOMAIN seen = Fields, trouble \in Nat, MatrixInv,
         [DriverNext]_driverVars
  PROVE  MatrixInv'
<1>1. /\ UNCHANGED <<script, enforced>>
      /\ trouble' = 0 => trouble = 0 /\ ~LookAtMatrixInOutage
  BY RunSteps, TroubleSteps
<1>2. ReadMatrix' = ReadMatrix
  BY <1>1 DEF ReadMatrix
<1>3. ~enforced => Readable = ReadMatrix
  BY DEF Readable, MayRead
<1>4. ASSUME ~enforced, script = "local", trouble' = 0, Passed({"matrix"})'
      PROVE  seen'.matrix = ReadMatrix
  <2>1. CASE Passed({"matrix"})
    <3>1. seen.matrix = ReadMatrix
      BY <1>1, <1>4, <2>1 DEF MatrixInv
    <3>2. ~Rerun
      BY <1>4 DEF Rerun, Passed
    <3>3. QED
      BY <1>1, <1>3, <1>4, <3>1, <3>2, SeenSteps DEF Seeing, Keeps, Sees
  <2>2. CASE Goes /\ Current.do = "matrix"
    <3>1. LookAtMatrix
      BY <1>1, <1>4, <2>2, NotSent
    <3>2. seen' = [seen EXCEPT !.matrix = Readable]
      BY <3>1 DEF LookAtMatrix, Note
    <3>3. seen'.matrix = Readable
      BY <3>2 DEF Fields
    <3>4. QED
      BY <1>3, <1>4, <3>3
  <2>3. ~LookWhetherSafe
    <3>1. "safe" \notin Dos(Program[script])
      BY <1>4, ScriptsAre DEF AtStep
    <3>2. Current.do # "safe"
      BY <3>1, CurrentIs DEF Dos
    <3>3. QED
      BY <3>2 DEF LookWhetherSafe, Looking
  <2>4. QED
    BY <1>4, <2>1, <2>2, <2>3, PassedNow
<1>5. ASSUME ~enforced, script = "per"
      PROVE  \/ seen'.matrix = {}
             \/ \E r : ReadMatrix \ {r} \subseteq seen'.matrix
  <2>1. CASE seen'.matrix = seen.matrix
    BY <1>5, <2>1 DEF MatrixInv
  <2>2. ASSUME NEW lost \in {ReadMatrix} \cup {{r} : r \in Readable},
               seen'.matrix = Readable \ lost
        PROVE  \/ seen'.matrix = {}
               \/ \E r : ReadMatrix \ {r} \subseteq seen'.matrix
    BY <1>3, <1>5, <2>2
  <2>3. CASE seen'.matrix = Readable
    BY <1>3, <1>5, <2>3
  <2>4. CASE seen'.matrix = {}
    BY <2>4
  <2>5. QED
    BY <2>1, <2>2, <2>3, <2>4, SeenSteps DEF Seeing, Keeps, Sees
<1>6. QED
  BY <1>1, <1>2, <1>4, <1>5 DEF MatrixInv

(* phase6 looks at the scrub once it saw the core at home.                 *)
ScrubInv ==
  script = "expire" =>
    /\ Passed({"landed"}) /\ pc < Len(Program[script]) =>
         seen.view # NoView
    /\ seen.scrub => seen.view # NoView

LEMMA ScrubKept ==
  ASSUME AtStep, TypeOK, DOMAIN seen = Fields, ScrubInv,
         [DriverNext]_driverVars
  PROVE  ScrubInv'
<1> SUFFICES ASSUME script = "expire"
             PROVE  /\ Passed({"landed"})' /\ pc' < Len(Program[script]) =>
                         seen'.view # NoView
                    /\ seen'.scrub => seen'.view # NoView
  BY RunSteps DEF ScrubInv
<1>1. ~Rerun
  BY DEF Rerun, Rerunnable
<1>2. ~OwnerWindowCloses
  <2>1. "owner" \notin Dos(Program[script])
    BY ScriptsAre DEF AtStep
  <2>2. Current.do # "owner"
    BY <2>1, CurrentIs DEF Dos
  <2>3. QED
    BY <2>2 DEF OwnerWindowCloses, Looking
<1>3. View # NoView
  BY DEF View, NoView, TypeOK, Cores, Statuses
<1>4. seen.view # NoView => seen'.view # NoView
  BY <1>1, <1>2, <1>3, SeenSteps DEF Seeing, Keeps, Sees
<1>5. ASSUME Passed({"landed"})', pc' < Len(Program[script])
      PROVE  seen'.view # NoView
  <2>1. CASE Goes /\ Current.do = "landed"
    <3>1. CoreLands
      BY <2>1, NotSent
    <3>2. seen' = [seen EXCEPT !.view = View]
      BY <3>1 DEF CoreLands, Note
    <3>3. seen'.view = View
      BY <3>2 DEF Fields
    <3>4. QED
      BY <1>3, <3>3
  <2>2. CASE Passed({"landed"})
    <3>1. ~ObserveAgain
      BY <2>2, PassedObserving DEF Passed, Homes
    <3>2. pc < Len(Program[script])
      BY <1>1, <1>5, <3>1, RunSteps, CurrentIs DEF Goes, LookWhetherSafe
    <3>3. QED
      BY <1>4, <2>2, <3>2 DEF ScrubInv
  <2>3. CASE LookWhetherSafe /\ ~Passed({"landed"})
    <3>1. Current.do = "safe" /\ UNCHANGED script
          /\ (pc' = pc + 1 \/ pc' = Len(Program[script]))
      BY <2>3 DEF LookWhetherSafe, Looking
    <3>2. pc' = pc + 1
      BY <1>5, <3>1, CurrentIs
    <3>3. PICK i \in 1..(pc' - 1) : Program[script][i].do = "landed"
      BY <1>5, <3>1 DEF Passed
    <3>4. i # pc
      BY <3>1, <3>3, CurrentIs
    <3>5. i \in 1..(pc - 1)
      BY <3>2, <3>3, <3>4, CurrentIs
    <3>6. QED
      BY <2>3, <3>3, <3>5 DEF Passed
  <2>4. QED
    BY <1>5, <2>1, <2>2, <2>3, PassedNow
<1>6. ASSUME seen'.scrub PROVE seen'.view # NoView
  <2>1. CASE seen.scrub /\ seen'.scrub = seen.scrub
    BY <1>4, <2>1 DEF ScrubInv
  <2>2. CASE LookAtScrub /\ seen'.view = seen.view
    <3>1. Precedes(Program[script], {"landed"}, {"scrubHeld"})
      BY ScriptsAre DEF AtStep
    <3>2. Current.do = "scrubHeld"
      BY <2>2 DEF LookAtScrub, Looking
    <3>3. PICK i \in DOMAIN Program[script] :
            i < pc /\ Program[script][i].do \in {"landed"}
      BY <3>1, <3>2, CurrentIs DEF Precedes
    <3>4. Passed({"landed"})
      BY <3>3, CurrentIs DEF Passed
    <3>5. pc < Len(Program[script])
      BY <3>2, CurrentIs
    <3>6. QED
      BY <2>2, <3>4, <3>5 DEF ScrubInv
  <2>3. QED
    BY <1>1, <1>6, <2>1, <2>2, SeenSteps DEF Seeing, Keeps, Sees
<1>7. QED
  BY <1>5, <1>6

-----------------------------------------------------------------------------
(* The cohort and what it settles.                                         *)
SettlingTypes ==
  /\ DOMAIN receipt = Members /\ DOMAIN cohort = {"phase", "adapters"}
  /\ DOMAIN registered = Members
  /\ DOMAIN capability = Members
  /\ \A m \in Members : "suspended" \in DOMAIN capability[m]

LEMMA SettlingSteps ==
  ASSUME AtStep, [DriverNext]_driverVars
  PROVE  \/ UNCHANGED settling
         \/ Running /\ CohortCall(Current)
         \/ CohortLands \/ CohortStripped
         \/ Cohort!FinalizeSettlement
         \/ \E a \in Members : Cohort!ExecuteDirectly(a)
<1>1. CASE UNCHANGED <<chainVars, watching>>
  BY <1>1 DEF chainVars
<1>2. CASE Sends
  <2>1. CASE Call(Current)
    <3>1. CASE InCohort(CohortCall(Current))
      BY <1>2, <3>1 DEF Sends, InCohort
    <3>2. QED
      BY <2>1, <3>1 DEF Call, InCircle, InIncident, InSeals, InCrank,
         MarketCall
  <2>2. QED
    BY <1>2, <2>1 DEF Sends, Attempt, InIncident
<1>3. CASE BeginWatching \/ Watching
  BY <1>3 DEF BeginWatching, Watching, InWatch
<1>4. CASE \/ Lands \/ Schedules \/ OthersRun \/ TimePasses
           \/ OldCertificate
  BY <1>4 DEF Lands, Schedules, OthersRun, TimePasses, OldCertificate,
     InIncident, InCrank, InWatch
<1>5. CASE StrangerCalls
  BY <1>5 DEF StrangerCalls, InIncident, InSeals, InCircle, InCohort
<1>6. QED
  BY <1>1, <1>2, <1>3, <1>4, <1>5, ChainSteps DEF World

(* Receipts and the settlement only go forward, an operation and a cohort  *)
(* come from one another, and a cohort is applied by landing.              *)
LEMMA SettlingGoes ==
  ASSUME AtStep, SettlingTypes, [DriverNext]_driverVars
  PROVE  /\ DOMAIN receipt' = Members
         /\ DOMAIN cohort' = {"phase", "adapters"}
         /\ \A m \in Members :
              receipt[m] = "executed" => receipt'[m] = "executed"
         /\ settlement = "final" => settlement' = "final"
         /\ operation'.place # "none" =>
              \/ operation.place # "none" \/ cohort.phase # "none"
              \/ certificate.issued
         /\ \/ cohort'.phase = cohort.phase /\ cohort' = cohort
            \/ /\ Running /\ Current.do = "scheduleSettlementCohort"
               /\ operation.place # "none"
               /\ cohort'.phase = "pending" /\ cohort'.adapters = Members
            \/ /\ CohortStripped /\ cohort.phase = "pending"
               /\ cohort'.phase = "stripped"
               /\ cohort'.adapters = cohort.adapters
            \/ /\ CohortLands /\ cohort.phase = "pending"
               /\ cohort'.phase = "applied"
               /\ cohort'.adapters = cohort.adapters
<1> USE DEF SettlingTypes
<1>1. CASE UNCHANGED settling
  BY <1>1 DEF settling
<1>2. CASE CohortCall(Current) /\ Running
  <2>1. CASE Cohort!InitializeSettlementReceipt
    BY <2>1 DEF Cohort!InitializeSettlementReceipt
  <2>2. CASE Cohort!InitializeAdapterReceipt(Current.of)
    BY <2>2 DEF Cohort!InitializeAdapterReceipt
  <2>3. CASE Cohort!InitializeOperation(Current.of)
    BY <2>3 DEF Cohort!InitializeOperation
  <2>4. CASE Cohort!DelegateOperation
    BY <2>4 DEF Cohort!DelegateOperation
  <2>5. CASE /\ Current.do = "scheduleSettlementCohort"
             /\ Cohort!ScheduleSettlementCohort(Current.of)
    <3>1. Current.of = Members
      BY <2>5, CurrentIs DEF Aimed
    <3>2. /\ operation.place = "er"
          /\ cohort' = [phase |-> "pending", adapters |-> Members]
          /\ UNCHANGED <<settlement, receipt>>
      BY <2>5, <3>1 DEF Cohort!ScheduleSettlementCohort, Cohort!AcceptIntent
    <3>3. QED
      BY <1>2, <2>5, <3>2
  <2>6. QED
    BY <1>2, <2>1, <2>2, <2>3, <2>4, <2>5 DEF CohortCall
<1>3. CASE CohortLands
  <2>1. Cohort!LandCohort
    BY <1>3 DEF CohortLands, InCohort
  <2>2. /\ cohort.phase = "pending"
        /\ cohort' = [cohort EXCEPT !.phase = "applied"]
        /\ settlement' = "final"
        /\ receipt' = [a \in Members |-> IF a \in cohort.adapters
                                         THEN "executed" ELSE receipt[a]]
    BY <2>1 DEF Cohort!LandCohort, Cohort!ExecuteAll
  <2>3. QED
    BY <1>3, <2>2
<1>4. CASE CohortStripped
  <2>1. Cohort!LandStripped
    BY <1>4 DEF CohortStripped, InCohort
  <2>2. /\ cohort.phase = "pending"
        /\ cohort' = [cohort EXCEPT !.phase = "stripped"]
        /\ UNCHANGED <<settlement, receipt>>
    BY <2>1 DEF Cohort!LandStripped
  <2>3. QED
    BY <1>4, <2>2
<1>5. CASE Cohort!FinalizeSettlement
  BY <1>5 DEF Cohort!FinalizeSettlement
<1>6. ASSUME NEW a \in Members, Cohort!ExecuteDirectly(a)
      PROVE  /\ UNCHANGED <<settlement, operation, cohort>>
             /\ DOMAIN receipt' = Members
             /\ \A m \in Members :
                  receipt[m] = "executed" => receipt'[m] = "executed"
  BY <1>6 DEF Cohort!ExecuteDirectly, Cohort!ExecuteAll
<1>7. QED
  BY <1>1, <1>2, <1>3, <1>4, <1>5, <1>6, SettlingSteps

(* A certificate, once issued, stays so.                                   *)
LEMMA IssuedStays ==
  ASSUME AtStep, [DriverNext]_driverVars, certificate.issued
  PROVE  certificate'.issued
<1>1. CASE [Next]_vars
  <2>1. CASE PublishCertificate
    BY <2>1 DEF PublishCertificate
  <2>2. QED
    BY <1>1, <2>1, CertificateSteps
<1>2. CASE OlderBuild
  BY <1>2 DEF OlderBuild
<1>3. QED
  BY <1>1, <1>2, IncidentSteps

(* What was read of the effects is so, and what was made of it.            *)
ClassInv ==
  /\ operation.place # "none" \/ cohort.phase # "none" => certificate.issued
  /\ seen.effects.final => settlement = "final"
  /\ \A a \in seen.effects.executed \cap Members : receipt[a] = "executed"
  /\ seen.class = "ALL_ACTIONS_APPLIED" => Settled3
  /\ seen.class = "COMMIT_WITHOUT_ACTIONS" => certificate.issued

LEMMA Classes ==
  ASSUME NEW e, NEW committed
  PROVE  /\ Classify(e, committed) = "ALL_ACTIONS_APPLIED"
              => e.final /\ Members \subseteq e.executed
         /\ Classify(e, committed) = "COMMIT_WITHOUT_ACTIONS" => committed
BY DEF Classify

LEMMA ClassKept ==
  ASSUME AtStep, DOMAIN seen = Fields, SettlingTypes, ClassInv,
         [DriverNext]_driverVars
  PROVE  ClassInv'
<1>1. certificate.issued => certificate'.issued
  BY IssuedStays
<1>2. operation'.place # "none" \/ cohort'.phase # "none"
        => certificate'.issued
  BY <1>1, SettlingGoes DEF ClassInv
<1>3. Settled3 => Settled3'
  BY SettlingGoes DEF Settled3
<1>4. Effects.final => settlement = "final"
  BY DEF Effects
<1>5. \A a \in Effects.executed : a \in Members /\ receipt[a] = "executed"
  BY DEF Effects
<1>6. /\ seen'.effects.final => settlement' = "final"
      /\ \A a \in seen'.effects.executed \cap Members :
           receipt'[a] = "executed"
  <2>1. CASE seen'.effects = seen.effects
    BY <2>1, SettlingGoes DEF ClassInv
  <2>2. CASE seen'.effects = Effects
    BY <1>4, <1>5, <2>2, SettlingGoes
  <2>3. CASE seen'.effects = NoEffects
    BY <2>3 DEF NoEffects
  <2>4. QED
    BY <2>1, <2>2, <2>3, SeenSteps DEF Seeing, Keeps, Sees
<1>7. /\ seen'.class = "ALL_ACTIONS_APPLIED" => Settled3
      /\ seen'.class = "COMMIT_WITHOUT_ACTIONS" => certificate.issued
  <2>1. CASE seen'.class = seen.class
    BY <2>1 DEF ClassInv
  <2>2. CASE seen'.class = "none"
    BY <2>2
  <2>3. CASE seen'.class = Classify(Effects, certificate.issued)
    BY <1>4, <1>5, <2>3, Classes DEF Settled3
  <2>4. CASE seen'.class = Classify(seen.effects, operation.place = "base")
    <3>1. PICK c \in BOOLEAN : /\ c => operation.place = "base"
                               /\ seen'.class = Classify(seen.effects, c)
      BY <2>4
    <3>2. QED
      BY <3>1, Classes DEF Settled3, ClassInv
  <2>5. QED
    BY <2>1, <2>2, <2>3, <2>4, SeenSteps DEF Seeing, Keeps, Sees
<1>8. QED
  BY <1>1, <1>2, <1>3, <1>6, <1>7 DEF ClassInv

(* A script's calls are the only ones that register and authorize.         *)
LEMMA GrantSteps ==
  ASSUME AtStep, [DriverNext]_driverVars
  PROVE  /\ UNCHANGED registered \/ MarketCall(Current)
         /\ UNCHANGED capability \/ FormationCall(Current)
<1>1. CASE UNCHANGED <<chainVars, watching>>
  BY <1>1 DEF chainVars, circle
<1>2. CASE Sends
  <2>1. CASE Call(Current)
    BY <2>1 DEF Call, InCircle, InIncident, InSeals, InCrank, InCohort,
       MarketCall, circle, Circle!InitializeIncident
  <2>2. QED
    BY <1>2, <2>1 DEF Sends, Attempt, InIncident, circle
<1>3. CASE BeginWatching \/ Watching
  BY <1>3 DEF BeginWatching, Watching, InWatch, circle
<1>4. CASE World
  BY <1>4 DEF World, Lands, CohortLands, CohortStripped, Schedules,
     OthersRun, TimePasses, OldCertificate, InIncident, InCrank, InWatch,
     InCohort, circle
<1>5. CASE StrangerCalls
  BY <1>5 DEF StrangerCalls, InIncident, InSeals, InCircle, InCohort,
     circle, Circle!RatifyCovenant, Circle!ArmCovenant
<1>6. QED
  BY <1>1, <1>2, <1>3, <1>4, <1>5, ChainSteps

LEMMA RegisteredGoes ==
  ASSUME AtStep, SettlingTypes, [DriverNext]_driverVars
  PROVE  /\ DOMAIN registered' = Members
         /\ registered[gamma] # "signer" =>
              \/ registered'[gamma] # "signer"
              \/ Current.do = "setAdapter" /\ Current.of = gamma
<1> USE DEF SettlingTypes
<1>1. gamma \in Members
  BY MembersAre
<1>2. CASE UNCHANGED registered
  BY <1>2
<1>3. CASE MarketCall(Current)
  <2>1. PICK v : /\ registered' = [registered EXCEPT ![Current.of] = v]
                 /\ v = "unset" \/ Current.do = "setAdapter"
    BY <1>3 DEF MarketCall
  <2>2. QED
    BY <1>1, <2>1
<1>4. QED
  BY <1>2, <1>3, GrantSteps

LEMMA CapabilityGoes ==
  ASSUME AtStep, SettlingTypes, [DriverNext]_driverVars
  PROVE  /\ DOMAIN capability' = Members
         /\ \A m \in Members : "suspended" \in DOMAIN capability'[m]
         /\ capability[gamma].suspended =>
              \/ capability'[gamma].suspended
              \/ Current.do \in {"installCapability", "armCapability"}
<1> USE DEF SettlingTypes
<1>1. gamma \in Members
  BY MembersAre
<1>2. CASE UNCHANGED capability
  BY <1>1, <1>2
<1>3. CASE FormationCall(Current)
  <2> DEFINE p == Current.of
  <2>1. CASE /\ Current.do = "installCapability"
             /\ Circle!InstallCapability(p, covenant.member_set)
    <3> DEFINE v == [Circle!NoCapability EXCEPT
                       !.installed = TRUE, !.member_set = covenant.member_set]
    <3>1. "suspended" \in DOMAIN v
      BY DEF Circle!NoCapability
    <3>2. capability' = [capability EXCEPT ![p] = v]
      BY <2>1 DEF Circle!InstallCapability
    <3> HIDE DEF v
    <3>3. QED
      BY <2>1, <3>1, <3>2
  <2>2. CASE Current.do = "armCapability" /\ Circle!ArmCapability(p)
    <3>1. capability' = [capability EXCEPT ![p].armed = TRUE,
                                           ![p].suspended = FALSE]
      BY <2>2 DEF Circle!ArmCapability
    <3>2. DOMAIN capability' = Members
      BY <3>1
    <3>3. \A m \in Members : DOMAIN capability'[m] = DOMAIN capability[m]
      BY <3>1
    <3>4. QED
      BY <2>2, <3>2, <3>3
  <2>3. CASE Current.do = "suspendCapability" /\ Circle!SuspendCapability(p)
    <3>1. capability' = [capability EXCEPT ![p].suspended = TRUE]
      BY <2>3 DEF Circle!SuspendCapability
    <3>2. DOMAIN capability' = Members
      BY <3>1
    <3>3. \A m \in Members : DOMAIN capability'[m] = DOMAIN capability[m]
      BY <3>1
    <3>4. capability[gamma].suspended => capability'[gamma].suspended
      BY <1>1, <3>1
    <3>5. QED
      BY <3>2, <3>3, <3>4
  <2>4. CASE \/ Circle!CreateCovenant(p)
             \/ Circle!AddCovenantMember(p, "Protocol")
             \/ Circle!RatifyCovenantMember(p) \/ Circle!RatifyCovenant(p)
             \/ Circle!ArmCovenantMember(p) \/ Circle!ArmCovenant
    <3>1. UNCHANGED capability
      BY <2>4 DEF Circle!CreateCovenant, Circle!AddCovenantMember,
         Circle!RatifyCovenantMember, Circle!RatifyCovenant,
         Circle!ArmCovenantMember, Circle!ArmCovenant
    <3>2. QED
      BY <1>2, <3>1
  <2>5. QED
    BY <1>3, <2>1, <2>2, <2>3, <2>4 DEF FormationCall
<1>4. QED
  BY <1>2, <1>3, GrantSteps

LEMMA SettlingTypesKept ==
  ASSUME AtStep, SettlingTypes, [DriverNext]_driverVars
  PROVE  SettlingTypes'
BY SettlingGoes, RegisteredGoes, CapabilityGoes DEF SettlingTypes

(* A cohort names every member, and one of which a member's adapter is not *)
(* registered, or its capability is suspended, never lands.                *)
CohortInv ==
  /\ cohort.phase # "none" => cohort.adapters = Members
  /\ script = "fail_one" =>
       registered[gamma] # "signer" /\ cohort.phase # "applied"
  /\ script = "suspend_one" =>
       /\ Passed({"suspendCapability"}) => capability[gamma].suspended
       /\ cohort.phase # "none" => Passed({"suspendCapability"})
       /\ cohort.phase # "applied"

LEMMA CohortKept ==
  ASSUME AtStep, SettlingTypes, CohortInv, [DriverNext]_driverVars
  PROVE  CohortInv'
<1>1. UNCHANGED script
  BY RunSteps
<1>2. gamma \in Members
  BY MembersAre
<1>3. cohort'.phase # "none" => cohort'.adapters = Members
  BY SettlingGoes DEF CohortInv
<1>4. ASSUME CohortLands, cohort.phase = "pending"
      PROVE  registered[gamma] = "signer" /\ ~capability[gamma].suspended
  <2>1. Permitted(gamma)
    BY <1>2, <1>4 DEF CohortLands, CohortInv
  <2>2. QED
    BY <2>1 DEF Permitted
<1>5. ASSUME script = "fail_one"
      PROVE  registered'[gamma] # "signer" /\ cohort'.phase # "applied"
  <2>1. registered[gamma] # "signer" /\ cohort.phase # "applied"
    BY <1>5 DEF CohortInv
  <2>2. ~(Current.do = "setAdapter" /\ Current.of = gamma)
    BY <1>5, ScriptsAre, CurrentIs DEF AtStep, SparesGamma
  <2>3. QED
    BY <1>4, <2>1, <2>2, RegisteredGoes, SettlingGoes
<1>6. ASSUME script = "suspend_one"
      PROVE  /\ Passed({"suspendCapability"})' => capability'[gamma].suspended
             /\ cohort'.phase # "none" => Passed({"suspendCapability"})'
             /\ cohort'.phase # "applied"
  <2>1. /\ Precedes(Program[script], {"suspendCapability"},
                    {"scheduleSettlementCohort"})
        /\ NoneAfter(Program[script], {"suspendCapability"},
                     {"installCapability", "armCapability"})
        /\ "safe" \notin Dos(Program[script])
    BY <1>6, ScriptsAre DEF AtStep
  <2>2. ~LookWhetherSafe /\ ~Rerun
    <3>1. Current.do # "safe"
      BY <2>1, CurrentIs DEF Dos
    <3>2. QED
      BY <1>6, <3>1 DEF LookWhetherSafe, Looking, Rerun, Rerunnable
  <2>3. Passed({"suspendCapability"}) =>
          Current.do \notin {"installCapability", "armCapability"}
    <3>1. ASSUME Passed({"suspendCapability"})
          PROVE  Current.do \notin {"installCapability", "armCapability"}
      <4>1. PICK i \in 1..(pc - 1) :
              Program[script][i].do \in {"suspendCapability"}
        BY <3>1 DEF Passed
      <4>2. i \in DOMAIN Program[script] /\ i <= pc
        BY <4>1, CurrentIs
      <4>3. QED
        BY <2>1, <4>1, <4>2, CurrentIs DEF NoneAfter
    <3>2. QED
      BY <3>1
  <2>4. ASSUME Passed({"suspendCapability"})'
        PROVE  capability'[gamma].suspended
    <3>1. CASE Passed({"suspendCapability"})
      BY <1>6, <2>3, <3>1, CapabilityGoes DEF CohortInv
    <3>2. CASE Goes /\ Current.do = "suspendCapability"
      <4>1. Call(Current) /\ Current.of = gamma
        BY <3>2, NotSent, CurrentIs DEF Aimed
      <4>2. Circle!SuspendCapability(gamma)
        BY <3>2, <4>1 DEF Call, InCircle, InIncident, InSeals, InCrank,
           InCohort, FormationCall, IncidentCall, SealCall, CrankCall,
           CohortCall, MarketCall
      <4>3. capability' = [capability EXCEPT ![gamma].suspended = TRUE]
        BY <4>2 DEF Circle!SuspendCapability
      <4>4. QED
        BY <1>2, <4>3 DEF SettlingTypes
    <3>3. QED
      BY <2>2, <2>4, <3>1, <3>2, PassedNow
  <2>5. ASSUME cohort'.phase # "none"
        PROVE  Passed({"suspendCapability"})'
    <3>1. Passed({"suspendCapability"})
      <4>1. CASE cohort.phase # "none"
        BY <1>6, <4>1 DEF CohortInv
      <4>2. CASE Current.do = "scheduleSettlementCohort"
        <5>1. PICK i \in DOMAIN Program[script] :
                i < pc /\ Program[script][i].do \in {"suspendCapability"}
          BY <2>1, <4>2, CurrentIs DEF Precedes
        <5>2. QED
          BY <5>1, CurrentIs DEF Passed
      <4>3. QED
        BY <2>5, <4>1, <4>2, SettlingGoes
    <3>2. ~ObserveAgain
      <4>1. "checkpoint" \notin Dos(Program[script])
        BY <1>6, ScriptsAre DEF AtStep
      <4>2. Current.do # "checkpoint"
        BY <4>1, CurrentIs DEF Dos
      <4>3. QED
        BY <4>2 DEF ObserveAgain, Looking
    <3>3. QED
      BY <2>2, <3>1, <3>2, PassedStays
  <2>6. cohort'.phase # "applied"
    BY <1>4, <1>6, SettlingGoes DEF CohortInv
  <2>7. QED
    BY <2>4, <2>5, <2>6
<1>7. QED
  BY <1>1, <1>3, <1>5, <1>6 DEF CohortInv

-----------------------------------------------------------------------------
(* All of it together.                                                     *)
VerdictInv ==
  /\ AtStep /\ TypeOK /\ ExitInv /\ WatchInv
  /\ DOMAIN seen = Fields /\ trouble \in Nat /\ SettlingTypes
  /\ GivenInv /\ HomeInv /\ MatrixInv /\ ScrubInv /\ ClassInv /\ CohortInv

LEMMA VerdictStarts == DriverInit => VerdictInv
<1> SUFFICES ASSUME DriverInit PROVE VerdictInv
  OBVIOUS
<1>1. AtStep /\ TypeOK /\ ExitInv /\ WatchInv
  BY StartsWell, WatchStarts
<1>2. /\ seen = Blank /\ pc = 1 /\ outcome = "none" /\ trouble = 0
      /\ receipt = [a \in Members |-> "none"]
      /\ registered = [a \in Members |-> "none"]
      /\ operation = Cohort!NoOperation /\ cohort = Cohort!NoCohort
      /\ capability = [p \in Members |-> Circle!NoCapability]
  BY DEF DriverInit, Circle!CovenantInit
<1>3. /\ DOMAIN Blank = Fields /\ Blank.matrix = {} /\ Blank.view = NoView
      /\ Blank.scrub = FALSE /\ Blank.class = "none"
      /\ Blank.effects = NoEffects
  BY DEF Blank, Fields
<1>4. NoEffects.final = FALSE /\ NoEffects.executed = {}
  BY DEF NoEffects
<1>5. /\ cohort.phase = "none" /\ DOMAIN cohort = {"phase", "adapters"}
      /\ operation.place = "none"
  BY <1>2 DEF Cohort!NoCohort, Cohort!NoOperation
<1>6. SettlingTypes
  BY <1>2, <1>5 DEF SettlingTypes, Circle!NoCapability
<1>7. \A kind : ~Passed(kind)
  BY <1>2 DEF Passed
<1>8. GivenInv /\ HomeInv /\ MatrixInv /\ ScrubInv
  BY <1>2, <1>3, <1>7 DEF GivenInv, HomeInv, MatrixInv, ScrubInv
<1>9. ClassInv
  BY <1>2, <1>3, <1>4, <1>5 DEF ClassInv
<1>10. CohortInv
  BY <1>2, <1>5, <1>7, MembersAre DEF CohortInv
<1>11. DOMAIN seen = Fields /\ trouble \in Nat
  BY <1>2, <1>3
<1>12. QED
  BY <1>1, <1>6, <1>8, <1>9, <1>10, <1>11 DEF VerdictInv

LEMMA VerdictKept ==
  ASSUME Interval < QuietWindow, VerdictInv, [DriverNext]_driverVars
  PROVE  VerdictInv'
<1> USE DEF VerdictInv
<1>1. AtStep' /\ TypeOK' /\ ExitInv' /\ WatchInv'
  BY PcSteps, IncidentKept, WatchKept
<1>2. DOMAIN seen' = Fields /\ trouble' \in Nat /\ SettlingTypes'
  BY SeenSteps, TroubleSteps, SettlingTypesKept DEF Seeing, Keeps, Sees
<1>3. GivenInv' /\ HomeInv' /\ MatrixInv' /\ ScrubInv'
  BY GivenKept, HomeKept, MatrixKept, ScrubKept
<1>4. ClassInv' /\ CohortInv'
  BY ClassKept, CohortKept
<1>5. QED
  BY <1>1, <1>2, <1>3, <1>4

(* Who gives which verdict.                                                *)
LEMMA VerdictIs ==
  /\ script = "local" => Verdict = LocalVerdict
  /\ script = "per" => Verdict = PerVerdict
  /\ script \in {"success", "fail_one", "suspend_one"} =>
       Verdict = CompositionVerdict
  /\ script \in {"expire", "cancel"} => Verdict = ExpiryVerdict
  /\ script \in {"seam", "seam_fail"} => Verdict = seen.class
BY Zenon DEF Verdict

LEMMA VerdictsSay ==
  /\ LocalVerdict \in {"PASS", "FAIL", "READS_NOT_ENFORCED"}
  /\ LocalVerdict = "PASS" => seen.view = Earned /\ PeersBlind
  /\ PerVerdict \in {"PASS", "FAIL"}
  /\ PerVerdict = "PASS" =>
       seen.view = Earned /\ PeersBlind /\ <<alpha, alpha>> \in seen.matrix
  /\ CompositionVerdict \in {"PASS", "FAIL"}
  /\ CompositionVerdict = "PASS" =>
       seen.class = IF script = "success" THEN "ALL_ACTIONS_APPLIED"
                    ELSE "COMMIT_WITHOUT_ACTIONS"
  /\ ExpiryVerdict \in {"PASS", "FAIL"}
  /\ ExpiryVerdict = "PASS" =>
       IF script = "cancel" THEN watch.observation.state = "RemovalObserved"
       ELSE watch.observation.state = "DesiredStateReached" /\ seen.scrub
BY DEF LocalVerdict, PerVerdict, CompositionVerdict, ExpiryVerdict, Fails

(* Two ballots that are read by somebody else.                             *)
LEMMA ForeignReads ==
  /\ <<alpha, beta>> \in ForeignBallots /\ <<beta, alpha>> \in ForeignBallots
  /\ <<alpha, beta>> # <<beta, alpha>> /\ ForeignBallots \subseteq ReadMatrix
<1>1. alpha # beta
  <2>1. Cardinality({alpha, beta, gamma}) = 3
    BY DriversAssumption
  <2>2. IsFiniteSet({gamma}) /\ Cardinality({gamma}) = 1
    BY FS_Singleton
  <2>3. \/ alpha \in {gamma}
        \/ Cardinality({gamma} \cup {alpha}) = 2
    BY <2>2, FS_AddElement
  <2>4. alpha # gamma
    BY MembersDiffer
  <2>5. ASSUME alpha = beta PROVE FALSE
    <3>1. {alpha, beta, gamma} = {gamma} \cup {alpha}
      BY <2>5
    <3>2. QED
      BY <2>1, <2>3, <2>4, <3>1
  <2>6. QED
    BY <2>5
<1>2. alpha \in Members /\ beta \in Members
  BY MembersAre
<1>3. alpha # "nobody" /\ beta # "nobody"
  BY <1>2, DriversAssumption
<1>4. <<alpha, beta>> \in ReadMatrix /\ <<beta, alpha>> \in ReadMatrix
  BY DEF ReadMatrix
<1>5. /\ <<alpha, beta>>[1] = alpha /\ <<alpha, beta>>[2] = beta
      /\ <<beta, alpha>>[1] = beta /\ <<beta, alpha>>[2] = alpha
  OBVIOUS
<1>6. QED
  BY <1>1, <1>2, <1>3, <1>4, <1>5 DEF ForeignBallots

(* A verdict is true of the chain, whatever was lost, repeated, refused or *)
(* done by others on the way, for every script and however often: what is  *)
(* on the chain is what the verdicts of phase3 to phase6 say, also when it *)
(* moves on after they were written.                                       *)
THEOREM VerdictsAreEarned ==
  ASSUME Interval < QuietWindow
  PROVE  DriverSpec => []VerdictIsEarned
<1>1. VerdictInv => VerdictIsEarned
  <2> SUFFICES ASSUME VerdictInv PROVE VerdictIsEarned
    OBVIOUS
  <2> USE DEF VerdictInv
  <2>1. leaked = {}
    BY DEF ExitInv, NothingPrivateOnBase
  <2>2. outcome \in {"PASS", "ALL_ACTIONS_APPLIED"} =>
          outcome = Verdict /\ Current.do = "verdict"
    BY DEF GivenInv
  <2>3. seen.view = Earned => View = Earned /\ coreAt = "base"
    BY DEF HomeInv, NoView, Earned, Terminal
  <2>4. ASSUME outcome = "PASS", script \in {"local", "per"}
        PROVE  seen.view = Earned /\ PeersBlind
    BY <2>2, <2>4, VerdictIs, VerdictsSay
  <2>5. outcome = "PASS" /\ script \in {"local", "per"} =>
          View = Earned /\ coreAt = "base" /\ leaked = {}
    BY <2>1, <2>3, <2>4
  <2>6. outcome = "PASS" /\ script = "success" => Settled3 /\ leaked = {}
    BY <2>1, <2>2, VerdictIs, VerdictsSay DEF ClassInv
  <2>7. outcome = "PASS" /\ script \in {"fail_one", "suspend_one"} =>
          certificate.issued /\ cohort.phase # "applied"
    BY <2>2, VerdictIs, VerdictsSay DEF ClassInv, CohortInv
  <2>8. outcome = "PASS" /\ script = "expire" =>
          IsTerminal /\ coreAt = "base" /\ leaked = {}
    BY <2>1, <2>2, VerdictIs, VerdictsSay
    DEF WatchInv, ConcludedInv, ScrubInv, HomeInv
  <2>9. outcome = "PASS" /\ script = "cancel" => task = 0
    BY <2>2, VerdictIs, VerdictsSay DEF WatchInv, ConcludedInv
  <2>10. outcome = "ALL_ACTIONS_APPLIED" => Settled3
    <3>1. script \in {"local", "per", "success", "fail_one", "suspend_one",
                      "expire", "cancel", "seam", "seam_fail"}
      BY ScriptsAre DEF AtStep
    <3>2. QED
      BY <2>2, <3>1, VerdictIs, VerdictsSay DEF ClassInv
  <2>11. SealsAreSeen
    <3> SUFFICES ASSUME outcome = "PASS", script \in {"local", "per"},
                        ~enforced, script = "local" => trouble = 0
                 PROVE  FALSE
      BY DEF SealsAreSeen
    <3>1. PeersBlind
      BY <2>4
    <3>2. \A r \in ForeignBallots : r \notin seen.matrix
      BY <3>1 DEF PeersBlind
    <3>3. CASE script = "local"
      <4>1. Precedes(Program[script], {"matrix"}, {"verdict"})
        BY <3>3, ScriptsAre DEF AtStep
      <4>2. PICK i \in DOMAIN Program[script] :
              i < pc /\ Program[script][i].do \in {"matrix"}
        BY <2>2, <4>1, CurrentIs DEF Precedes
      <4>3. Passed({"matrix"})
        BY <4>2, CurrentIs DEF Passed
      <4>4. seen.matrix = ReadMatrix
        BY <3>3, <4>3 DEF MatrixInv
      <4>5. QED
        BY <3>2, <4>4, ForeignReads
    <3>4. CASE script = "per"
      <4>1. <<alpha, alpha>> \in seen.matrix
        BY <2>2, <3>4, VerdictIs, VerdictsSay
      <4>2. PICK r : ReadMatrix \ {r} \subseteq seen.matrix
        BY <3>4, <4>1 DEF MatrixInv
      <4>3. QED
        BY <3>2, <4>2, ForeignReads
    <3>5. QED
      BY <3>3, <3>4
  <2>12. QED
    BY <2>5, <2>6, <2>7, <2>8, <2>9, <2>10, <2>11 DEF VerdictIsEarned
<1>2. VerdictInv /\ [DriverNext]_driverVars => VerdictInv'
  BY VerdictKept
<1>3. QED
  BY <1>1, <1>2, VerdictStarts, PTL DEF DriverSpec
-----------------------------------------------------------------------------
(* What is done to the covenant in a run is done by its handlers.          *)
LEMMA CircleCalls ==
  ASSUME NEW s, Aimed(s), FormationCall(s),
         covenant.member_set \subseteq Members
  PROVE  Circle!CovenantNext
<1>1. CASE s.do = "createCovenant" /\ Circle!CreateCovenant(s.of)
  BY <1>1 DEF Aimed, Circle!CovenantNext
<1>2. CASE /\ s.do = "addCovenantMember"
           /\ Circle!AddCovenantMember(s.of, "Protocol")
  <2>1. s.of \in Members /\ "Protocol" \in Circle!Roles
    BY <1>2 DEF Aimed, Circle!Roles
  <2>2. QED
    BY <1>2, <2>1 DEF Circle!CovenantNext
<1>3. CASE \/ s.do = "ratifyCovenantMember" /\ Circle!RatifyCovenantMember(s.of)
           \/ s.do = "armCovenantMember" /\ Circle!ArmCovenantMember(s.of)
           \/ s.do = "armCapability" /\ Circle!ArmCapability(s.of)
           \/ s.do = "suspendCapability" /\ Circle!SuspendCapability(s.of)
  <2>1. s.of \in Members
    BY <1>3, MembersAre DEF Aimed
  <2>2. Circle!ByAuthority(s.of)
    BY <1>3 DEF Circle!ByAuthority
  <2>3. QED
    BY <2>1, <2>2 DEF Circle!CovenantNext
<1>4. CASE s.do = "ratifyCovenant" /\ Circle!RatifyCovenant(s.of)
  <2>1. s.of = Members
    BY <1>4 DEF Aimed
  <2>2. QED
    BY <1>4, <2>1 DEF Circle!CovenantNext
<1>5. CASE s.do = "armCovenant" /\ Circle!ArmCovenant
  BY <1>5 DEF Circle!CovenantNext
<1>6. CASE /\ s.do = "installCapability"
           /\ Circle!InstallCapability(s.of, covenant.member_set)
  <2>1. s.of \in Members
    BY <1>6 DEF Aimed
  <2>2. QED
    BY <1>6, <2>1 DEF Circle!CovenantNext
<1>7. QED
  BY <1>1, <1>2, <1>3, <1>4, <1>5, <1>6 DEF FormationCall

LEMMA CircleSteps ==
  ASSUME AtStep, covenant.member_set \subseteq Members,
         [DriverNext]_driverVars
  PROVE  [Circle!CovenantNext]_circle
<1>1. CASE UNCHANGED <<chainVars, watching>>
  BY <1>1 DEF chainVars
<1>2. CASE Sends
  <2>1. CASE InCircle(FormationCall(Current))
    BY <2>1, CircleCalls, CurrentIs DEF InCircle
  <2>2. CASE /\ Current.do = "initializeIncident"
             /\ Circle!InitializeIncident(Current.of)
    <3>1. Current.of \in Members
      BY <2>2, CurrentIs DEF Aimed
    <3>2. Circle!ByAuthority(Current.of)
      BY <2>2 DEF Circle!ByAuthority
    <3>3. QED
      BY <3>1, <3>2 DEF Circle!CovenantNext
  <2>3. QED
    BY <1>2, <2>1, <2>2 DEF Sends, Call, Attempt, InIncident, InSeals,
       InCrank, InCohort, MarketCall
<1>3. CASE BeginWatching \/ Watching
  BY <1>3 DEF BeginWatching, Watching, InWatch
<1>4. CASE World
  BY <1>4 DEF World, Lands, CohortLands, CohortStripped, Schedules,
     OthersRun, TimePasses, OldCertificate, InIncident, InCrank, InWatch,
     InCohort
<1>5. CASE StrangerCalls
  <2>1. CASE Circle!RatifyCovenant(Members) \/ Circle!ArmCovenant
    BY <2>1 DEF Circle!CovenantNext
  <2>2. QED
    BY <1>5, <2>1 DEF StrangerCalls, InIncident, InSeals, InCircle, InCohort
<1>6. QED
  BY <1>1, <1>2, <1>3, <1>4, <1>5, ChainSteps

(* What a handler of the covenant writes over an account is one again.     *)
LEMMA CircleUpdates ==
  /\ \A c \in Circle!Covenants :
       /\ \A n \in 0..8 : [c EXCEPT !.member_count = n] \in Circle!Covenants
       /\ \A n \in Nat : /\ [c EXCEPT !.ratified_count = n] \in Circle!Covenants
                         /\ [c EXCEPT !.armed_count = n] \in Circle!Covenants
       /\ \A S \in SUBSET Members, n \in Nat :
            [c EXCEPT !.status = "Ratified", !.member_set = S,
                      !.adapter_count = n] \in Circle!Covenants
       /\ [c EXCEPT !.status = "Armed"] \in Circle!Covenants
  /\ [Circle!NoCovenant EXCEPT !.status = "Draft",
                               !.required_approvals = RequiredApprovals]
       \in Circle!Covenants
  /\ Circle!NoCovenant \in Circle!Covenants
<1>1. 0 \in 0..8 /\ 0 \in Nat
  OBVIOUS
<1>2. Circle!NoCovenant \in Circle!Covenants
  BY <1>1 DEF Circle!Covenants, Circle!NoCovenant
<1>3. [Circle!NoCovenant EXCEPT !.status = "Draft",
                               !.required_approvals = RequiredApprovals]
        \in Circle!Covenants
  BY <1>2 DEF Circle!Covenants
<1>4. ASSUME NEW c \in Circle!Covenants
      PROVE  /\ \A n \in 0..8 :
                  [c EXCEPT !.member_count = n] \in Circle!Covenants
             /\ \A n \in Nat :
                  /\ [c EXCEPT !.ratified_count = n] \in Circle!Covenants
                  /\ [c EXCEPT !.armed_count = n] \in Circle!Covenants
             /\ \A S \in SUBSET Members, n \in Nat :
                  [c EXCEPT !.status = "Ratified", !.member_set = S,
                            !.adapter_count = n] \in Circle!Covenants
             /\ [c EXCEPT !.status = "Armed"] \in Circle!Covenants
  BY DEF Circle!Covenants
<1>5. QED
  BY <1>2, <1>3, <1>4

LEMMA JoiningUpdates ==
  /\ Circle!NoMember \in Circle!Memberships
  /\ \A r \in Circle!Roles :
       [Circle!NoMember EXCEPT !.exists = TRUE, !.role = r]
         \in Circle!Memberships
  /\ \A x \in Circle!Memberships :
       /\ [x EXCEPT !.ratified = TRUE] \in Circle!Memberships
       /\ [x EXCEPT !.armed = TRUE] \in Circle!Memberships
BY DEF Circle!Memberships, Circle!NoMember, Circle!Roles

LEMMA GrantUpdates ==
  /\ Circle!NoCapability \in Circle!Capabilities
  /\ \A S \in SUBSET Members :
       /\ [Circle!NoCapability EXCEPT !.installed = TRUE, !.member_set = S]
            \in Circle!Capabilities
       /\ [Circle!NoCapability EXCEPT !.installed = TRUE, !.armed = TRUE,
                                      !.member_set = S] \in Circle!Capabilities
  /\ \A x \in Circle!Capabilities :
       /\ [x EXCEPT !.armed = TRUE, !.suspended = FALSE] \in Circle!Capabilities
       /\ [x EXCEPT !.suspended = TRUE] \in Circle!Capabilities
BY DEF Circle!Capabilities, Circle!NoCapability

(* One update of one account in a table of them.                           *)
LEMMA TableUpdate ==
  ASSUME NEW S, NEW T, NEW f \in [S -> T], NEW x, NEW v \in T
  PROVE  [f EXCEPT ![x] = v] \in [S -> T]
OBVIOUS

(* The covenant counts its members as everybody does.                      *)
LEMMA CountingIsCounting == \A S : Circle!Cardinality(S) = Cardinality(S)
BY DEF Circle!Cardinality, Cardinality

LEMMA CircleTypesKept ==
  ASSUME Circle!CovenantTypeOK, [Circle!CovenantNext]_circle
  PROVE  Circle!CovenantTypeOK'
<1> USE DEF Circle!CovenantTypeOK
<1>1. CASE UNCHANGED circle
  BY <1>1 DEF circle
<1>2. ASSUME NEW t \in {RequiredApprovals}, Circle!CreateCovenant(t)
      PROVE  Circle!CovenantTypeOK'
  BY <1>2, CircleUpdates DEF Circle!CreateCovenant
<1>3. ASSUME NEW p \in Members, NEW r \in Circle!Roles,
             Circle!AddCovenantMember(p, r)
      PROVE  Circle!CovenantTypeOK'
  <2>1. covenant.member_count \in 0..8 /\ covenant.member_count < 8
    BY <1>3 DEF Circle!AddCovenantMember, Circle!Covenants
  <2>2. covenant.member_count + 1 \in 0..8
    BY <2>1
  <2>3. covenant' \in Circle!Covenants
    BY <1>3, <2>2, CircleUpdates DEF Circle!AddCovenantMember
  <2>4. member' \in [Members -> Circle!Memberships]
    BY <1>3, JoiningUpdates, TableUpdate DEF Circle!AddCovenantMember
  <2>5. QED
    BY <1>3, <2>3, <2>4 DEF Circle!AddCovenantMember
<1>4. ASSUME NEW p \in Members, Circle!RatifyCovenantMember(p)
      PROVE  Circle!CovenantTypeOK'
  <2>1. covenant.ratified_count + 1 \in Nat
    BY DEF Circle!Covenants
  <2>2. covenant' \in Circle!Covenants
    BY <1>4, <2>1, CircleUpdates DEF Circle!RatifyCovenantMember
  <2>3. member' = [member EXCEPT ![p] = [member[p] EXCEPT !.ratified = TRUE]]
    BY <1>4 DEF Circle!RatifyCovenantMember
  <2>4. member' \in [Members -> Circle!Memberships]
    BY <2>3, JoiningUpdates
  <2>5. QED
    BY <1>4, <2>2, <2>4 DEF Circle!RatifyCovenantMember
<1>5. ASSUME NEW p \in Members,
             \/ Circle!ArmCovenantMember(p)
             \/ \E S \in SUBSET Members : Circle!ArmTogether(p, S)
      PROVE  /\ covenant' \in Circle!Covenants
             /\ member' \in [Members -> Circle!Memberships]
  <2>1. covenant.armed_count + 1 \in Nat
    BY DEF Circle!Covenants
  <2>2. covenant' = [covenant EXCEPT !.armed_count = covenant.armed_count + 1]
    BY <1>5 DEF Circle!ArmCovenantMember, Circle!ArmTogether
  <2>3. member' = [member EXCEPT ![p] = [member[p] EXCEPT !.armed = TRUE]]
    BY <1>5 DEF Circle!ArmCovenantMember, Circle!ArmTogether
  <2>4. covenant' \in Circle!Covenants
    BY <2>1, <2>2, CircleUpdates
  <2>5. QED
    BY <2>3, <2>4, JoiningUpdates
<1>6. ASSUME NEW p \in Members, Circle!ArmCovenantMember(p)
      PROVE  Circle!CovenantTypeOK'
  BY <1>5, <1>6 DEF Circle!ArmCovenantMember
<1>7. ASSUME NEW p \in Members, NEW S \in SUBSET Members,
             Circle!ArmTogether(p, S)
      PROVE  Circle!CovenantTypeOK'
  <2>1. capability' \in [Members -> Circle!Capabilities]
    BY <1>7, GrantUpdates, TableUpdate DEF Circle!ArmTogether
  <2>2. QED
    BY <1>5, <1>7, <2>1 DEF Circle!ArmTogether
<1>8. ASSUME NEW p \in Members, NEW S \in SUBSET Members,
             Circle!InstallCapability(p, S)
      PROVE  Circle!CovenantTypeOK'
  <2>1. capability' \in [Members -> Circle!Capabilities]
    BY <1>8, GrantUpdates, TableUpdate DEF Circle!InstallCapability
  <2>2. QED
    BY <1>8, <2>1 DEF Circle!InstallCapability
<1>9. ASSUME NEW p \in Members, Circle!ArmCapability(p)
      PROVE  Circle!CovenantTypeOK'
  <2>1. capability' = [capability EXCEPT ![p] =
          [capability[p] EXCEPT !.armed = TRUE, !.suspended = FALSE]]
    BY <1>9 DEF Circle!ArmCapability
  <2>2. capability' \in [Members -> Circle!Capabilities]
    BY <2>1, GrantUpdates
  <2>3. QED
    BY <1>9, <2>2 DEF Circle!ArmCapability
<1>10. ASSUME NEW p \in Members, Circle!SuspendCapability(p)
       PROVE  Circle!CovenantTypeOK'
  <2>1. capability' = [capability EXCEPT ![p] =
          [capability[p] EXCEPT !.suspended = TRUE]]
    BY <1>10 DEF Circle!SuspendCapability
  <2>2. capability' \in [Members -> Circle!Capabilities]
    BY <2>1, GrantUpdates
  <2>3. QED
    BY <1>10, <2>2 DEF Circle!SuspendCapability
<1>11. ASSUME NEW p \in Members, Circle!InitializeIncident(p)
       PROVE  Circle!CovenantTypeOK'
  <2>1. Circle!Snapshot \in [members : SUBSET Members,
                             required_approvals : {0} \cup {RequiredApprovals},
                             member_count : 0..8]
    BY DEF Circle!Snapshot, Circle!Covenants
  <2>2. /\ snapshots' = snapshots \cup {Circle!Snapshot}
        /\ UNCHANGED <<covenant, member, capability, epochOver>>
    BY <1>11 DEF Circle!InitializeIncident
  <2> HIDE DEF Circle!Snapshot
  <2>3. QED
    BY <2>1, <2>2
<1>12. ASSUME NEW S \in SUBSET Members, Circle!RatifyCovenant(S)
       PROVE  Circle!CovenantTypeOK'
  <2>1. IsFiniteSet(Members)
    BY ConstantTypes
  <2>2. Circle!Owners(S) \subseteq Members
    BY DEF Circle!Owners
  <2>3. Cardinality(Circle!Owners(S)) \in Nat
    BY <2>1, <2>2, FS_Subset, FS_CardinalityType
  <2>4. /\ covenant' = [covenant EXCEPT !.status = "Ratified",
               !.member_set = S, !.adapter_count = Cardinality(Circle!Owners(S))]
        /\ UNCHANGED <<member, capability, epochOver, snapshots>>
    BY <1>12, CountingIsCounting DEF Circle!RatifyCovenant
  <2>5. covenant' \in Circle!Covenants
    BY <2>3, <2>4, CircleUpdates
  <2>6. QED
    BY <2>4, <2>5
<1>13. CASE Circle!ArmCovenant
  BY <1>13, CircleUpdates DEF Circle!ArmCovenant
<1>14. CASE Circle!EpochEnds
  BY <1>14 DEF Circle!EpochEnds
<1>15. QED
  BY <1>1, <1>2, <1>3, <1>4, <1>6, <1>7, <1>8, <1>9, <1>10, <1>11, <1>12,
     <1>13, <1>14 DEF Circle!CovenantNext, Circle!ByAuthority

LEMMA CircleStarts ==
  DriverInit => Circle!CovenantInit /\ Circle!CovenantTypeOK
<1>1. ASSUME Circle!CovenantInit PROVE Circle!CovenantTypeOK
  BY <1>1, CircleUpdates, JoiningUpdates, GrantUpdates
  DEF Circle!CovenantInit, Circle!CovenantTypeOK
<1>2. DriverInit => Circle!CovenantInit
  BY DEF DriverInit
<1>3. QED
  BY <1>1, <1>2

-----------------------------------------------------------------------------
(* The permissions and the task.                                           *)
LEMMA SealSteps ==
  ASSUME AtStep, [DriverNext]_driverVars
  PROVE  \/ UNCHANGED seals
         \/ SealCall(Current)
         \/ CloseClaimPermission
         \/ \E m \in Members : CloseAttestationPermission(m)
<1>1. CASE UNCHANGED <<chainVars, watching>>
  BY <1>1 DEF chainVars
<1>2. CASE Sends
  BY <1>2 DEF Sends, Call, Attempt, InCircle, InIncident, InSeals, InCrank,
     InCohort, MarketCall
<1>3. CASE BeginWatching \/ Watching
  BY <1>3 DEF BeginWatching, Watching, InWatch
<1>4. CASE World
  BY <1>4 DEF World, Lands, CohortLands, CohortStripped, Schedules,
     OthersRun, TimePasses, OldCertificate, InIncident, InCrank, InWatch,
     InCohort
<1>5. CASE StrangerCalls
  BY <1>5 DEF StrangerCalls, InIncident, InSeals, InCircle, InCohort
<1>6. QED
  BY <1>1, <1>2, <1>3, <1>4, <1>5, ChainSteps

LEMMA SealTypesKept ==
  ASSUME AtStep, SealTypeOK, [DriverNext]_driverVars
  PROVE  SealTypeOK'
<1> USE DEF SealTypeOK
<1>1. CASE UNCHANGED seals
  BY <1>1 DEF seals
<1>2. CASE CreateClaimPermission \/ CloseClaimPermission
  BY <1>2 DEF CreateClaimPermission, CloseClaimPermission
<1>3. ASSUME NEW m, CreateAttestationPermission(m)
      PROVE  SealTypeOK'
  <2>1. ballotSeal' \in [Members -> {"none", "private"}]
    BY <1>3, TableUpdate DEF CreateAttestationPermission
  <2>2. QED
    BY <1>3, <2>1 DEF CreateAttestationPermission
<1>4. ASSUME NEW m, CloseAttestationPermission(m)
      PROVE  SealTypeOK'
  <2>1. ballotSeal' \in [Members -> {"none", "private"}]
    BY <1>4, TableUpdate DEF CloseAttestationPermission
  <2>2. QED
    BY <1>4, <2>1 DEF CloseAttestationPermission
<1>5. QED
  BY <1>1, <1>2, <1>3, <1>4, SealSteps DEF SealCall

LEMMA CrankSteps ==
  ASSUME AtStep, [DriverNext]_driverVars
  PROVE  \/ UNCHANGED crank
         \/ RequestExpiryCrank(Requested) \/ CancelExpiryCrank
         \/ RemoveTask \/ Fire
<1>1. CASE UNCHANGED <<chainVars, watching>>
  BY <1>1 DEF chainVars
<1>2. CASE Sends
  <2>1. CASE CrankCall(Current)
    <3>1. Current.do = "requestExpiryCrank" => Current.of = Requested
      BY CurrentIs DEF Aimed
    <3>2. QED
      BY <2>1, <3>1 DEF CrankCall, cvars
  <2>2. QED
    BY <1>2, <2>1 DEF Sends, Call, Attempt, InCircle, InIncident, InSeals,
       InCrank, InCohort, MarketCall
<1>3. CASE BeginWatching \/ Watching
  BY <1>3 DEF BeginWatching, Watching, InWatch, BeginWatch, PollExpiry,
     PollCancellation, Poll, cvars
<1>4. CASE Lands \/ CohortLands \/ CohortStripped \/ TimePasses
             \/ OldCertificate
  BY <1>4 DEF Lands, CohortLands, CohortStripped, TimePasses,
     OldCertificate, InIncident, InCohort
<1>5. CASE Schedules \/ OthersRun
  BY <1>5 DEF Schedules, OthersRun, InWatch, InCrank, Iterate,
     OtherTaskRuns, cvars
<1>6. CASE StrangerCalls
  BY <1>6 DEF StrangerCalls, InIncident, InSeals, InCircle, InCohort
<1>7. QED
  BY <1>1, <1>2, <1>3, <1>4, <1>5, <1>6, ChainSteps DEF World

LEMMA CrankTypesKept ==
  ASSUME AtStep, CrankTypeOK, [DriverNext]_driverVars
  PROVE  CrankTypeOK'
<1> USE DEF CrankTypeOK
<1>1. Requested \in 0..MaxIterations /\ MaxIterations \in Nat
  BY WatchAssumption, IterationsAssumption
<1>2. CASE UNCHANGED crank
  BY <1>2 DEF crank
<1>3. CASE RequestExpiryCrank(Requested) \/ CancelExpiryCrank \/ RemoveTask
  <2>1. /\ task' \in {task, 0, Requested}
        /\ cancelling' \in {TRUE, FALSE}
    BY <1>3 DEF RequestExpiryCrank, CancelExpiryCrank, RemoveTask
  <2>2. task' \in 0..MaxIterations
    BY <1>1, <2>1
  <2>3. QED
    BY <2>1, <2>2
<1>4. CASE Fire
  <2>1. task > 0 /\ task' = task - 1
        /\ cancelling' = (cancelling /\ task' > 0)
    BY <1>4 DEF Fire
  <2>2. task' \in 0..MaxIterations
    BY <1>1, <2>1
  <2>3. cancelling' \in BOOLEAN
    BY <2>1
  <2>4. QED
    BY <2>2, <2>3
<1>5. QED
  BY <1>2, <1>3, <1>4, CrankSteps

(* What a script may have classified, and the verdicts that come of it.    *)
Classified ==
  {"none", "ALL_ACTIONS_APPLIED", "COMMIT_WITHOUT_ACTIONS",
   "PARTIAL_OBSERVATION", "UNKNOWN"}

LEMMA ClassifiedKept ==
  ASSUME DOMAIN seen = Fields, seen.class \in Classified,
         [DriverNext]_driverVars
  PROVE  DOMAIN seen' = Fields /\ seen'.class \in Classified
<1>1. \A e, committed : Classify(e, committed) \in Classified
  BY DEF Classify, Classified
<1>2. /\ DOMAIN seen' = Fields
      /\ \/ seen'.class = seen.class \/ seen'.class = "none"
         \/ \E e, committed : seen'.class = Classify(e, committed)
  BY SeenSteps DEF Seeing, Keeps, Sees
<1>3. QED
  BY <1>1, <1>2 DEF Classified

LEMMA OutcomesAre ==
  ASSUME AtStep, GivenInv, seen.class \in Classified
  PROVE  outcome \in {"none", "thrown", "PASS", "FAIL", "READS_NOT_ENFORCED",
                      "BLOCKED_STALE_RUNTIME", "ALL_ACTIONS_APPLIED",
                      "COMMIT_WITHOUT_ACTIONS", "PARTIAL_OBSERVATION",
                      "UNKNOWN"}
<1>1. script \in {"local", "per", "success", "fail_one", "suspend_one",
                  "expire", "cancel", "seam", "seam_fail"}
  BY ScriptsAre DEF AtStep
<1>2. Verdict \in {"PASS", "FAIL", "READS_NOT_ENFORCED"} \cup Classified
  BY <1>1, VerdictIs, VerdictsSay
<1>3. QED
  BY <1>2 DEF GivenInv, Classified

TypesInv ==
  /\ AtStep /\ TypeOK /\ SealTypeOK /\ CrankTypeOK /\ Circle!CovenantTypeOK
  /\ DOMAIN seen = Fields /\ seen.class \in Classified /\ GivenInv
  /\ trouble \in 0..Most

LEMMA TypesStart == DriverInit => TypesInv
<1> SUFFICES ASSUME DriverInit PROVE TypesInv
  OBVIOUS
<1>1. AtStep /\ TypeOK
  BY StartsWell
<1>2. SealTypeOK
  BY DEF DriverInit, SealInit, SealTypeOK
<1>3. CrankTypeOK
  <2>1. task = 0 /\ cancelling = FALSE
    BY DEF DriverInit
  <2>2. 0 \in 0..MaxIterations
    BY IterationsAssumption
  <2>3. cancelling \in BOOLEAN
    BY <2>1
  <2>4. QED
    BY <2>1, <2>2, <2>3 DEF CrankTypeOK
<1>4. DOMAIN seen = Fields /\ seen.class \in Classified
  BY DEF DriverInit, Blank, Fields, Classified
<1>5. GivenInv
  BY DEF DriverInit, GivenInv
<1>6. trouble \in 0..Most
  BY DriversAssumption DEF DriverInit
<1>7. QED
  BY <1>1, <1>2, <1>3, <1>4, <1>5, <1>6, CircleStarts DEF TypesInv

LEMMA TypesKept ==
  ASSUME TypesInv, [DriverNext]_driverVars
  PROVE  TypesInv'
<1> USE DEF TypesInv
<1>1. AtStep' /\ TypeOK' /\ SealTypeOK' /\ CrankTypeOK'
  BY PcSteps, IncidentKept, SealTypesKept, CrankTypesKept
<1>2. Circle!CovenantTypeOK'
  <2>1. covenant.member_set \subseteq Members
    BY DEF Circle!CovenantTypeOK, Circle!Covenants
  <2>2. QED
    BY <2>1, CircleSteps, CircleTypesKept
<1>3. DOMAIN seen' = Fields /\ seen'.class \in Classified /\ GivenInv'
  BY ClassifiedKept, GivenKept
<1>4. trouble' \in 0..Most
  <2>1. Most \in Nat
    BY DriversAssumption
  <2>2. trouble' \in Nat /\ trouble' <= Most
    BY <2>1, TroubleSteps
  <2>3. QED
    BY <2>1, <2>2
<1>5. QED
  BY <1>1, <1>2, <1>3, <1>4

(* Whatever is lost, repeated or done by others, every account a script    *)
(* works on keeps its type, its own place stays within the script, also    *)
(* when it observes again, skips to its verdict or is run a second time,   *)
(* and it ends in one of the verdicts its authors named (phase3 to phase6).*)
THEOREM DriverTypeCorrect == DriverSpec => []DriverTypeOK
<1>1. TypesInv => DriverTypeOK
  <2> SUFFICES ASSUME TypesInv PROVE DriverTypeOK
    OBVIOUS
  <2>1. outcome \in {"none", "thrown", "PASS", "FAIL", "READS_NOT_ENFORCED",
                     "BLOCKED_STALE_RUNTIME", "ALL_ACTIONS_APPLIED",
                     "COMMIT_WITHOUT_ACTIONS", "PARTIAL_OBSERVATION",
                     "UNKNOWN"}
    BY OutcomesAre DEF TypesInv
  <2>2. QED
    BY <2>1 DEF TypesInv, AtStep, DriverTypeOK
<1>2. QED
  BY <1>1, TypesStart, TypesKept, PTL DEF DriverSpec

(* A run forms its covenant as the covenant's own handlers allow and adds  *)
(* no step to it, with strangers that ratify and arm in between and a      *)
(* second run over the accounts of the first: what is proved of every      *)
(* formation holds of the circle each script convenes (createCovenant to   *)
(* initializeIncident in the scripts).                                     *)
THEOREM ScriptsFormACovenant == DriverSpec => Circle!CovenantSpec
<1>1. TypesInv /\ [DriverNext]_driverVars
        => [Circle!CovenantNext]_(Circle!covenantVars)
  <2> SUFFICES ASSUME TypesInv, [DriverNext]_driverVars
               PROVE  [Circle!CovenantNext]_(Circle!covenantVars)
    OBVIOUS
  <2>1. covenant.member_set \subseteq Members
    BY DEF TypesInv, Circle!CovenantTypeOK, Circle!Covenants
  <2>2. [Circle!CovenantNext]_circle
    BY <2>1, CircleSteps DEF TypesInv
  <2>3. QED
    BY <2>2 DEF circle, Circle!covenantVars
<1>2. DriverInit => Circle!CovenantInit
  BY CircleStarts
<1>3. QED
  BY <1>1, <1>2, TypesStart, TypesKept, PTL
  DEF DriverSpec, Circle!CovenantSpec

-----------------------------------------------------------------------------
(* Except for the certificate that phase3 expects an earlier build to have *)
(* left, a run adds nothing to the incident it works on, to its            *)
(* permissions or to its task: it is an incident with permissions, and one *)
(* with a task, like any other.  What is proved of these for every         *)
(* interleaving holds in every run of phase4 to phase6, the strangers, the *)
(* lost confirmations and the second run included.                         *)
THEOREM RunsAreIncidents ==
  ASSUME Scripts \cap {"seam", "seam_fail"} = {}
  PROVE  DriverSpec => SealSpec /\ CrankSpec
<1>1. ASSUME AtStep, [DriverNext]_driverVars
      PROVE  [SealNext]_svars /\ [CrankNext]_cvars
  <2>1. [Next]_vars
    BY <1>1, IncidentSteps DEF AtStep
  <2>2. ASSUME UNCHANGED seals PROVE [SealNext]_svars
    BY <2>1, <2>2 DEF SealNext, svars
  <2>3. ASSUME SealCall(Current) PROVE [SealNext]_svars
    <3>1. Current.do \in {"createAttestationPermission",
                          "closeAttestationPermission"} => Current.of \in Members
      BY <1>1, CurrentIs DEF Aimed
    <3>2. \/ CreateClaimPermission \/ CloseClaimPermission
          \/ \E m \in Members : \/ CreateAttestationPermission(m)
                                \/ CloseAttestationPermission(m)
      BY <2>3, <3>1 DEF SealCall
    <3>3. QED
      BY <3>2 DEF SealNext
  <2>4. [SealNext]_svars
    BY <1>1, <2>2, <2>3, SealSteps DEF SealNext
  <2>5. ASSUME UNCHANGED crank PROVE [CrankNext]_cvars
    BY <2>1, <2>5 DEF CrankNext, cvars
  <2>6. Requested \in 1..MaxIterations
    BY WatchAssumption
  <2>7. [CrankNext]_cvars
    BY <1>1, <2>5, <2>6, CrankSteps DEF CrankNext
  <2>8. QED
    BY <2>4, <2>7
<1>2. DriverInit => SealInit /\ CrankInit
  BY DEF DriverInit, SealInit, CrankInit
<1>3. AtStep /\ [DriverNext]_driverVars => AtStep'
  BY PcSteps
<1>4. DriverInit => AtStep
  BY StartsWell
<1>5. QED
  BY <1>1, <1>2, <1>3, <1>4, PTL DEF DriverSpec, SealSpec, CrankSpec

=============================================================================
