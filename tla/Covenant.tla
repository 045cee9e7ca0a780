------------------------------ MODULE Covenant -------------------------------
(***************************************************************************)
(* Formation of one covenant on the base layer, and the incidents opened   *)
(* under it.  The steward convenes and adds members; each protocol signs   *)
(* its own ratification, its own arming and its own capability; the two    *)
(* steps that move the covenant itself are anybody's.                      *)
(*                                                                         *)
(* The member set is frozen from the accounts a caller supplies, so the    *)
(* counts kept along the way and the supplied list must agree.             *)
(***************************************************************************)
EXTENDS Naturals, FiniteSets

CONSTANTS
  Protocols,      \* authorities that may be made members
  MaxMembers,     \* MAX_INCIDENT_MEMBERS
  Thresholds      \* the required_approvals a steward may convene with

(* check_terms: a threshold is positive and at most MAX_INCIDENT_MEMBERS.  *)
ASSUME CovenantAssumption ==
  /\ IsFiniteSet(Protocols)
  /\ MaxMembers \in Nat \ {0}
  /\ Thresholds \subseteq 1..MaxMembers

VARIABLES
  covenant,     \* Covenant, or NoCovenant
  member,       \* CovenantMember of each protocol
  capability,   \* SovereignCapability of each protocol
  epochOver,    \* is the slot past expires_at_slot
  snapshots     \* what initialize_incident copied into the incidents' cores

covenantVars == <<covenant, member, capability, epochOver, snapshots>>

Roles == {"Protocol", "Responder", "Steward"}

OwnsAnAdapter(role) == role = "Protocol"

(* An unset commitment (32 zero bytes) is the empty set.                   *)
NoCovenant ==
  [status |-> "None", required_approvals |-> 0, member_count |-> 0,
   ratified_count |-> 0, armed_count |-> 0, adapter_count |-> 0,
   member_set |-> {}]
NoMember == [exists |-> FALSE, role |-> "Protocol", ratified |-> FALSE,
             armed |-> FALSE]
NoCapability == [installed |-> FALSE, armed |-> FALSE, suspended |-> FALSE,
                 member_set |-> {}]

Joined == {p \in Protocols : member[p].exists}
Ratified == {p \in Protocols : member[p].ratified}
Armed == {p \in Protocols : member[p].armed}
Owners(S) == {p \in S : OwnsAnAdapter(member[p].role)}

CovenantInit ==
  /\ covenant = NoCovenant
  /\ member = [p \in Protocols |-> NoMember]
  /\ capability = [p \in Protocols |-> NoCapability]
  /\ epochOver = FALSE
  /\ snapshots = {}

-----------------------------------------------------------------------------
CreateCovenant(threshold) ==
  /\ covenant.status = "None"
  /\ covenant' = [NoCovenant EXCEPT !.status = "Draft",
                                    !.required_approvals = threshold]
  /\ UNCHANGED <<member, capability, epochOver, snapshots>>

AddCovenantMember(p, role) ==
  /\ covenant.status = "Draft"
  /\ ~member[p].exists
  /\ covenant.member_count < MaxMembers
  /\ member' = [member EXCEPT ![p] = [NoMember EXCEPT !.exists = TRUE,
                                                      !.role = role]]
  /\ covenant' = [covenant EXCEPT !.member_count = @ + 1]
  /\ UNCHANGED <<capability, epochOver, snapshots>>

(* Mutant of RatifyCovenantMember: a second ratification counts again.     *)
RatifyCovenantMember_Twice(p) ==
  /\ covenant.status = "Draft"
  /\ member[p].exists
  /\ covenant.ratified_count < MaxMembers
  /\ member' = [member EXCEPT ![p].ratified = TRUE]
  /\ covenant' = [covenant EXCEPT !.ratified_count = @ + 1]
  /\ UNCHANGED <<capability, epochOver, snapshots>>

RatifyCovenantMember(p) ==
  /\ covenant.status = "Draft"
  /\ member[p].exists /\ ~member[p].ratified
  /\ member' = [member EXCEPT ![p].ratified = TRUE]
  /\ covenant' = [covenant EXCEPT !.ratified_count = @ + 1]
  /\ UNCHANGED <<capability, epochOver, snapshots>>

(* Mutant of Reconstructs: the list need not be as long as the count.      *)
ReconstructsMembers_AnyCount(supplied) == supplied \subseteq Ratified

(* reconstruct_members: as many accounts as members, strictly ascending,   *)
(* so distinct, each a membership of this covenant that has ratified.      *)
ReconstructsMembers(supplied) ==
  /\ Cardinality(supplied) = covenant.member_count
  /\ supplied \subseteq Ratified

RatifyCovenant(supplied) ==
  /\ covenant.status = "Draft"
  /\ covenant.member_count > 0
  /\ covenant.ratified_count = covenant.member_count
  /\ covenant.required_approvals <= covenant.member_count
  /\ ReconstructsMembers(supplied)
  /\ covenant' = [covenant EXCEPT !.status = "Ratified",
                                  !.member_set = supplied,
                                  !.adapter_count = Cardinality(Owners(supplied))]
  /\ UNCHANGED <<member, capability, epochOver, snapshots>>

ArmCovenantMember(p) ==
  /\ covenant.status \in {"Ratified", "Armed"}
  /\ member[p].exists /\ OwnsAnAdapter(member[p].role) /\ ~member[p].armed
  /\ member' = [member EXCEPT ![p].armed = TRUE]
  /\ covenant' = [covenant EXCEPT !.armed_count = @ + 1]
  /\ UNCHANGED <<capability, epochOver, snapshots>>

ArmCovenant ==
  /\ covenant.status = "Ratified"
  /\ covenant.armed_count = covenant.adapter_count
  /\ covenant' = [covenant EXCEPT !.status = "Armed"]
  /\ UNCHANGED <<member, capability, epochOver, snapshots>>

(* The adapter takes whatever commitment its authority hands it.           *)
InstallCapability(p, member_set) ==
  /\ ~capability[p].installed
  /\ capability' = [capability EXCEPT ![p] =
       [NoCapability EXCEPT !.installed = TRUE, !.member_set = member_set]]
  /\ UNCHANGED <<covenant, member, epochOver, snapshots>>

ArmCapability(p) ==
  /\ capability[p].installed /\ ~capability[p].armed
  /\ capability' = [capability EXCEPT ![p].armed = TRUE, ![p].suspended = FALSE]
  /\ UNCHANGED <<covenant, member, epochOver, snapshots>>

(* One transaction of the authority: install, arm, record the arming.      *)
(* Either all three instructions are accepted or none of them is.          *)
ArmTogether(p, member_set) ==
  /\ ~capability[p].installed
  /\ covenant.status \in {"Ratified", "Armed"}
  /\ member[p].exists /\ OwnsAnAdapter(member[p].role) /\ ~member[p].armed
  /\ capability' = [capability EXCEPT ![p] =
       [NoCapability EXCEPT !.installed = TRUE, !.armed = TRUE,
                            !.member_set = member_set]]
  /\ member' = [member EXCEPT ![p].armed = TRUE]
  /\ covenant' = [covenant EXCEPT !.armed_count = @ + 1]
  /\ UNCHANGED <<epochOver, snapshots>>

SuspendCapability(p) ==
  /\ capability[p].installed
  /\ capability' = [capability EXCEPT ![p].suspended = TRUE]
  /\ UNCHANGED <<covenant, member, epochOver, snapshots>>

-----------------------------------------------------------------------------
(* What initialize_incident copies out of the covenant.                    *)
Snapshot == [members |-> covenant.member_set,
             required_approvals |-> covenant.required_approvals,
             member_count |-> covenant.member_count]

(* Mutant of InitializeIncident: a ratified circle may open already.       *)
InitializeIncident_Unarmed(p) ==
  /\ covenant.status \in {"Ratified", "Armed"}
  /\ ~epochOver
  /\ member[p].ratified
  /\ snapshots' = snapshots \cup {Snapshot}
  /\ UNCHANGED <<covenant, member, capability, epochOver>>

InitializeIncident(p) ==
  /\ covenant.status = "Armed"
  /\ ~epochOver
  /\ member[p].ratified
  /\ snapshots' = snapshots \cup {Snapshot}
  /\ UNCHANGED <<covenant, member, capability, epochOver>>

EpochEnds ==
  /\ covenant.status # "None" /\ ~epochOver
  /\ epochOver' = TRUE
  /\ UNCHANGED <<covenant, member, capability, snapshots>>

ByAuthority(p) ==
  \/ RatifyCovenantMember(p)
  \/ ArmCovenantMember(p)
  \/ ArmCapability(p)
  \/ SuspendCapability(p)
  \/ InitializeIncident(p)

CovenantNext ==
  \/ \E threshold \in Thresholds : CreateCovenant(threshold)
  \/ \E p \in Protocols, role \in Roles : AddCovenantMember(p, role)
  \/ \E p \in Protocols : ByAuthority(p)
  \/ \E p \in Protocols, set \in SUBSET Protocols :
       InstallCapability(p, set) \/ ArmTogether(p, set)
  \/ \E supplied \in SUBSET Protocols : RatifyCovenant(supplied)
  \/ ArmCovenant
  \/ EpochEnds

CovenantSpec == CovenantInit /\ [][CovenantNext]_covenantVars

-----------------------------------------------------------------------------
Covenants ==
  [status : {"None", "Draft", "Ratified", "Armed"},
   required_approvals : {0} \cup Thresholds, member_count : 0..MaxMembers,
   ratified_count : Nat, armed_count : Nat, adapter_count : Nat,
   member_set : SUBSET Protocols]
Memberships ==
  [exists : BOOLEAN, role : Roles, ratified : BOOLEAN, armed : BOOLEAN]
Capabilities ==
  [installed : BOOLEAN, armed : BOOLEAN, suspended : BOOLEAN,
   member_set : SUBSET Protocols]

CovenantTypeOK ==
  /\ covenant \in Covenants
  /\ member \in [Protocols -> Memberships]
  /\ capability \in [Protocols -> Capabilities]
  /\ epochOver \in BOOLEAN
  /\ snapshots \subseteq [members : SUBSET Protocols,
                          required_approvals : {0} \cup Thresholds,
                          member_count : 0..MaxMembers]

(* The counts in the covenant are the numbers of member accounts behind    *)
(* them, in whatever order the members joined, ratified and armed around   *)
(* the freeze (add_covenant_member, ratify_covenant_member,                *)
(* arm_covenant_member).                                                   *)
CountsAreMembers ==
  /\ covenant.member_count = Cardinality(Joined)
  /\ covenant.ratified_count = Cardinality(Ratified)
  /\ covenant.armed_count = Cardinality(Armed)

(* Once it is frozen, the member set is every member that joined, each of  *)
(* them ratified, and can meet the threshold; an armed covenant waits for  *)
(* no adapter (ratify_covenant, arm_covenant).                             *)
FrozenSetIsComplete ==
  covenant.status \in {"Ratified", "Armed"} =>
    /\ covenant.member_set = Joined
    /\ Joined = Ratified
    /\ covenant.adapter_count = Cardinality(Owners(Joined))
    /\ covenant.required_approvals \in 1..Cardinality(Joined)
    /\ Cardinality(Joined) \in 1..MaxMembers
    /\ covenant.status = "Armed" => Owners(Joined) = Armed

(* Every incident rests on the same complete, ratified and armed circle:   *)
(* what Incident assumes of its constants (initialize_incident).           *)
IncidentsAreGrounded ==
  \A s \in snapshots :
    /\ s = Snapshot
    /\ s.members = Ratified /\ s.members # {}
    /\ s.member_count = Cardinality(s.members)
    /\ s.required_approvals \in 1..s.member_count
    /\ Owners(s.members) = Armed
=============================================================================
