------------------------------ MODULE Reference ------------------------------
(***************************************************************************)
(* The off-chain reference model beside the program.                       *)
(*                                                                         *)
(* Both are handed the same calls on one open incident, in any order: the  *)
(* program keeps one ballot per member and overwrites it, the reference    *)
(* keeps every attestation with a state and a list of quarantined members. *)
(* The program's handlers are those of Incident; the reference is what     *)
(* crates/vinct-reference computes.  Snapshot bindings, roles and the      *)
(* order of its lists are left out: every member may attest.               *)
(***************************************************************************)
EXTENDS Integers, FiniteSets

CONSTANTS
  Voters,       \* the frozen member set
  Approvals,    \* required_approvals
  Objections,   \* maximum_rejections
  Window,       \* response_window_slots
  EpochStarts, EpochEnds, \* the covenant's valid_from_slot, expires_at_slot
  LastSlot,     \* bound: the last slot of the clock
  LastNonce     \* bound: the highest submission nonce

ASSUME ReferenceAssumption ==
  /\ IsFiniteSet(Voters) /\ Cardinality(Voters) \in 1..8
  /\ Approvals \in 1..Cardinality(Voters)
  /\ Objections \in Nat /\ Window \in Nat \ {0}
  /\ EpochStarts \in 0..1   \* no incident is older than its covenant
  /\ EpochEnds \in Nat /\ LastSlot \in Nat \ {0} /\ LastNonce \in Nat

VARIABLES
  now,           \* the slot both are given
  core, ballot,  \* the program's core and ballots, delegated
  attestations,  \* the reference's history
  quarantined,   \* and the members it quarantined
  calledOff      \* history: has the reference called it Impossible

referenceVars == <<now, core, ballot, attestations, quarantined, calledOff>>

Program == INSTANCE Incident WITH
  Members <- Voters, RequiredApprovals <- Approvals,
  MaximumRejections <- Objections, ResponseWindow <- Window,
  CertificateLifetime <- 1, Routes <- {"er"}, ExitFamilies <- {Voters},
  Redelegates <- FALSE, MaxSlot <- LastSlot, MaxNonce <- LastNonce,
  slot <- now, claim <- [evidence |-> FALSE, zeroized |-> TRUE],
  coreAt <- "er", claimAt <- "er", ballotAt <- [m \in Voters |-> "er"],
  leaked <- {}, image <- [status |-> "Draft"],
  checkpoint <- [status |-> "None"], certificate <- [issued |-> FALSE]

Decisions == {"Approve", "Reject", "Abstain"}

(* An incident that has just been opened: open_incident, and               *)
(* IncidentState::open.                                                    *)
ReferenceInit ==
  /\ now = 1
  /\ core = [status |-> "Collecting", opened_at_slot |-> 1,
             expires_at_slot |-> 1 + Window, approvals |-> 0,
             rejections |-> 0, certified_at_slot |-> 0]
  /\ ballot = [m \in Voters |-> Program!EmptyBallot]
  /\ attestations = {} /\ quarantined = {}
  /\ calledOff = FALSE

-----------------------------------------------------------------------------
(* What the reference keeps of a member.                                   *)

Of(m) == {a \in attestations : a.member = m}
IsEffective(a) == a.state = "Submitted"
Effective(m) == {a \in Of(m) : IsEffective(a)}

(* Mutant of Binding: quarantine takes an objection out of the count.      *)
Binding_EffectiveOnly(m) == Effective(m)

Binding(m) ==
  {a \in Of(m) : a.state \in {"Submitted", "InvalidatedByQuarantine"}}

IsExpired == now >= core.expires_at_slot
EpochActive == now >= EpochStarts /\ now < EpochEnds

(* Mutant of HighestNonceBelow: the nonce in force may be used again.      *)
HighestNonceBelow_OrEqual(m, n) == \A a \in Of(m) : n >= a.submission_nonce

HighestNonceBelow(m, n) == \A a \in Of(m) : n > a.submission_nonce

(* What submit_attestation refuses.                                        *)
Takes(m, n) ==
  /\ ~IsExpired /\ EpochActive
  /\ m \notin quarantined
  /\ HighestNonceBelow(m, n)

NewAttestation(m, d, n) ==
  [member |-> m, decision |-> d, submission_nonce |-> n, state |-> "Submitted"]

MarkEffective(m, state) ==
  {IF a.member = m /\ IsEffective(a) THEN [a EXCEPT !.state = state] ELSE a :
     a \in attestations}

SubmitAttestation(m, d, n) ==
  /\ attestations' = IF Takes(m, n)
                     THEN MarkEffective(m, "Superseded")
                            \cup {NewAttestation(m, d, n)}
                     ELSE attestations
  /\ UNCHANGED quarantined

(* A second quarantine returns before anything changes.                    *)
QuarantineMember(m) ==
  /\ attestations' = IF m \in quarantined THEN attestations
                     ELSE MarkEffective(m, "InvalidatedByQuarantine")
  /\ quarantined' = quarantined \cup {m}

-----------------------------------------------------------------------------
(* evaluate_incident.                                                      *)

Deciding(S, d) == \E a \in S : a.decision = d

Eligible == Voters \ quarantined
Approving == {m \in Eligible : Deciding(Effective(m), "Approve")}
Responded == {m \in Eligible : Effective(m) # {}}
Rejecting == {m \in Voters : Deciding(Binding(m), "Reject")}

MaxReachableApprovals ==
  Cardinality(Approving) + Cardinality(Eligible \ Responded)

Blocked == Cardinality(Rejecting) > Objections
Approved == Cardinality(Approving) >= Approvals

(* The order matters: enough objections stop an approved action.           *)
Outcome ==
  CASE Blocked -> "RejectedByThreshold"
    [] ~Blocked /\ Approved -> "Certified"
    [] ~Blocked /\ ~Approved /\ IsExpired -> "Expired"
    [] OTHER -> IF MaxReachableApprovals < Approvals THEN "Impossible"
                ELSE "Collecting"

-----------------------------------------------------------------------------
(* One call, handed to both.                                               *)

Submit(m, d, n) ==
  /\ Program!SubmitSealedAttestation("er", m, d, n)
  /\ SubmitAttestation(m, d, n)

Quarantine(m) == Program!QuarantineMember("er", m) /\ QuarantineMember(m)

(* The reference is evaluated; only the program settles.                   *)
Count ==
  /\ Program!CertifyIncident("er") \/ Program!ExpireIncident("er")
  /\ UNCHANGED <<attestations, quarantined>>

Tick == Program!Tick /\ UNCHANGED <<attestations, quarantined>>

ReferenceNext ==
  /\ \/ \E m \in Voters, d \in Decisions, n \in 0..LastNonce : Submit(m, d, n)
     \/ \E m \in Voters : Quarantine(m)
     \/ Count
     \/ Tick
  /\ calledOff' = (calledOff \/ Outcome = "Impossible")

ReferenceSpec == ReferenceInit /\ [][ReferenceNext]_referenceVars

-----------------------------------------------------------------------------
Attestations ==
  [member : Voters, decision : Decisions, submission_nonce : Nat,
   state : {"Submitted", "Superseded", "InvalidatedByQuarantine"}]

ReferenceTypeOK ==
  /\ now \in Nat \ {0}
  /\ core \in Program!Cores
  /\ ballot \in [Voters -> Program!BallotRecords(Nat, Nat)]
  /\ attestations \subseteq Attestations
  /\ quarantined \subseteq Voters
  /\ calledOff \in BOOLEAN

(* The epoch has not ended, or outlasts the window.  The program does    *)
(* not look at the epoch once an incident is initialized; the reference    *)
(* does, on every submission.                                              *)
EpochCovers == now < EpochEnds \/ core.expires_at_slot <= EpochEnds

(* Whatever the order of submissions, replacements and quarantines, the    *)
(* two count the same approvals and the same rejections, of the same       *)
(* members (tally; evaluate_incident), while the epoch lasts.              *)
TalliesAgree ==
  core.status = "Collecting" /\ EpochCovers =>
    /\ Program!Counted(ballot, "Approve") = Approving
    /\ Program!Counted(ballot, "Reject") = Rejecting

(* A member has at most one attestation that still carries weight, so the  *)
(* reference may take the first it finds (binding_attestation: "At most    *)
(* one record per member can be in either state").                         *)
OneBinding ==
  \A m \in Voters : \A a, b \in Binding(m) : a = b

(* The two take and refuse the same submissions: a replayed or superseded  *)
(* nonce, a quarantined member, a closed window (apply_attestation,        *)
(* submit_attestation).  A nonce of zero is refused by the program alone.  *)
AnswersAgree ==
  core.status = "Collecting" /\ EpochCovers =>
    \A m \in Voters, n \in 1..LastNonce :
      Takes(m, n) <=>
        Program!MayAttest("er", m, "Approve", n)

(* The program settles exactly what the reference evaluates, and never     *)
(* before the deadline unless it is certified (certify_incident,           *)
(* expire_incident; reference_parity.rs).                                  *)
SettlesAsEvaluated ==
  [][core'.status # core.status /\ EpochCovers =>
       /\ \/ core'.status = "CertifiedPendingSettlement" /\ Outcome = "Certified"
          \/ core'.status = "Expired" /\ Outcome = "Expired"
          \/ /\ core'.status = "RejectedByThreshold" /\ IsExpired
             /\ Outcome = "RejectedByThreshold"
       /\ core'.approvals = Cardinality(Approving)
       /\ core'.rejections = Cardinality(Rejecting)]_referenceVars

(* evaluate.rs says of Impossible that the threshold can no longer be      *)
(* reached: what was once called impossible is never certified.            *)
ImpossibleIsFinal == calledOff => Outcome # "Certified"
=============================================================================
