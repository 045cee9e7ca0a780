---------------------------- MODULE SealedQuorum -----------------------------
(***************************************************************************)
(* What a private incident promises, without accounts, layers, nonces or   *)
(* scrubs: members vote and may change their mind until the window closes; *)
(* the opener may strike a member; the vote is decided once, early only if *)
(* the quorum holds; the votes are then forgotten and the decision stands. *)
(***************************************************************************)
EXTENDS Naturals, FiniteSets

CONSTANTS Members, RequiredApprovals, MaximumRejections

VARIABLES
  phase,    \* "unopened", "open" or "decided"
  vote,     \* the current decision of each member
  struck,   \* the members whose approval no longer counts
  late,     \* has the response window closed?
  outcome   \* the decision and its counts

qvars == <<phase, vote, struck, late, outcome>>

NoVotes == [m \in Members |-> "None"]

Undecided == [verdict |-> "None", approvals |-> 0, rejections |-> 0]

Approvals == Cardinality({m \in Members \ struck : vote[m] = "Approve"})

(* A struck member's rejection still stands. *)
Rejections == Cardinality({m \in Members : vote[m] = "Reject"})

Quorum == Approvals >= RequiredApprovals /\ Rejections <= MaximumRejections

Verdict ==
  IF Quorum THEN "CertifiedPendingSettlement"
  ELSE IF Rejections > MaximumRejections THEN "RejectedByThreshold"
  ELSE "Expired"

QInit ==
  /\ phase = "unopened" /\ late = FALSE
  /\ vote = NoVotes /\ struck = {} /\ outcome = Undecided

Open ==
  /\ phase = "unopened"
  /\ phase' = "open"
  /\ UNCHANGED <<vote, struck, late, outcome>>

Vote(m, d) ==
  /\ phase = "open" /\ ~late /\ m \notin struck
  /\ vote' = [vote EXCEPT ![m] = d]
  /\ UNCHANGED <<phase, struck, late, outcome>>

Strike(m) ==
  /\ phase = "open"
  /\ struck' = struck \cup {m}
  /\ UNCHANGED <<phase, vote, late, outcome>>

CloseWindow ==
  /\ phase = "open" /\ ~late
  /\ late' = TRUE
  /\ UNCHANGED <<phase, vote, struck, outcome>>

Decide ==
  /\ phase = "open"
  /\ late \/ Quorum
  /\ phase' = "decided"
  /\ outcome' = [verdict |-> Verdict, approvals |-> Approvals,
                 rejections |-> Rejections]
  /\ vote' = NoVotes /\ struck' = {} /\ late' = FALSE

QNext ==
  \/ Open \/ CloseWindow \/ Decide
  \/ \E m \in Members :
       Strike(m) \/ \E d \in {"Approve", "Reject", "Abstain"} : Vote(m, d)

QSpec == QInit /\ [][QNext]_qvars
=============================================================================
