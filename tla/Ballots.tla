------------------------------- MODULE Ballots -------------------------------
(***************************************************************************)
(* The counting rules of a sealed quorum, as pure operators.               *)
(*                                                                         *)
(* Translated from programs/vinct-core/src/incident.rs: the ballot record  *)
(* of one member, what it counts as, the tally over a set of ballots, the  *)
(* threshold, and the terminal status a tally implies (settle_terminal in  *)
(* lib.rs).  Nothing here is recursive: a tally is two cardinalities, which*)
(* is what the saturating u8 loop computes for at most eight ballots.      *)
(***************************************************************************)
EXTENDS Naturals, FiniteSets

Decisions == {"None", "Approve", "Reject", "Abstain"}

BallotStates == {"Empty", "Submitted", "Quarantined", "Scrubbed"}

Statuses == {"Draft", "Collecting", "CertifiedPendingSettlement",
             "Expired", "RejectedByThreshold"}

(* IncidentStatus::is_terminal.  The source also lists Aborted, which no   *)
(* handler ever writes.                                                    *)
Terminal == {"CertifiedPendingSettlement", "Expired", "RejectedByThreshold"}

BallotRecords(Slots, Nonces) ==
  [state : BallotStates, decision : Decisions, submission_nonce : Nonces,
   submitted_at_slot : Slots, has_decision : BOOLEAN, zeroized : BOOLEAN]

(* What initialize_attestation writes: the flag starts TRUE.               *)
EmptyBallot ==
  [state |-> "Empty", decision |-> "None", submission_nonce |-> 0,
   submitted_at_slot |-> 0, has_decision |-> FALSE, zeroized |-> TRUE]

(* protected_fields_are_zero reads the bytes, never the flag.              *)
ProtectedFieldsAreZero(b) ==
  /\ ~b.has_decision
  /\ b.decision = "None"
  /\ b.submission_nonce = 0
  /\ b.submitted_at_slot = 0

MayLeave(b) == ProtectedFieldsAreZero(b) /\ b.zeroized

(* Mutant of Scrub: the nonce survives.                                    *)
Scrub_KeepsNonce(b) ==
  [EmptyBallot EXCEPT !.state = "Scrubbed",
                      !.submission_nonce = b.submission_nonce]

Scrub(b) == [EmptyBallot EXCEPT !.state = "Scrubbed"]

(* Mutant of CountsAs: quarantine erases rejections as well.               *)
CountsAs_Symmetric(b) ==
  IF ~b.has_decision \/ b.state = "Quarantined" THEN "None" ELSE b.decision

(* Quarantine discards an approval and keeps a rejection.                  *)
CountsAs(b) ==
  IF \/ ~b.has_decision
     \/ b.decision = "Approve" /\ b.state = "Quarantined"
  THEN "None"
  ELSE b.decision

(* Mutant of MayBeCounted: a quarantined ballot stops the count.           *)
MayBeCounted_NotQuarantined(b) == b.state \in {"Empty", "Submitted"}

MayBeCounted(b) == b.state \in {"Empty", "Submitted", "Quarantined"}

Counted(ballots, d) == {m \in DOMAIN ballots : CountsAs(ballots[m]) = d}

Tally(ballots) == [approvals  |-> Cardinality(Counted(ballots, "Approve")),
                   rejections |-> Cardinality(Counted(ballots, "Reject"))]

(* Mutant of Meets: the rejection ceiling is forgotten.                    *)
Meets_NoCeiling(t, required, maximum) == t.approvals >= required

Meets(t, required, maximum) ==
  t.rejections <= maximum /\ t.approvals >= required

(* The terminal status settle_terminal writes for a tally.                 *)
TerminalStatus(t, required, maximum) ==
  IF Meets(t, required, maximum) THEN "CertifiedPendingSettlement"
  ELSE IF t.rejections > maximum THEN "RejectedByThreshold"
  ELSE "Expired"
=============================================================================
