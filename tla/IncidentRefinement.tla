-------------------------- MODULE IncidentRefinement -------------------------
(***************************************************************************)
(* Incident implements SealedQuorum.  The ballots are the votes while the  *)
(* incident collects; once it is settled they are forgotten, so that a     *)
(* scrub, an exit or a second delegation is a stutter.                     *)
(***************************************************************************)
EXTENDS Incident

Collecting == core.status = "Collecting"

Phase ==
  CASE core.status = "Draft" -> "unopened"
    [] Collecting            -> "open"
    [] OTHER                 -> "decided"

Votes == [m \in Members |-> IF Collecting THEN ballot[m].decision ELSE "None"]

Struck ==
  IF Collecting THEN {m \in Members : ballot[m].state = "Quarantined"} ELSE {}

Outcome ==
  [verdict    |-> IF IsTerminal THEN core.status ELSE "None",
   approvals  |-> core.approvals,
   rejections |-> core.rejections]

Quorum == INSTANCE SealedQuorum
  WITH phase <- Phase, vote <- Votes, struck <- Struck,
       late <- Collecting /\ IsExpired, outcome <- Outcome

(* Every step of an incident is a step of the sealed quorum or changes     *)
(* nothing it promises: one decision, taken once, early only on a quorum,  *)
(* from votes cast inside the window, objections surviving a quarantine.   *)
ImplementsSealedQuorum == Quorum!QSpec
=============================================================================
