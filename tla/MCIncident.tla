------------------------------ MODULE MCIncident -----------------------------
(* Instances of one incident for TLC. *)
EXTENDS IncidentRefinement, TLC

(* Every set a list of member_count ballots can name. *)
AnyFamily == (SUBSET Members) \ {{}}

(* The lists packages/client builds: the frozen set, each member once. *)
WholeFamily == {Members}

Symmetry == Permutations(Members)
=============================================================================
