------------------------------ MODULE MCAdapter ------------------------------
(* Instances of the adapter for TLC. *)
EXTENDS AdapterRefinement, TLC

CONSTANTS o1, o2, c1, c2, m1, t1

(* Two capabilities of one market: the signer may be rotated. *)
OneMarket == [c \in Capabilities |-> m1]

OpTerms == [op \in Operations |-> t1]

CapTerms == [c \in Capabilities |-> t1]

Symmetry == Permutations(Operations) \cup Permutations(Capabilities)

TwoWindows == {<<0, 1>>, <<1, 2>>}
=============================================================================
