----------------------------- MODULE MCFormation -----------------------------
(* Three protocols in a circle of at most two: the page names p1 and p2,   *)
(* the steward's script may name p3; p1's wallet comes and goes in the tab.*)
EXTENDS Formation

CONSTANTS p1, p2, p3

MCTab == {p1}
MCNamed == <<p1, p2>>
MCThresholds == {1, 2}
=============================================================================
