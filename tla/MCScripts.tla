------------------------------ MODULE MCScripts ------------------------------
(* The proof scripts, one by one, with three members. *)
EXTENDS Drivers

WholeFamily == {Members}
==============================================================================
