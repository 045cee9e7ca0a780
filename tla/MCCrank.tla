-------------------------------- MODULE MCCrank ------------------------------
(* Instances of an incident and its expiry task for TLC. *)
EXTENDS ExpiryCrank

WholeFamily == {Members}
=============================================================================
