-------------------------------- MODULE MCWire --------------------------------
(* One conversation at a time: the run is about one of these pieces, and   *)
(* the others keep their initial values.                                   *)
EXTENDS Vectors, ClientCalls, ClientAccounts, Verification, Routing, Reference

VARIABLE piece

Pieces == {"parity", "delivery", "calls", "accounts", "verify", "routing",
           "reference"}
Quiet == net.base = "old" /\ net.listed = {} /\ net.home = Nobody

Init ==
  /\ piece \in Pieces
  /\ VectorInit(IF piece \in {"parity", "delivery"} THEN piece ELSE "none")
  /\ CallsInit /\ AccountsInit /\ VerifyInit
  /\ RoutingInit /\ (piece = "routing" \/ Quiet)
  /\ ReferenceInit

wire_pieces == <<vectorVars, callVars, accountVars, verifyVars, routingVars,
                 referenceVars>>

Next ==
  /\ UNCHANGED piece
  /\ IF piece \in {"parity", "delivery"} THEN VectorNext ELSE UNCHANGED vectorVars
  /\ IF piece = "calls" THEN CallsNext ELSE UNCHANGED callVars
  /\ IF piece = "accounts" THEN AccountsNext ELSE UNCHANGED accountVars
  /\ IF piece = "verify" THEN VerifyNext ELSE UNCHANGED verifyVars
  /\ IF piece = "routing" THEN RoutingNext ELSE UNCHANGED routingVars
  /\ IF piece = "reference" THEN ReferenceNext ELSE UNCHANGED referenceVars

Spec == Init /\ [][Next]_<<piece, wire_pieces>>
===============================================================================
