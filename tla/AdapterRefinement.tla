-------------------------- MODULE AdapterRefinement --------------------------
(* The adapter's accounts, read as an EffectLedger. *)
EXTENDS Adapter

Ledger == INSTANCE EffectLedger WITH
  done      <- Executed,
  pauses    <- [m \in Markets |-> market[m].update_count],
  forgetful <- {m \in Markets : market[m].demo}

(* Receipts and markets together behave like a ledger in which a pair of   *)
(* operation and capability is entered once and each entry is one pause,   *)
(* whatever the authorities do in between (execute_bounded_action,         *)
(* pause_new_borrowing, reset_demo_market).                                *)
ImplementsEffectLedger == Ledger!LedgerSpec
=============================================================================
