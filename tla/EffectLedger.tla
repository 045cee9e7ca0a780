----------------------------- MODULE EffectLedger ----------------------------
(***************************************************************************)
(* What a circle and its protocols may rely on, without certificates,      *)
(* capabilities, receipts or a committor: an operation takes effect        *)
(* through a capability at most once, for ever, and each effect is one     *)
(* pause of the one market the capability is pinned to.                    *)
(***************************************************************************)
EXTENDS Naturals

CONSTANTS Operations, Capabilities, Markets, MarketOf

VARIABLES
  done,     \* the pairs <<operation, capability>> that took effect
  pauses,   \* how often each market was paused, for all it remembers
  forgetful \* the markets that may forget

ledgerVars == <<done, pauses, forgetful>>

LedgerInit ==
  /\ done = {}
  /\ pauses = [m \in Markets |-> 0]
  /\ forgetful = {}

(* Capabilities of different markets may act for op in one transaction.    *)
Take(op, S) ==
  /\ S # {}
  /\ \A c \in S : <<op, c>> \notin done
  /\ \A c, d \in S : MarketOf[c] = MarketOf[d] => c = d
  /\ done' = done \cup {<<op, c>> : c \in S}
  /\ pauses' = [m \in Markets |->
       IF \E c \in S : MarketOf[c] = m THEN pauses[m] + 1 ELSE pauses[m]]
  /\ UNCHANGED forgetful

(* A market is made forgetful before its first pause, or never.            *)
Allow(m) ==
  /\ pauses[m] = 0
  /\ forgetful' = forgetful \cup {m}
  /\ UNCHANGED <<done, pauses>>

(* A forgetful market loses its count; the ledger does not.                *)
Forget(m) ==
  /\ m \in forgetful
  /\ pauses' = [pauses EXCEPT ![m] = 0]
  /\ UNCHANGED <<done, forgetful>>

LedgerNext ==
  \/ \E op \in Operations, S \in SUBSET Capabilities : Take(op, S)
  \/ \E m \in Markets : Allow(m) \/ Forget(m)

LedgerSpec == LedgerInit /\ [][LedgerNext]_ledgerVars
=============================================================================
