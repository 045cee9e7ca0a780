----------------------------- MODULE Settlement -----------------------------
(***************************************************************************)
(* The base-layer accounts of one operation's settlement, and the cohort   *)
(* of post-commit actions that is supposed to write them.                  *)
(*                                                                         *)
(* A cohort is one intent: it commits and undelegates the operation        *)
(* account and then runs an adapter action per protocol and, last, the     *)
(* action that finalizes the settlement receipt.  One attempt is atomic.   *)
(* When an action of it fails the committor takes every action out and     *)
(* lands the commit alone.  The adapter program and finalize_settlement    *)
(* answer any caller, so effects also appear without a cohort.             *)
(***************************************************************************)
EXTENDS Naturals, FiniteSets

CONSTANTS Adapters,     \* the protocols of the covenant, one action each
          MaxCohort,    \* MAX_COHORT_ACTIONS
          MaxTouches    \* bound: how often the protocols' owners interfere

ASSUME CohortAssumption ==
  /\ IsFiniteSet(Adapters) /\ Adapters # {}
  /\ MaxCohort \in Nat /\ MaxTouches \in Nat

VARIABLES certificate,  \* has publish_certificate created it
          settlement,   \* the settlement receipt: "none", "open" or "final"
          receipt,      \* adapter receipts: "none", "open" or "executed"
          market,       \* who paused the protocol: "nobody", "us", "other"
          touches,      \* how often that was changed from outside
          operation,    \* the delegatable account that carries the cohort
          cohort        \* the intent the committor holds

chain ==
  <<certificate, settlement, receipt, market, touches, operation, cohort>>

NoOperation == [place |-> "none", expected_action_count |-> 0,
                scheduled |-> FALSE, attempt_count |-> 0]
NoCohort == [phase |-> "none", adapters |-> {}]

SettlementInit ==
  /\ certificate = FALSE
  /\ settlement = "none"
  /\ receipt = [a \in Adapters |-> "none"]
  /\ market = [a \in Adapters |-> "nobody"]
  /\ touches = 0
  /\ operation = NoOperation
  /\ cohort = NoCohort

-----------------------------------------------------------------------------
(* Accounts made ahead of the cohort, because an action cannot make them.  *)

PublishCertificate ==
  /\ ~certificate
  /\ certificate' = TRUE
  /\ UNCHANGED <<touches, settlement, receipt, market, operation, cohort>>

InitializeSettlementReceipt ==
  /\ certificate /\ settlement = "none"
  /\ settlement' = "open"
  /\ UNCHANGED <<touches, certificate, receipt, market, operation, cohort>>

(* Its address holds the operation id alone: it may be made before the     *)
(* certificate is published.                                               *)
InitializeAdapterReceipt(a) ==
  /\ receipt[a] = "none"
  /\ receipt' = [receipt EXCEPT ![a] = "open"]
  /\ UNCHANGED <<touches, certificate, settlement, market, operation, cohort>>

InitializeOperation(n) ==
  /\ certificate /\ operation.place = "none"
  /\ n \in 1..MaxCohort
  /\ operation' = [NoOperation EXCEPT !.place = "base",
                                      !.expected_action_count = n]
  /\ UNCHANGED <<touches, certificate, settlement, receipt, market, cohort>>

DelegateOperation ==
  /\ operation.place = "base"
  /\ operation' = [operation EXCEPT !.place = "er"]
  /\ UNCHANGED <<touches, certificate, settlement, receipt, market, cohort>>

-----------------------------------------------------------------------------
(* The cohort.                                                             *)

CohortFits(members) ==
  /\ Cardinality(members) \in 1..(MaxCohort - 1)
  /\ operation.expected_action_count = Cardinality(members) + 1

AcceptIntent(members) ==
  /\ operation' = [operation EXCEPT !.place = "leaving", !.scheduled = TRUE,
                                    !.attempt_count = @ + 1]
  /\ cohort' = [phase |-> "pending", adapters |-> members]
  /\ UNCHANGED <<touches, certificate, settlement, receipt, market>>

(* The flag and the count are written before the intent is built, so the   *)
(* image that lands already says that an intent was accepted.              *)
ScheduleSettlementCohort(members) ==
  /\ operation.place = "er"
  /\ ~operation.scheduled
  /\ CohortFits(members)
  /\ AcceptIntent(members)

CanExecute(a) == certificate /\ receipt[a] = "open"

CanFinalize == certificate /\ settlement = "open"

ExecuteAll(members) ==
  /\ receipt' = [a \in Adapters |->
                   IF a \in members THEN "executed" ELSE receipt[a]]
  /\ market' = [a \in Adapters |-> IF a \in members THEN "us" ELSE market[a]]

Return == operation' = [operation EXCEPT !.place = "base"]

LandCohort ==
  /\ cohort.phase = "pending"
  /\ \A a \in cohort.adapters : CanExecute(a)
  /\ CanFinalize
  /\ ExecuteAll(cohort.adapters)
  /\ settlement' = "final"
  /\ cohort' = [cohort EXCEPT !.phase = "applied"]
  /\ Return
  /\ UNCHANGED <<touches, certificate>>

(* An attempt also fails for reasons outside these accounts (a capability  *)
(* that was suspended, compute, the target program), so stripping needs no *)
(* failed guard here.                                                      *)
LandStripped ==
  /\ cohort.phase = "pending"
  /\ cohort' = [cohort EXCEPT !.phase = "stripped"]
  /\ Return
  /\ UNCHANGED <<touches, certificate, settlement, receipt, market>>

-----------------------------------------------------------------------------
(* Everybody else.                                                         *)

(* execute_bounded_action called as an ordinary instruction.               *)
ExecuteDirectly(a) ==
  /\ CanExecute(a)
  /\ ExecuteAll({a})
  /\ UNCHANGED <<touches, certificate, settlement, operation, cohort>>

FinalizeSettlement ==
  /\ CanFinalize
  /\ settlement' = "final"
  /\ UNCHANGED <<touches, certificate, receipt, market, operation, cohort>>

(* reset_demo_market, and a pause under another operation's stamp.         *)
TouchMarket(a, who) ==
  /\ market[a] # who /\ touches < MaxTouches
  /\ touches' = touches + 1
  /\ market' = [market EXCEPT ![a] = who]
  /\ UNCHANGED <<certificate, settlement, receipt, operation, cohort>>

Prepare ==
  \/ PublishCertificate
  \/ InitializeSettlementReceipt
  \/ \E a \in Adapters : InitializeAdapterReceipt(a)
  \/ \E n \in 1..MaxCohort : InitializeOperation(n)
  \/ DelegateOperation

Committor == LandCohort \/ LandStripped

Anybody ==
  \/ FinalizeSettlement
  \/ \E a \in Adapters :
       \/ ExecuteDirectly(a)
       \/ \E who \in {"nobody", "other"} : TouchMarket(a, who)

SettlementNext ==
  \/ Prepare
  \/ \E members \in SUBSET Adapters : ScheduleSettlementCohort(members)
  \/ Committor
  \/ Anybody
=============================================================================
