------------------------------- MODULE Adapter -------------------------------
(***************************************************************************)
(* The sovereign adapter (vinct-adapter) with the markets it may pause     *)
(* (vinct-mock-protocol).                                                  *)
(*                                                                         *)
(* A protocol authority installs a capability, arms it, and may suspend,   *)
(* resume, renew or revoke it.  The authority of a market registers the    *)
(* signer of one capability.  Anybody may then exercise a capability with  *)
(* the certificate of an operation; a receipt per operation and capability *)
(* remembers that it happened.                                             *)
(*                                                                         *)
(* The terms of an operation (cluster, covenant, epoch, policy, members)   *)
(* are part of its identity, and those of a capability never change after  *)
(* its one installation: both are constants here, and so is the market a   *)
(* capability is pinned to.                                                *)
(***************************************************************************)
EXTENDS Integers, FiniteSets

CONSTANTS
  Operations,    \* operation ids, none of them zero
  Capabilities,  \* capability accounts, one adapter signer each
  Markets,       \* protocol_state accounts
  Terms,         \* cluster, covenant, epoch, policy and member set, as one
  TermsOf,       \* the terms an operation id commits to
  BoundTo,       \* the terms a capability is armed against
  MarketOf,      \* the protocol_state a capability is pinned to
  Windows,       \* validity windows <<from, until>> an authority may choose
  Expiries,      \* bound: the expiry slots that are chosen
  None,          \* Pubkey::default() and the zero operation id
  MaxSlot        \* bound: the last slot of the clock

ASSUME AdapterAssumption ==
  /\ IsFiniteSet(Operations) /\ IsFiniteSet(Capabilities)
  /\ TermsOf \in [Operations -> Terms]
  /\ BoundTo \in [Capabilities -> Terms]
  /\ MarketOf \in [Capabilities -> Markets]
  /\ Windows \subseteq Nat \X Nat /\ Expiries \subseteq Nat \ {0}
  /\ None \notin Operations \cup Capabilities
  /\ MaxSlot \in Nat

VARIABLES
  slot,         \* Clock::get()?.slot on the base layer
  certificate,  \* expires_at_slot of an operation's certificate; 0: none
  capability,   \* SovereignCapability
  receipt,      \* AdapterReceipt of each operation and capability
  market        \* ProtocolMarket

accounts == <<capability, receipt, market>>

adapterVars == <<slot, certificate, accounts>>

Uninstalled ==
  [installed |-> FALSE, armed |-> FALSE, suspended |-> FALSE,
   valid_from_slot |-> 0, expires_at_slot |-> 0,
   capability_nonce |-> 0, last_operation_id |-> None]

NoReceipt == [created |-> FALSE, executed |-> FALSE, executed_at_slot |-> 0]

NoMarket ==
  [created |-> FALSE, demo |-> FALSE, adapter_signer |-> None,
   new_borrowing_paused |-> FALSE, last_operation_id |-> None,
   update_count |-> 0]

SovereignCapabilities ==
  [installed : BOOLEAN, armed : BOOLEAN, suspended : BOOLEAN,
   valid_from_slot : Nat, expires_at_slot : Nat,
   capability_nonce : Nat, last_operation_id : Operations \cup {None}]

AdapterReceipts ==
  [created : BOOLEAN, executed : BOOLEAN, executed_at_slot : Nat]

ProtocolMarkets ==
  [created : BOOLEAN, demo : BOOLEAN,
   adapter_signer : Capabilities \cup {None}, new_borrowing_paused : BOOLEAN,
   last_operation_id : Operations \cup {None}, update_count : Nat]

AdapterTypeOK ==
  /\ slot \in 0..MaxSlot
  /\ certificate \in [Operations -> Nat]
  /\ capability \in [Capabilities -> SovereignCapabilities]
  /\ receipt \in [Operations \X Capabilities -> AdapterReceipts]
  /\ market \in [Markets -> ProtocolMarkets]

AdapterInit ==
  /\ slot = 0
  /\ certificate = [op \in Operations |-> 0]
  /\ capability = [c \in Capabilities |-> Uninstalled]
  /\ receipt = [p \in Operations \X Capabilities |-> NoReceipt]
  /\ market = [m \in Markets |-> NoMarket]

-----------------------------------------------------------------------------
(* The base-layer clock, and the certificate as the adapter sees it: its   *)
(* expiry was fixed at certification, so it may be published already       *)
(* expired.  publish_certificate itself is an action of Incident.          *)

Tick ==
  /\ slot < MaxSlot
  /\ slot' = slot + 1
  /\ UNCHANGED <<certificate, accounts>>

PublishCertificate(op, expiry) ==
  /\ certificate[op] = 0
  /\ certificate' = [certificate EXCEPT ![op] = expiry]
  /\ UNCHANGED <<slot, accounts>>

-----------------------------------------------------------------------------
(* The protocol authority.                                                 *)

InstallCapability(c, w) ==
  /\ ~capability[c].installed
  /\ w[2] > w[1]
  /\ capability' = [capability EXCEPT ![c] =
       [Uninstalled EXCEPT !.installed = TRUE,
                           !.valid_from_slot = w[1],
                           !.expires_at_slot = w[2]]]
  /\ UNCHANGED <<slot, certificate, receipt, market>>

(* Arming also lifts a suspension.                                         *)
ArmCapability(c) ==
  /\ capability[c].installed /\ ~capability[c].armed
  /\ capability' = [capability EXCEPT ![c].armed = TRUE,
                                      ![c].suspended = FALSE]
  /\ UNCHANGED <<slot, certificate, receipt, market>>

SuspendCapability(c) ==
  /\ capability[c].installed
  /\ capability' = [capability EXCEPT ![c].suspended = TRUE]
  /\ UNCHANGED <<slot, certificate, receipt, market>>

ResumeCapability(c) ==
  /\ capability[c].armed
  /\ capability' = [capability EXCEPT ![c].suspended = FALSE]
  /\ UNCHANGED <<slot, certificate, receipt, market>>

RenewCapability(c, expiry) ==
  /\ capability[c].installed
  /\ expiry > capability[c].expires_at_slot
  /\ capability' = [capability EXCEPT ![c].expires_at_slot = expiry]
  /\ UNCHANGED <<slot, certificate, receipt, market>>

RevokeCapability(c) ==
  /\ capability[c].installed
  /\ capability' = [capability EXCEPT ![c].armed = FALSE,
                                      ![c].suspended = TRUE,
                                      ![c].expires_at_slot = 0]
  /\ UNCHANGED <<slot, certificate, receipt, market>>

-----------------------------------------------------------------------------
(* The market's authority, and its demo authority.                         *)

(* demo: whether a demo authority is named, once and for all.              *)
InitializeMarket(m, demo) ==
  /\ ~market[m].created
  /\ market' = [market EXCEPT ![m] =
       [NoMarket EXCEPT !.created = TRUE, !.demo = demo]]
  /\ UNCHANGED <<slot, certificate, capability, receipt>>

(* signer = None clears the registration.                                  *)
SetAdapter(m, signer) ==
  /\ market[m].created
  /\ market' = [market EXCEPT ![m].adapter_signer = signer]
  /\ UNCHANGED <<slot, certificate, capability, receipt>>

(* Mutant of ResetDemoMarket: the operation stamp survives.                *)
ResetDemoMarket_KeepsStamp(m) ==
  /\ market[m].created /\ market[m].demo
  /\ market' = [market EXCEPT ![m].new_borrowing_paused = FALSE,
                              ![m].update_count = 0]
  /\ UNCHANGED <<slot, certificate, capability, receipt>>

ResetDemoMarket(m) ==
  /\ market[m].created /\ market[m].demo
  /\ market' = [market EXCEPT ![m].new_borrowing_paused = FALSE,
                              ![m].last_operation_id = None,
                              ![m].update_count = 0]
  /\ UNCHANGED <<slot, certificate, capability, receipt>>

-----------------------------------------------------------------------------
(* Anybody.                                                                *)

InitializeAdapterReceipt(op, c) ==
  /\ capability[c].installed
  /\ ~receipt[<<op, c>>].created
  /\ receipt' = [receipt EXCEPT ![<<op, c>>].created = TRUE]
  /\ UNCHANGED <<slot, certificate, capability, market>>

(* The guards of pause_new_borrowing, called by the signer of c.           *)
PauseAccepts(op, c) ==
  LET m == MarketOf[c] IN
  /\ market[m].adapter_signer = c
  /\ market[m].last_operation_id # op

(* Mutant of CertificateLicenses: an expired certificate still acts.       *)
CertificateLicenses_Expired(op, c) ==
  certificate[op] # 0 /\ TermsOf[op] = BoundTo[c]

(* The certificate exists, is one of these terms, and has not expired.     *)
CertificateLicenses(op, c) ==
  slot < certificate[op] /\ TermsOf[op] = BoundTo[c]

CapabilityLive(c) ==
  /\ slot >= capability[c].valid_from_slot
  /\ slot < capability[c].expires_at_slot
  /\ capability[c].armed /\ ~capability[c].suspended

(* Mutant of NotConsumed: the receipt is not looked at.                    *)
NotConsumed_NoReceipt(op, c) ==
  receipt[<<op, c>>].created /\ capability[c].last_operation_id # op

NotConsumed(op, c) ==
  /\ receipt[<<op, c>>].created /\ ~receipt[<<op, c>>].executed
  /\ capability[c].last_operation_id # op

(* Every check of execute_bounded_action, those of its CPI included.       *)
Executable(op, c) ==
  /\ CertificateLicenses(op, c)
  /\ CapabilityLive(c)
  /\ NotConsumed(op, c)
  /\ PauseAccepts(op, c)

(* Two capabilities of one market cannot act in the same transaction: the  *)
(* market refuses the second, because it already names the operation.      *)
OnePerMarket(S) == \A c, d \in S : MarketOf[c] = MarketOf[d] => c = d

(* What the executions of op by the capabilities in S write, in one        *)
(* transaction.                                                            *)
Apply(op, S) ==
  LET paused == {MarketOf[c] : c \in S} IN
  /\ capability' = [c \in Capabilities |->
       IF c \in S
       THEN [capability[c] EXCEPT !.last_operation_id = op,
                                  !.capability_nonce = @ + 1]
       ELSE capability[c]]
  /\ receipt' = [p \in Operations \X Capabilities |->
       IF p[1] = op /\ p[2] \in S
       THEN [receipt[p] EXCEPT !.executed = TRUE, !.executed_at_slot = slot]
       ELSE receipt[p]]
  /\ market' = [m \in Markets |->
       IF m \in paused
       THEN [market[m] EXCEPT !.new_borrowing_paused = TRUE,
                              !.last_operation_id = op,
                              !.update_count = @ + 1]
       ELSE market[m]]

ExecuteBoundedAction(op, c) ==
  /\ Executable(op, c)
  /\ Apply(op, {c})
  /\ UNCHANGED <<slot, certificate>>

-----------------------------------------------------------------------------
AuthorityNext(c) ==
  \/ \E w \in Windows : InstallCapability(c, w)
  \/ ArmCapability(c)
  \/ SuspendCapability(c)
  \/ ResumeCapability(c)
  \/ \E expiry \in Expiries : RenewCapability(c, expiry)
  \/ RevokeCapability(c)

MarketNext(m) ==
  \/ \E demo \in BOOLEAN : InitializeMarket(m, demo)
  \/ \E signer \in Capabilities \cup {None} : SetAdapter(m, signer)
  \/ ResetDemoMarket(m)

AdapterNext ==
  \/ Tick
  \/ \E op \in Operations, expiry \in Expiries : PublishCertificate(op, expiry)
  \/ \E c \in Capabilities : AuthorityNext(c)
  \/ \E m \in Markets : MarketNext(m)
  \/ \E op \in Operations, c \in Capabilities :
       InitializeAdapterReceipt(op, c) \/ ExecuteBoundedAction(op, c)

AdapterSpec == AdapterInit /\ [][AdapterNext]_adapterVars

-----------------------------------------------------------------------------
Executed == {p \in Operations \X Capabilities : receipt[p].executed}

ExecutedBy(c) == {p \in Executed : p[2] = c}

ExecutedOn(m) == {p \in Executed : MarketOf[p[2]] = m}

(* Three accounts of three programs tell one story: a capability's nonce   *)
(* counts its receipts, and so does the update count of a market nobody    *)
(* may reset.  Redelivery, re-arming, a change of signer and any order of  *)
(* operations included, no receipt stands for two pauses and no pause is   *)
(* without a receipt (execute_bounded_action and pause_new_borrowing).     *)
CountsAgree ==
  /\ \A c \in Capabilities :
       capability[c].capability_nonce = Cardinality(ExecutedBy(c))
  /\ \A m \in Markets :
       ~market[m].demo =>
         market[m].update_count = Cardinality(ExecutedOn(m))

(* Whatever became of the capability since, each receipt was written under *)
(* a certificate of the terms it was armed against, before that expired    *)
(* and not before the capability became valid (the checks of               *)
(* execute_bounded_action).                                                *)
ReceiptsAreBacked ==
  \A p \in Executed :
    /\ TermsOf[p[1]] = BoundTo[p[2]]
    /\ receipt[p].executed_at_slot < certificate[p[1]]
    /\ receipt[p].executed_at_slot >= capability[p[2]].valid_from_slot

(* A paused market names the operation that paused it, one of its          *)
(* capabilities holds the receipt, and an unpaused one names none: what    *)
(* the monitor's target reader relies on (pause_new_borrowing, demo reset).*)
PauseIsStamped ==
  \A m \in Markets :
    /\ market[m].new_borrowing_paused <=> market[m].last_operation_id # None
    /\ market[m].new_borrowing_paused =>
         \E p \in ExecutedOn(m) : p[1] = market[m].last_operation_id

(* What the three invariants above rest on: nobody acts through an account *)
(* before it is installed or initialized, and what was installed stays.    *)
BlankUntilCreated ==
  /\ \A c \in Capabilities :
       capability[c].installed \/ capability[c] = Uninstalled
  /\ \A p \in Executed : capability[p[2]].installed
  /\ \A m \in Markets : market[m].created \/ market[m] = NoMarket

AdapterInv ==
  AdapterTypeOK /\ BlankUntilCreated /\ ReceiptsAreBacked /\ CountsAgree
=============================================================================
