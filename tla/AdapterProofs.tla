---------------------------- MODULE AdapterProofs ----------------------------
(***************************************************************************)
(* Theorems about the adapter, for every set of operations, capabilities   *)
(* and markets.  What an execution does is proved of Apply(op, S), for one *)
(* capability or for a cohort, and used for both.                          *)
(***************************************************************************)
EXTENDS AdapterRefinement, FiniteSetTheorems, TLAPS

-----------------------------------------------------------------------------
(* The type invariant holds.                                               *)

LEMMA ConstantTypes == MaxSlot \in Nat /\ Windows \subseteq Nat \X Nat
                       /\ Expiries \subseteq Nat \ {0}
BY AdapterAssumption DEF AdapterAssumption

(* What the handlers write over one account is an account again.           *)
LEMMA CapabilityUpdates ==
  ASSUME NEW x \in SovereignCapabilities
  PROVE  /\ [x EXCEPT !.armed = TRUE, !.suspended = FALSE]
              \in SovereignCapabilities
         /\ [x EXCEPT !.suspended = TRUE] \in SovereignCapabilities
         /\ [x EXCEPT !.suspended = FALSE] \in SovereignCapabilities
         /\ \A e \in Nat :
              [x EXCEPT !.expires_at_slot = e] \in SovereignCapabilities
         /\ [x EXCEPT !.armed = FALSE, !.suspended = TRUE,
                      !.expires_at_slot = 0] \in SovereignCapabilities
BY DEF SovereignCapabilities

LEMMA ExecutedCapability ==
  ASSUME NEW x \in SovereignCapabilities, NEW op \in Operations
  PROVE  [x EXCEPT !.last_operation_id = op, !.capability_nonce = @ + 1]
           \in SovereignCapabilities
<1>1. ASSUME NEW n \in Nat
      PROVE  [x EXCEPT !.last_operation_id = op, !.capability_nonce = n]
               \in SovereignCapabilities
  BY DEF SovereignCapabilities
<1>2. x.capability_nonce + 1 \in Nat
  BY DEF SovereignCapabilities
<1> QED BY <1>1, <1>2

LEMMA ReceiptUpdates ==
  ASSUME NEW x \in AdapterReceipts
  PROVE  /\ [x EXCEPT !.created = TRUE] \in AdapterReceipts
         /\ \A s \in Nat : [x EXCEPT !.executed = TRUE,
                                     !.executed_at_slot = s] \in AdapterReceipts
BY DEF AdapterReceipts

LEMMA MarketUpdates ==
  ASSUME NEW x \in ProtocolMarkets
  PROVE  /\ \A signer \in Capabilities \cup {None} :
              [x EXCEPT !.adapter_signer = signer] \in ProtocolMarkets
         /\ [x EXCEPT !.new_borrowing_paused = FALSE,
                      !.last_operation_id = None,
                      !.update_count = 0] \in ProtocolMarkets
BY DEF ProtocolMarkets

LEMMA PausedMarket ==
  ASSUME NEW x \in ProtocolMarkets, NEW op \in Operations
  PROVE  [x EXCEPT !.new_borrowing_paused = TRUE, !.last_operation_id = op,
                   !.update_count = @ + 1] \in ProtocolMarkets
<1>1. ASSUME NEW n \in Nat
      PROVE  [x EXCEPT !.new_borrowing_paused = TRUE, !.last_operation_id = op,
                       !.update_count = n] \in ProtocolMarkets
  BY DEF ProtocolMarkets
<1>2. x.update_count + 1 \in Nat
  BY DEF ProtocolMarkets
<1> QED BY <1>1, <1>2

LEMMA ApplyTypes ==
  ASSUME AdapterTypeOK, NEW op \in Operations, NEW S \in SUBSET Capabilities,
         Apply(op, S)
  PROVE  /\ capability' \in [Capabilities -> SovereignCapabilities]
         /\ receipt' \in [Operations \X Capabilities -> AdapterReceipts]
         /\ market' \in [Markets -> ProtocolMarkets]
<1>1. slot \in Nat
  BY ConstantTypes DEF AdapterTypeOK
<1>2. capability' \in [Capabilities -> SovereignCapabilities]
  BY ExecutedCapability DEF Apply, AdapterTypeOK
<1>3. receipt' \in [Operations \X Capabilities -> AdapterReceipts]
  BY <1>1, ReceiptUpdates DEF Apply, AdapterTypeOK
<1>4. market' \in [Markets -> ProtocolMarkets]
  BY PausedMarket DEF Apply, AdapterTypeOK
<1> QED BY <1>2, <1>3, <1>4

(* Every field of every account keeps its range under every handler of the *)
(* adapter and of the markets.                                             *)
THEOREM AdapterTypeCorrect == AdapterSpec => []AdapterTypeOK
<1>1. AdapterInit => AdapterTypeOK
  <2>1. /\ Uninstalled \in SovereignCapabilities
        /\ NoReceipt \in AdapterReceipts
        /\ NoMarket \in ProtocolMarkets
    BY DEF Uninstalled, NoReceipt, NoMarket, SovereignCapabilities,
           AdapterReceipts, ProtocolMarkets
  <2> QED BY <2>1, ConstantTypes DEF AdapterInit, AdapterTypeOK
<1>2. AdapterTypeOK /\ [AdapterNext]_adapterVars => AdapterTypeOK'
  <2> SUFFICES ASSUME AdapterTypeOK, [AdapterNext]_adapterVars
               PROVE  AdapterTypeOK'
    OBVIOUS
  <2> USE DEF AdapterTypeOK
  <2>1. CASE Tick
    BY <2>1, ConstantTypes DEF Tick, accounts
  <2>2. ASSUME NEW op \in Operations, NEW expiry \in Expiries,
               PublishCertificate(op, expiry)
        PROVE  AdapterTypeOK'
    BY <2>2, ConstantTypes DEF PublishCertificate, accounts
  <2>3. ASSUME NEW c \in Capabilities, AuthorityNext(c)
        PROVE  AdapterTypeOK'
    <3>1. ASSUME NEW w \in Windows, InstallCapability(c, w)
          PROVE  AdapterTypeOK'
      <4>1. w[1] \in Nat /\ w[2] \in Nat
        BY ConstantTypes
      <4>2. [Uninstalled EXCEPT !.installed = TRUE, !.valid_from_slot = w[1],
               !.expires_at_slot = w[2]] \in SovereignCapabilities
        BY <4>1 DEF Uninstalled, SovereignCapabilities
      <4> QED BY <3>1, <4>2 DEF InstallCapability
    <3>2. ASSUME NEW expiry \in Expiries, RenewCapability(c, expiry)
          PROVE  AdapterTypeOK'
      BY <3>2, ConstantTypes, CapabilityUpdates DEF RenewCapability
    <3>3. CASE ArmCapability(c)
      BY <3>3, CapabilityUpdates DEF ArmCapability
    <3>4. CASE SuspendCapability(c)
      BY <3>4, CapabilityUpdates DEF SuspendCapability
    <3>5. CASE ResumeCapability(c)
      BY <3>5, CapabilityUpdates DEF ResumeCapability
    <3>6. CASE RevokeCapability(c)
      BY <3>6, CapabilityUpdates DEF RevokeCapability
    <3> QED BY <2>3, <3>1, <3>2, <3>3, <3>4, <3>5, <3>6 DEF AuthorityNext
  <2>4. ASSUME NEW m \in Markets, MarketNext(m)
        PROVE  AdapterTypeOK'
    <3>1. ASSUME NEW demo \in BOOLEAN, InitializeMarket(m, demo)
          PROVE  AdapterTypeOK'
      <4>1. [NoMarket EXCEPT !.created = TRUE, !.demo = demo]
              \in ProtocolMarkets
        BY DEF NoMarket, ProtocolMarkets
      <4> QED BY <3>1, <4>1 DEF InitializeMarket
    <3>2. ASSUME NEW signer \in Capabilities \cup {None}, SetAdapter(m, signer)
          PROVE  AdapterTypeOK'
      BY <3>2, MarketUpdates DEF SetAdapter
    <3>3. CASE ResetDemoMarket(m)
      BY <3>3, MarketUpdates DEF ResetDemoMarket
    <3> QED BY <2>4, <3>1, <3>2, <3>3 DEF MarketNext
  <2>5. ASSUME NEW op \in Operations, NEW c \in Capabilities,
               InitializeAdapterReceipt(op, c)
        PROVE  AdapterTypeOK'
    BY <2>5, ReceiptUpdates DEF InitializeAdapterReceipt
  <2>6. ASSUME NEW op \in Operations, NEW c \in Capabilities,
               ExecuteBoundedAction(op, c)
        PROVE  AdapterTypeOK'
    <3>1. {c} \in SUBSET Capabilities /\ Apply(op, {c})
      BY <2>6 DEF ExecuteBoundedAction
    <3> QED BY <3>1, <2>6, ApplyTypes DEF ExecuteBoundedAction
  <2>7. CASE UNCHANGED adapterVars
    BY <2>7 DEF adapterVars, accounts
  <2> QED BY <2>1, <2>2, <2>3, <2>4, <2>5, <2>6, <2>7 DEF AdapterNext
<1> QED BY <1>1, <1>2, PTL DEF AdapterSpec
-----------------------------------------------------------------------------
(* What a step does to the receipts of the past.                           *)

LEMMA PairFacts ==
  ASSUME NEW p \in Operations \X Capabilities
  PROVE  p[1] \in Operations /\ p[2] \in Capabilities /\ p = <<p[1], p[2]>>
OBVIOUS

(* An execution adds the receipts of its cohort and keeps the others.      *)
LEMMA ApplyEffects ==
  ASSUME AdapterTypeOK, NEW op \in Operations, NEW S \in SUBSET Capabilities,
         Apply(op, S), \A c \in S : Executable(op, c)
  PROVE  /\ Executed' = Executed \cup {<<op, c>> : c \in S}
         /\ \A c \in S : <<op, c>> \in Operations \X Capabilities
                         /\ <<op, c>> \notin Executed
                         /\ receipt'[<<op, c>>].executed_at_slot = slot
         /\ \A p \in Executed : receipt'[p] = receipt[p]
<1>1. \A c \in S : <<op, c>> \in Operations \X Capabilities
  OBVIOUS
<1>2. \A c \in S : <<op, c>> \notin Executed
  BY DEF Executable, NotConsumed, Executed
<1>3. ASSUME NEW p \in Operations \X Capabilities
      PROVE  receipt'[p] = IF p[1] = op /\ p[2] \in S
                           THEN [receipt[p] EXCEPT !.executed = TRUE,
                                                   !.executed_at_slot = slot]
                           ELSE receipt[p]
  BY DEF Apply
<1>4. ASSUME NEW p \in Operations \X Capabilities, p[1] = op, p[2] \in S
      PROVE  receipt'[p].executed /\ receipt'[p].executed_at_slot = slot
  <2>1. receipt[p] \in AdapterReceipts
    BY DEF AdapterTypeOK
  <2> QED BY <2>1, <1>3, <1>4 DEF AdapterReceipts
<1>5. ASSUME NEW p \in Operations \X Capabilities, ~(p[1] = op /\ p[2] \in S)
      PROVE  receipt'[p] = receipt[p]
  BY <1>3, <1>5
<1>6. ASSUME NEW p \in Executed
      PROVE  receipt'[p] = receipt[p]
  <2>1. p \in Operations \X Capabilities
    BY DEF Executed
  <2>2. p = <<p[1], p[2]>>
    BY <2>1, PairFacts
  <2>3. ~(p[1] = op /\ p[2] \in S)
    BY <2>2, <1>2
  <2> QED BY <2>1, <2>3, <1>5
<1>7. Executed' = Executed \cup {<<op, c>> : c \in S}
  <2>1. ASSUME NEW p \in Executed'
        PROVE  p \in Executed \cup {<<op, c>> : c \in S}
    <3>1. p \in Operations \X Capabilities /\ receipt'[p].executed
      BY DEF Executed
    <3>2. CASE p[1] = op /\ p[2] \in S
      BY <3>1, <3>2, PairFacts
    <3>3. CASE ~(p[1] = op /\ p[2] \in S)
      BY <3>1, <3>3, <1>5 DEF Executed
    <3> QED BY <3>2, <3>3
  <2>2. ASSUME NEW p \in Executed
        PROVE  p \in Executed'
    BY <1>6 DEF Executed
  <2>3. ASSUME NEW c \in S
        PROVE  <<op, c>> \in Executed'
    BY <1>1, <1>4 DEF Executed
  <2> QED BY <2>1, <2>2, <2>3
<1> QED BY <1>1, <1>2, <1>4, <1>6, <1>7

(* No handler but an execution touches an executed receipt or makes one.   *)
LEMMA ReceiptsKept ==
  ASSUME AdapterTypeOK,
         \/ UNCHANGED receipt
         \/ \E op \in Operations, c \in Capabilities :
              InitializeAdapterReceipt(op, c)
  PROVE  /\ Executed' = Executed
         /\ \A p \in Executed :
              receipt'[p].executed_at_slot = receipt[p].executed_at_slot
<1>1. CASE UNCHANGED receipt
  BY <1>1 DEF Executed
<1>2. ASSUME NEW op \in Operations, NEW c \in Capabilities,
             InitializeAdapterReceipt(op, c)
      PROVE  /\ Executed' = Executed
             /\ \A p \in Executed :
                  receipt'[p].executed_at_slot = receipt[p].executed_at_slot
  <2>1. ASSUME NEW p \in Operations \X Capabilities
        PROVE  /\ receipt'[p].executed = receipt[p].executed
               /\ receipt'[p].executed_at_slot = receipt[p].executed_at_slot
    <3>1. receipt[p] \in AdapterReceipts
      BY DEF AdapterTypeOK
    <3>2. CASE p = <<op, c>>
      <4>1. receipt'[p] = [receipt[p] EXCEPT !.created = TRUE]
        BY <1>2, <3>2 DEF InitializeAdapterReceipt, AdapterTypeOK
      <4> QED BY <4>1, <3>1 DEF AdapterReceipts
    <3>3. CASE p # <<op, c>>
      BY <1>2, <3>3 DEF InitializeAdapterReceipt, AdapterTypeOK
    <3> QED BY <3>2, <3>3
  <2> QED BY <2>1 DEF Executed
<1> QED BY <1>1, <1>2

(* An authority cannot rewrite the past of its capability: once installed, *)
(* the start of the window and the nonce are out of its reach.             *)
LEMMA AuthorityKeeps ==
  ASSUME AdapterTypeOK, BlankUntilCreated,
         NEW d \in Capabilities, AuthorityNext(d), NEW c \in Capabilities
  PROVE  /\ UNCHANGED <<slot, certificate, receipt, market>>
         /\ capability'[c].installed \/ capability'[c] = Uninstalled
         /\ capability'[c].capability_nonce = capability[c].capability_nonce
         /\ capability[c].installed =>
              /\ capability'[c].installed
              /\ capability'[c].valid_from_slot = capability[c].valid_from_slot
<1>1. capability[c] \in SovereignCapabilities
  BY DEF AdapterTypeOK
<1>2. ASSUME NEW w \in Windows, InstallCapability(d, w), c = d
      PROVE  /\ ~capability[c].installed
             /\ capability'[c].installed
             /\ capability'[c].capability_nonce = capability[c].capability_nonce
  <2>1. LET x == [Uninstalled EXCEPT !.installed = TRUE,
                    !.valid_from_slot = w[1], !.expires_at_slot = w[2]]
        IN  x.installed /\ x.capability_nonce = Uninstalled.capability_nonce
    BY DEF Uninstalled
  <2> QED BY <1>2, <2>1 DEF InstallCapability, AdapterTypeOK, BlankUntilCreated
<1>3. ASSUME NEW x \in SovereignCapabilities, NEW e \in Nat
      PROVE  \A y \in {[x EXCEPT !.armed = TRUE, !.suspended = FALSE],
                       [x EXCEPT !.suspended = TRUE],
                       [x EXCEPT !.suspended = FALSE],
                       [x EXCEPT !.expires_at_slot = e],
                       [x EXCEPT !.armed = FALSE, !.suspended = TRUE,
                                 !.expires_at_slot = 0]} :
               /\ y.installed = x.installed
               /\ y.valid_from_slot = x.valid_from_slot
               /\ y.capability_nonce = x.capability_nonce
  BY DEF SovereignCapabilities
<1>4. ASSUME c = d, ~(\E w \in Windows : InstallCapability(d, w))
      PROVE  /\ capability[c].installed /\ capability'[c].installed
             /\ capability'[c].valid_from_slot = capability[c].valid_from_slot
             /\ capability'[c].capability_nonce = capability[c].capability_nonce
  <2>1. CASE ArmCapability(d)
    BY <2>1, <1>1, <1>3, <1>4 DEF ArmCapability, AdapterTypeOK
  <2>2. CASE SuspendCapability(d)
    BY <2>2, <1>1, <1>3, <1>4 DEF SuspendCapability, AdapterTypeOK
  <2>3. CASE ResumeCapability(d)
    <3>1. capability[c].installed
      BY <2>3, <1>4 DEF ResumeCapability, BlankUntilCreated, Uninstalled
    <3> QED BY <2>3, <3>1, <1>1, <1>3, <1>4 DEF ResumeCapability, AdapterTypeOK
  <2>4. ASSUME NEW expiry \in Expiries, RenewCapability(d, expiry)
        PROVE  /\ capability[c].installed /\ capability'[c].installed
               /\ capability'[c].valid_from_slot = capability[c].valid_from_slot
               /\ capability'[c].capability_nonce
                    = capability[c].capability_nonce
    BY <2>4, <1>1, <1>3, <1>4, ConstantTypes DEF RenewCapability, AdapterTypeOK
  <2>5. CASE RevokeCapability(d)
    BY <2>5, <1>1, <1>3, <1>4 DEF RevokeCapability, AdapterTypeOK
  <2> QED BY <1>4, <2>1, <2>2, <2>3, <2>4, <2>5 DEF AuthorityNext
<1>5. UNCHANGED <<slot, certificate, receipt, market>>
  BY DEF AuthorityNext, InstallCapability, ArmCapability, SuspendCapability,
         ResumeCapability, RenewCapability, RevokeCapability
<1>6. CASE c # d
  <2>1. capability'[c] = capability[c]
    BY <1>6 DEF AuthorityNext, InstallCapability, ArmCapability,
       SuspendCapability, ResumeCapability, RenewCapability, RevokeCapability,
       AdapterTypeOK
  <2> QED BY <2>1, <1>5 DEF BlankUntilCreated
<1> QED BY <1>2, <1>4, <1>5, <1>6

(* No authority of a market changes how often it was paused, save a demo   *)
(* reset, nor takes an account away.                                       *)
LEMMA MarketKeeps ==
  ASSUME AdapterTypeOK, BlankUntilCreated,
         NEW n \in Markets, MarketNext(n), NEW m \in Markets
  PROVE  /\ UNCHANGED <<slot, certificate, capability, receipt>>
         /\ market'[m].created \/ market'[m] = NoMarket
         /\ ~market'[m].demo =>
              /\ ~market[m].demo
              /\ market'[m].update_count = market[m].update_count
         /\ \/ market'[m].update_count = market[m].update_count
            \/ ResetDemoMarket(m)
<1>1. market[m] \in ProtocolMarkets
  BY DEF AdapterTypeOK
<1>2. ASSUME NEW demo \in BOOLEAN, InitializeMarket(n, demo)
      PROVE  /\ UNCHANGED <<slot, certificate, capability, receipt>>
             /\ market'[m].created \/ market'[m] = NoMarket
             /\ ~market'[m].demo => ~market[m].demo
             /\ market'[m].update_count = market[m].update_count
  <2>1. CASE m = n
    <3>1. market[m] = NoMarket
      BY <1>2, <2>1 DEF InitializeMarket, BlankUntilCreated
    <3>2. market'[m] = [NoMarket EXCEPT !.created = TRUE, !.demo = demo]
      BY <1>2, <2>1 DEF InitializeMarket, AdapterTypeOK
    <3> QED BY <1>2, <3>1, <3>2 DEF InitializeMarket, NoMarket
  <2>2. CASE m # n
    BY <1>2, <2>2 DEF InitializeMarket, AdapterTypeOK, BlankUntilCreated
  <2> QED BY <2>1, <2>2
<1>3. ASSUME NEW signer \in Capabilities \cup {None}, SetAdapter(n, signer)
      PROVE  /\ UNCHANGED <<slot, certificate, capability, receipt>>
             /\ market'[m].created \/ market'[m] = NoMarket
             /\ market'[m].demo = market[m].demo
             /\ market'[m].update_count = market[m].update_count
  <2>1. CASE m = n
    <3>1. market'[m] = [market[m] EXCEPT !.adapter_signer = signer]
      BY <1>3, <2>1 DEF SetAdapter, AdapterTypeOK
    <3> QED BY <1>3, <3>1, <1>1, <2>1 DEF SetAdapter, ProtocolMarkets
  <2>2. CASE m # n
    BY <1>3, <2>2 DEF SetAdapter, AdapterTypeOK, BlankUntilCreated
  <2> QED BY <2>1, <2>2
<1>4. CASE ResetDemoMarket(n)
  <2>1. CASE m = n
    <3>1. market'[m] = [market[m] EXCEPT !.new_borrowing_paused = FALSE,
                          !.last_operation_id = None, !.update_count = 0]
      BY <1>4, <2>1 DEF ResetDemoMarket, AdapterTypeOK
    <3>2. /\ market'[m].created = market[m].created
          /\ market'[m].demo = market[m].demo
      BY <3>1, <1>1 DEF ProtocolMarkets
    <3>3. /\ ResetDemoMarket(m) /\ market[m].created /\ market[m].demo
          /\ UNCHANGED <<slot, certificate, capability, receipt>>
      BY <1>4, <2>1 DEF ResetDemoMarket
    <3> QED BY <3>2, <3>3
  <2>2. CASE m # n
    BY <1>4, <2>2 DEF ResetDemoMarket, AdapterTypeOK, BlankUntilCreated
  <2> QED BY <2>1, <2>2
<1> QED BY <1>2, <1>3, <1>4 DEF MarketNext

-----------------------------------------------------------------------------
(* Counting receipts.                                                      *)

LEMMA ExecutedIsFinite ==
  ASSUME NEW S \in SUBSET (Operations \X Capabilities)
  PROVE  IsFiniteSet(S)
<1>1. IsFiniteSet(Operations) /\ IsFiniteSet(Capabilities)
  BY AdapterAssumption DEF AdapterAssumption
<1>2. IsFiniteSet(Operations \X Capabilities)
  BY <1>1, FS_Product
<1> QED BY <1>2, FS_Subset

(* A cohort adds one receipt to each of its capabilities, and to each of   *)
(* the markets those are pinned to.                                        *)
LEMMA ApplyCounts ==
  ASSUME AdapterTypeOK, NEW op \in Operations, NEW S \in SUBSET Capabilities,
         Apply(op, S), \A c \in S : Executable(op, c), OnePerMarket(S),
         CountsAgree
  PROVE  CountsAgree'
<1>1. /\ Executed' = Executed \cup {<<op, c>> : c \in S}
      /\ \A c \in S : <<op, c>> \notin Executed
  BY ApplyEffects
<1>2. ASSUME NEW c \in Capabilities
      PROVE  capability'[c].capability_nonce = Cardinality(ExecutedBy(c)')
  <2>1. IsFiniteSet(ExecutedBy(c))
    BY ExecutedIsFinite DEF ExecutedBy, Executed
  <2>2. CASE c \in S
    <3>1. ExecutedBy(c)' = ExecutedBy(c) \cup {<<op, c>>}
      BY <1>1, <2>2 DEF ExecutedBy
    <3>2. <<op, c>> \notin ExecutedBy(c)
      BY <1>1, <2>2 DEF ExecutedBy
    <3>3. Cardinality(ExecutedBy(c)') = Cardinality(ExecutedBy(c)) + 1
      BY <2>1, <3>1, <3>2, FS_AddElement
    <3>4. capability[c] \in SovereignCapabilities
      BY DEF AdapterTypeOK
    <3>5. capability'[c] = [capability[c] EXCEPT !.last_operation_id = op,
                                                 !.capability_nonce = @ + 1]
      BY <2>2 DEF Apply
    <3>6. capability'[c].capability_nonce = capability[c].capability_nonce + 1
      BY <3>4, <3>5 DEF SovereignCapabilities
    <3> QED BY <3>3, <3>6 DEF CountsAgree
  <2>3. CASE c \notin S
    <3>1. ExecutedBy(c)' = ExecutedBy(c)
      BY <1>1, <2>3 DEF ExecutedBy
    <3>2. capability'[c] = capability[c]
      BY <2>3 DEF Apply
    <3> QED BY <3>1, <3>2 DEF CountsAgree
  <2> QED BY <2>2, <2>3
<1>3. ASSUME NEW m \in Markets, ~market'[m].demo
      PROVE  market'[m].update_count = Cardinality(ExecutedOn(m)')
  <2>1. IsFiniteSet(ExecutedOn(m))
    BY ExecutedIsFinite DEF ExecutedOn, Executed
  <2>2. ASSUME NEW c \in S, MarketOf[c] = m
        PROVE  market'[m].update_count = Cardinality(ExecutedOn(m)')
    <3>1. ExecutedOn(m)' = ExecutedOn(m) \cup {<<op, c>>}
      BY <1>1, <2>2 DEF ExecutedOn, OnePerMarket
    <3>2. <<op, c>> \notin ExecutedOn(m)
      BY <1>1, <2>2 DEF ExecutedOn
    <3>3. Cardinality(ExecutedOn(m)') = Cardinality(ExecutedOn(m)) + 1
      BY <2>1, <3>1, <3>2, FS_AddElement
    <3>4. market[m] \in ProtocolMarkets
      BY DEF AdapterTypeOK
    <3>5. market'[m] = [market[m] EXCEPT !.new_borrowing_paused = TRUE,
                          !.last_operation_id = op, !.update_count = @ + 1]
      BY <2>2 DEF Apply
    <3>6. /\ market'[m].update_count = market[m].update_count + 1
          /\ market'[m].demo = market[m].demo
      BY <3>4, <3>5 DEF ProtocolMarkets
    <3> QED BY <1>3, <3>3, <3>6 DEF CountsAgree
  <2>3. CASE \A c \in S : MarketOf[c] # m
    <3>1. ExecutedOn(m)' = ExecutedOn(m)
      BY <1>1, <2>3 DEF ExecutedOn
    <3>2. market'[m] = market[m]
      BY <2>3 DEF Apply
    <3> QED BY <1>3, <3>1, <3>2 DEF CountsAgree
  <2> QED BY <2>2, <2>3
<1> QED BY <1>2, <1>3 DEF CountsAgree

-----------------------------------------------------------------------------
(* The inductive invariant.                                                *)

LEMMA AdapterInvInit == AdapterInit /\ AdapterTypeOK => AdapterInv
<1> SUFFICES ASSUME AdapterInit, AdapterTypeOK
             PROVE  AdapterInv
  OBVIOUS
<1>1. Executed = {}
  BY DEF AdapterInit, NoReceipt, Executed
<1>2. \A c \in Capabilities : /\ capability[c] = Uninstalled
                               /\ capability[c].capability_nonce = 0
  BY DEF AdapterInit, Uninstalled
<1>3. \A m \in Markets : market[m] = NoMarket /\ market[m].update_count = 0
  BY DEF AdapterInit, NoMarket
<1>4. CountsAgree
  BY <1>1, <1>2, <1>3, FS_EmptySet DEF CountsAgree, ExecutedBy, ExecutedOn
<1> QED BY <1>1, <1>2, <1>3, <1>4
        DEF AdapterInv, BlankUntilCreated, ReceiptsAreBacked

(* Every step but an execution keeps what the receipts stand on.           *)
LEMMA AccountsKept ==
  ASSUME AdapterInv, [AdapterNext]_adapterVars,
         ~ \E op \in Operations, c \in Capabilities : ExecuteBoundedAction(op, c)
  PROVE  /\ Executed' = Executed
         /\ \A p \in Executed :
              /\ receipt'[p].executed_at_slot = receipt[p].executed_at_slot
              /\ certificate'[p[1]] = certificate[p[1]]
         /\ \A c \in Capabilities :
              /\ capability'[c].installed \/ capability'[c] = Uninstalled
              /\ capability'[c].capability_nonce
                   = capability[c].capability_nonce
              /\ capability[c].installed =>
                   /\ capability'[c].installed
                   /\ capability'[c].valid_from_slot
                        = capability[c].valid_from_slot
         /\ \A m \in Markets :
              /\ market'[m].created \/ market'[m] = NoMarket
              /\ ~market'[m].demo =>
                   /\ ~market[m].demo
                   /\ market'[m].update_count = market[m].update_count
<1> USE DEF AdapterInv
<1>1. CASE Tick \/ UNCHANGED adapterVars
  BY <1>1, ReceiptsKept DEF Tick, accounts, adapterVars, BlankUntilCreated
<1>2. ASSUME NEW op \in Operations, NEW expiry \in Expiries,
             PublishCertificate(op, expiry)
      PROVE  /\ UNCHANGED accounts
             /\ \A p \in Executed : certificate'[p[1]] = certificate[p[1]]
  <2>1. \A p \in Executed : p[1] # op
    <3> SUFFICES ASSUME NEW p \in Executed, p[1] = op
                 PROVE  FALSE
      OBVIOUS
    <3>1. receipt[p].executed_at_slot < 0
      BY <1>2 DEF ReceiptsAreBacked, PublishCertificate
    <3>2. receipt[p].executed_at_slot \in Nat
      BY DEF AdapterTypeOK, AdapterReceipts, Executed
    <3> QED BY <3>1, <3>2
  <2>2. \A p \in Executed : p[1] \in Operations
    BY DEF Executed
  <2> QED BY <1>2, <2>1, <2>2 DEF PublishCertificate, AdapterTypeOK
<1>3. CASE UNCHANGED accounts
           /\ \A p \in Executed : certificate'[p[1]] = certificate[p[1]]
  BY <1>3, ReceiptsKept DEF accounts, BlankUntilCreated
<1>4. ASSUME NEW c \in Capabilities, AuthorityNext(c)
      PROVE  /\ UNCHANGED <<certificate, receipt, market>>
             /\ \A d \in Capabilities :
                  /\ capability'[d].installed \/ capability'[d] = Uninstalled
                  /\ capability'[d].capability_nonce
                       = capability[d].capability_nonce
                  /\ capability[d].installed =>
                       /\ capability'[d].installed
                       /\ capability'[d].valid_from_slot
                            = capability[d].valid_from_slot
  BY <1>4, AuthorityKeeps
<1>5. ASSUME NEW m \in Markets, MarketNext(m)
      PROVE  /\ UNCHANGED <<certificate, capability, receipt>>
             /\ \A n \in Markets :
                  /\ market'[n].created \/ market'[n] = NoMarket
                  /\ ~market'[n].demo =>
                       /\ ~market[n].demo
                       /\ market'[n].update_count = market[n].update_count
  BY <1>5, MarketKeeps
<1>6. ASSUME NEW op \in Operations, NEW c \in Capabilities,
             InitializeAdapterReceipt(op, c)
      PROVE  /\ UNCHANGED <<certificate, capability, market>>
             /\ Executed' = Executed
             /\ \A p \in Executed :
                  receipt'[p].executed_at_slot = receipt[p].executed_at_slot
  BY <1>6, ReceiptsKept DEF InitializeAdapterReceipt
<1>7. CASE \E c \in Capabilities : AuthorityNext(c)
  BY <1>4, <1>7, ReceiptsKept DEF BlankUntilCreated
<1>8. CASE \E m \in Markets : MarketNext(m)
  BY <1>5, <1>8, ReceiptsKept DEF BlankUntilCreated
<1>9. CASE \E op \in Operations, c \in Capabilities :
             InitializeAdapterReceipt(op, c)
  BY <1>6, <1>9 DEF BlankUntilCreated
<1> QED BY <1>1, <1>2, <1>3, <1>7, <1>8, <1>9 DEF AdapterNext

(* A cohort of executions leaves receipts that are backed.                 *)
LEMMA ApplyBacked ==
  ASSUME AdapterInv, NEW op \in Operations, NEW S \in SUBSET Capabilities,
         Apply(op, S), \A c \in S : Executable(op, c), UNCHANGED certificate
  PROVE  BlankUntilCreated' /\ ReceiptsAreBacked'
<1> USE DEF AdapterInv
<1>1. /\ Executed' = Executed \cup {<<op, c>> : c \in S}
      /\ \A c \in S : receipt'[<<op, c>>].executed_at_slot = slot
      /\ \A p \in Executed : receipt'[p] = receipt[p]
  BY ApplyEffects
<1>2. ASSUME NEW c \in Capabilities
      PROVE  /\ capability'[c].installed = capability[c].installed
             /\ capability'[c].valid_from_slot = capability[c].valid_from_slot
  <2>1. capability[c] \in SovereignCapabilities
    BY DEF AdapterTypeOK
  <2>2. CASE c \in S
    <3>1. capability'[c] = [capability[c] EXCEPT !.last_operation_id = op,
                                                 !.capability_nonce = @ + 1]
      BY <2>2 DEF Apply
    <3> QED BY <2>1, <3>1 DEF SovereignCapabilities
  <2>3. CASE c \notin S
    BY <2>3 DEF Apply
  <2> QED BY <2>2, <2>3
<1>3. ASSUME NEW c \in S
      PROVE  /\ capability[c].installed
             /\ TermsOf[op] = BoundTo[c]
             /\ slot < certificate[op]
             /\ slot >= capability[c].valid_from_slot
             /\ market[MarketOf[c]].created
  <2>1. MarketOf[c] \in Markets /\ c # None
    BY AdapterAssumption DEF AdapterAssumption
  <2>2. market[MarketOf[c]].adapter_signer # None
    BY <2>1 DEF Executable, PauseAccepts
  <2>3. market[MarketOf[c]].created
    BY <2>1, <2>2 DEF BlankUntilCreated, NoMarket
  <2>4. capability[c].installed
    BY DEF Executable, CapabilityLive, BlankUntilCreated, Uninstalled
  <2> QED BY <2>3, <2>4 DEF Executable, CertificateLicenses, CapabilityLive
<1>4. \A p \in Executed : p[1] \in Operations /\ p[2] \in Capabilities
  BY DEF Executed
<1>5. \A p \in Executed' : capability'[p[2]].installed
  BY <1>1, <1>2, <1>3, <1>4 DEF BlankUntilCreated
<1>6. ASSUME NEW c \in Capabilities
      PROVE  capability'[c].installed \/ capability'[c] = Uninstalled
  BY <1>2, <1>3 DEF Apply, BlankUntilCreated
<1>7. ASSUME NEW m \in Markets
      PROVE  market'[m].created \/ market'[m] = NoMarket
  <2>1. market[m] \in ProtocolMarkets
    BY DEF AdapterTypeOK
  <2>2. ASSUME NEW c \in S, MarketOf[c] = m
        PROVE  market'[m].created
    <3>1. market'[m] = [market[m] EXCEPT !.new_borrowing_paused = TRUE,
                          !.last_operation_id = op, !.update_count = @ + 1]
      BY <2>2 DEF Apply
    <3> QED BY <3>1, <2>1, <2>2, <1>3 DEF ProtocolMarkets
  <2>3. CASE \A c \in S : MarketOf[c] # m
    BY <2>3 DEF Apply, BlankUntilCreated
  <2> QED BY <2>2, <2>3
<1>8. ReceiptsAreBacked'
  <2> SUFFICES ASSUME NEW p \in Executed'
               PROVE  /\ TermsOf[p[1]] = BoundTo[p[2]]
                      /\ receipt'[p].executed_at_slot < certificate'[p[1]]
                      /\ receipt'[p].executed_at_slot
                           >= capability'[p[2]].valid_from_slot
    BY DEF ReceiptsAreBacked
  <2>1. CASE p \in Executed
    BY <2>1, <1>1, <1>2, <1>4 DEF ReceiptsAreBacked
  <2>2. ASSUME NEW c \in S, p = <<op, c>>
        PROVE  /\ TermsOf[p[1]] = BoundTo[p[2]]
               /\ receipt'[p].executed_at_slot < certificate'[p[1]]
               /\ receipt'[p].executed_at_slot
                    >= capability'[p[2]].valid_from_slot
    BY <2>2, <1>1, <1>2, <1>3
  <2> QED BY <2>1, <2>2, <1>1
<1> QED BY <1>5, <1>6, <1>7, <1>8 DEF BlankUntilCreated

LEMMA AdapterInvStep ==
  ASSUME AdapterInv, AdapterTypeOK', [AdapterNext]_adapterVars
  PROVE  AdapterInv'
<1>1. ASSUME NEW op \in Operations, NEW c \in Capabilities,
             ExecuteBoundedAction(op, c)
      PROVE  AdapterInv'
  <2>1. /\ {c} \in SUBSET Capabilities /\ OnePerMarket({c})
        /\ \A d \in {c} : Executable(op, d)
        /\ Apply(op, {c}) /\ UNCHANGED certificate
    BY <1>1 DEF ExecuteBoundedAction, OnePerMarket
  <2>2. BlankUntilCreated' /\ ReceiptsAreBacked'
    BY <2>1, ApplyBacked
  <2>3. CountsAgree'
    BY <2>1, ApplyCounts DEF AdapterInv
  <2> QED BY <2>2, <2>3 DEF AdapterInv
<1>2. ASSUME ~ \E op \in Operations, c \in Capabilities :
                 ExecuteBoundedAction(op, c)
      PROVE  AdapterInv'
  <2> USE DEF AdapterInv
  <2>1. /\ Executed' = Executed
        /\ \A p \in Executed :
             /\ receipt'[p].executed_at_slot = receipt[p].executed_at_slot
             /\ certificate'[p[1]] = certificate[p[1]]
        /\ \A c \in Capabilities :
             /\ capability'[c].installed \/ capability'[c] = Uninstalled
             /\ capability'[c].capability_nonce = capability[c].capability_nonce
             /\ capability[c].installed =>
                  /\ capability'[c].installed
                  /\ capability'[c].valid_from_slot
                       = capability[c].valid_from_slot
        /\ \A m \in Markets :
             /\ market'[m].created \/ market'[m] = NoMarket
             /\ ~market'[m].demo =>
                  /\ ~market[m].demo
                  /\ market'[m].update_count = market[m].update_count
    BY <1>2, AccountsKept
  <2>2. \A p \in Executed : p[2] \in Capabilities
    BY DEF Executed
  <2>3. BlankUntilCreated'
    BY <2>1, <2>2 DEF BlankUntilCreated
  <2>4. ReceiptsAreBacked'
    BY <2>1, <2>2 DEF ReceiptsAreBacked, BlankUntilCreated
  <2>5. CountsAgree'
    <3>1. \A c \in Capabilities : ExecutedBy(c)' = ExecutedBy(c)
      BY <2>1 DEF ExecutedBy
    <3>2. \A m \in Markets : ExecutedOn(m)' = ExecutedOn(m)
      BY <2>1 DEF ExecutedOn
    <3> QED BY <2>1, <3>1, <3>2 DEF CountsAgree
  <2> QED BY <2>3, <2>4, <2>5
<1> QED BY <1>1, <1>2

LEMMA AdapterInvariance == AdapterSpec => []AdapterInv
BY AdapterTypeCorrect, AdapterInvInit, AdapterInvStep, PTL DEF AdapterSpec

(* However operations, rotations, suspensions and renewals interleave, and *)
(* for any number of each, the nonce of a capability and the count of a    *)
(* market are the numbers of their receipts.                               *)
THEOREM CountsAlwaysAgree == AdapterSpec => []CountsAgree
BY AdapterInvariance, PTL DEF AdapterInv

(* Every receipt was written under a certificate of its own terms, before  *)
(* that expired and inside what the protocol had armed.                    *)
THEOREM ReceiptsAlwaysBacked == AdapterSpec => []ReceiptsAreBacked
BY AdapterInvariance, PTL DEF AdapterInv

-----------------------------------------------------------------------------
(* The stamp of a pause.                                                   *)

(* The authorities of a market leave its pause and its stamp alone, or     *)
(* clear both.                                                             *)
LEMMA StampKept ==
  ASSUME AdapterTypeOK, BlankUntilCreated,
         NEW n \in Markets, MarketNext(n), NEW m \in Markets
  PROVE  \/ /\ market'[m].new_borrowing_paused = market[m].new_borrowing_paused
            /\ market'[m].last_operation_id = market[m].last_operation_id
         \/ /\ market'[m].new_borrowing_paused = FALSE
            /\ market'[m].last_operation_id = None
<1>1. market[m] \in ProtocolMarkets
  BY DEF AdapterTypeOK
<1>2. ASSUME m # n PROVE market'[m] = market[m]
  BY <1>2 DEF MarketNext, InitializeMarket, SetAdapter, ResetDemoMarket,
     AdapterTypeOK
<1>3. ASSUME m = n, NEW demo \in BOOLEAN, InitializeMarket(n, demo)
      PROVE  /\ market'[m].new_borrowing_paused = FALSE
             /\ market'[m].last_operation_id = None
  <2>1. market'[m] = [NoMarket EXCEPT !.created = TRUE, !.demo = demo]
    BY <1>3 DEF InitializeMarket, AdapterTypeOK
  <2> QED BY <2>1 DEF NoMarket
<1>4. ASSUME m = n, NEW signer \in Capabilities \cup {None},
             SetAdapter(n, signer)
      PROVE  /\ market'[m].new_borrowing_paused
                  = market[m].new_borrowing_paused
             /\ market'[m].last_operation_id = market[m].last_operation_id
  <2>1. market'[m] = [market[m] EXCEPT !.adapter_signer = signer]
    BY <1>4 DEF SetAdapter, AdapterTypeOK
  <2> QED BY <1>1, <2>1 DEF ProtocolMarkets
<1>5. ASSUME m = n, ResetDemoMarket(n)
      PROVE  /\ market'[m].new_borrowing_paused = FALSE
             /\ market'[m].last_operation_id = None
  <2>1. market'[m] = [market[m] EXCEPT !.new_borrowing_paused = FALSE,
                        !.last_operation_id = None, !.update_count = 0]
    BY <1>5 DEF ResetDemoMarket, AdapterTypeOK
  <2> QED BY <1>1, <2>1 DEF ProtocolMarkets
<1> QED BY <1>2, <1>3, <1>4, <1>5 DEF MarketNext

(* A pause and its receipt are written together.                           *)
LEMMA StampStep ==
  ASSUME AdapterInv, PauseIsStamped, [AdapterNext]_adapterVars
  PROVE  PauseIsStamped'
<1> SUFFICES ASSUME NEW m \in Markets
             PROVE  /\ market'[m].new_borrowing_paused
                         <=> market'[m].last_operation_id # None
                    /\ market'[m].new_borrowing_paused =>
                         \E p \in ExecutedOn(m)' :
                           p[1] = market'[m].last_operation_id
  BY DEF PauseIsStamped
<1>1. AdapterTypeOK /\ BlankUntilCreated
  BY DEF AdapterInv
<1>2. ASSUME NEW op \in Operations, NEW c \in Capabilities,
             ExecuteBoundedAction(op, c)
      PROVE  /\ Executed' = Executed \cup {<<op, c>>}
             /\ \/ /\ MarketOf[c] = m
                   /\ market'[m].new_borrowing_paused = TRUE
                   /\ market'[m].last_operation_id = op
                \/ market'[m] = market[m]
  <2>1. /\ {c} \in SUBSET Capabilities /\ \A d \in {c} : Executable(op, d)
        /\ Apply(op, {c})
    BY <1>2 DEF ExecuteBoundedAction
  <2>2. Executed' = Executed \cup {<<op, d>> : d \in {c}}
    BY <1>1, <2>1, ApplyEffects
  <2>3. CASE MarketOf[c] = m
    <3>1. market'[m] = [market[m] EXCEPT !.new_borrowing_paused = TRUE,
                          !.last_operation_id = op, !.update_count = @ + 1]
      BY <2>1, <2>3 DEF Apply
    <3>2. market[m] \in ProtocolMarkets
      BY <1>1 DEF AdapterTypeOK
    <3> QED BY <2>2, <2>3, <3>1, <3>2 DEF ProtocolMarkets
  <2>4. CASE MarketOf[c] # m
    BY <2>1, <2>2, <2>4 DEF Apply
  <2> QED BY <2>3, <2>4
<1>3. Executed \subseteq Executed'
  BY <1>2, AccountsKept
<1>4. ASSUME market'[m].new_borrowing_paused = market[m].new_borrowing_paused,
             market'[m].last_operation_id = market[m].last_operation_id
      PROVE  /\ market'[m].new_borrowing_paused
                  <=> market'[m].last_operation_id # None
             /\ market'[m].new_borrowing_paused =>
                  \E p \in ExecutedOn(m)' :
                    p[1] = market'[m].last_operation_id
  BY <1>3, <1>4 DEF PauseIsStamped, ExecutedOn
<1>5. ASSUME NEW op \in Operations, NEW c \in Capabilities,
             ExecuteBoundedAction(op, c), MarketOf[c] = m,
             market'[m].new_borrowing_paused = TRUE,
             market'[m].last_operation_id = op
      PROVE  /\ op # None
             /\ \E p \in ExecutedOn(m)' : p[1] = op
  <2>1. op # None
    BY AdapterAssumption
  <2>2. <<op, c>> \in Executed'
    BY <1>2, <1>5
  <2>3. <<op, c>> \in ExecutedOn(m)'
    BY <1>5, <2>2 DEF ExecutedOn
  <2> QED BY <2>1, <2>3
<1>6. CASE UNCHANGED market
  BY <1>4, <1>6
<1>7. CASE \E n \in Markets : MarketNext(n)
  BY <1>1, <1>4, <1>7, StampKept
<1>8. CASE \E op \in Operations, c \in Capabilities :
             ExecuteBoundedAction(op, c)
  BY <1>2, <1>4, <1>5, <1>8
<1>9. CASE \E c \in Capabilities : AuthorityNext(c)
  BY <1>1, <1>6, <1>9, AuthorityKeeps
<1>10. CASE \/ Tick \/ UNCHANGED adapterVars
            \/ \E op \in Operations, expiry \in Expiries :
                 PublishCertificate(op, expiry)
            \/ \E op \in Operations, c \in Capabilities :
                 InitializeAdapterReceipt(op, c)
  BY <1>6, <1>10 DEF Tick, PublishCertificate, InitializeAdapterReceipt,
     adapterVars, accounts
<1> QED BY <1>7, <1>8, <1>9, <1>10 DEF AdapterNext

(* A market that is paused names the operation that paused it and one of   *)
(* its capabilities holds that receipt; a reset takes pause and stamp      *)
(* together, so no pause is ever somebody's without a trace.               *)
THEOREM PausesAreStamped == AdapterSpec => []PauseIsStamped
<1>1. AdapterInit => PauseIsStamped
  BY DEF AdapterInit, NoMarket, PauseIsStamped
<1>2. AdapterInv /\ PauseIsStamped /\ [AdapterNext]_adapterVars
        => PauseIsStamped'
  BY StampStep
<1> QED BY <1>1, <1>2, AdapterInvariance, PTL DEF AdapterSpec

-----------------------------------------------------------------------------
(* The refinement.                                                         *)

LEMMA LedgerStep ==
  ASSUME AdapterInv, [AdapterNext]_adapterVars
  PROVE  [Ledger!LedgerNext]_(Ledger!ledgerVars)
<1> USE DEF AdapterInv
<1>1. ASSUME NEW op \in Operations, NEW c \in Capabilities,
             ExecuteBoundedAction(op, c)
      PROVE  Ledger!Take(op, {c})
  <2>1. /\ {c} \in SUBSET Capabilities /\ \A d \in {c} : Executable(op, d)
        /\ Apply(op, {c})
    BY <1>1 DEF ExecuteBoundedAction
  <2>2. /\ Executed' = Executed \cup {<<op, d>> : d \in {c}}
        /\ \A d \in {c} : <<op, d>> \notin Executed
    BY <2>1, ApplyEffects
  <2>3. ASSUME NEW m \in Markets
        PROVE  /\ market'[m].update_count =
                    IF \E d \in {c} : MarketOf[d] = m
                    THEN market[m].update_count + 1
                    ELSE market[m].update_count
               /\ market'[m].demo = market[m].demo
    <3>1. market[m] \in ProtocolMarkets
      BY DEF AdapterTypeOK
    <3>2. CASE MarketOf[c] = m
      <4>1. market'[m] = [market[m] EXCEPT !.new_borrowing_paused = TRUE,
                            !.last_operation_id = op, !.update_count = @ + 1]
        BY <2>1, <3>2 DEF Apply
      <4>2. /\ market'[m].update_count = market[m].update_count + 1
            /\ market'[m].demo = market[m].demo
        BY <3>1, <4>1 DEF ProtocolMarkets
      <4> QED BY <3>2, <4>2
    <3>3. CASE MarketOf[c] # m
      BY <2>1, <3>3 DEF Apply
    <3> QED BY <3>2, <3>3
  <2> QED BY <2>2, <2>3 DEF Ledger!Take
<1>2. ASSUME NEW m \in Markets, MarketNext(m)
      PROVE  [Ledger!LedgerNext]_(Ledger!ledgerVars)
  <2>1. UNCHANGED Executed
    BY <1>2, MarketKeeps, ReceiptsKept
  <2>2. ASSUME NEW demo \in BOOLEAN, InitializeMarket(m, demo)
        PROVE  [Ledger!LedgerNext]_(Ledger!ledgerVars)
    <3>1. market[m] = NoMarket
      BY <2>2 DEF InitializeMarket, BlankUntilCreated
    <3>2. market' = [market EXCEPT ![m] =
                       [NoMarket EXCEPT !.created = TRUE, !.demo = demo]]
      BY <2>2 DEF InitializeMarket
    <3>3. /\ market[m].update_count = 0 /\ market'[m].update_count = 0
          /\ ~market[m].demo /\ market'[m].demo = demo
          /\ \A n \in Markets : n # m => market'[n] = market[n]
      BY <3>1, <3>2 DEF NoMarket, AdapterTypeOK
    <3>4. CASE demo
      <4>1. Ledger!Allow(m)
        BY <2>1, <3>3, <3>4 DEF Ledger!Allow
      <4> QED BY <4>1 DEF Ledger!LedgerNext
    <3>5. CASE ~demo
      BY <2>1, <3>3, <3>5 DEF Ledger!ledgerVars
    <3> QED BY <3>4, <3>5
  <2>3. ASSUME NEW n \in Markets, ResetDemoMarket(n)
        PROVE  Ledger!LedgerNext
    <3>1. market[n].demo
      BY <2>3 DEF ResetDemoMarket
    <3>2. market[n] \in ProtocolMarkets
      BY DEF AdapterTypeOK
    <3>3. market'[n] = [market[n] EXCEPT !.new_borrowing_paused = FALSE,
                          !.last_operation_id = None, !.update_count = 0]
      BY <2>3 DEF ResetDemoMarket, AdapterTypeOK
    <3>4. market'[n].update_count = 0 /\ market'[n].demo = market[n].demo
      BY <3>2, <3>3 DEF ProtocolMarkets
    <3>5. \A k \in Markets : k # n => market'[k] = market[k]
      BY <2>3 DEF ResetDemoMarket, AdapterTypeOK
    <3>6. Ledger!Forget(n)
      BY <2>1, <3>1, <3>4, <3>5 DEF Ledger!Forget
    <3> QED BY <3>6 DEF Ledger!LedgerNext
  <2>4. ASSUME NEW signer \in Capabilities \cup {None}, SetAdapter(m, signer)
        PROVE  UNCHANGED Ledger!ledgerVars
    <3>1. \A n \in Markets :
            /\ market'[n].update_count = market[n].update_count
            /\ market'[n].demo = market[n].demo
      BY <2>4 DEF SetAdapter, AdapterTypeOK, ProtocolMarkets
    <3> QED BY <2>1, <3>1 DEF Ledger!ledgerVars
  <2> QED BY <1>2, <2>2, <2>3, <2>4 DEF MarketNext
<1>3. CASE UNCHANGED market /\ Executed' = Executed
  BY <1>3 DEF Ledger!ledgerVars
<1>4. CASE Tick \/ UNCHANGED adapterVars
           \/ (\E op \in Operations, expiry \in Expiries :
                 PublishCertificate(op, expiry))
           \/ \E c \in Capabilities : AuthorityNext(c)
  <2>1. UNCHANGED <<market, receipt>>
    BY <1>4, AuthorityKeeps
       DEF Tick, PublishCertificate, accounts, adapterVars
  <2> QED BY <2>1, <1>3, ReceiptsKept
<1>5. ASSUME NEW op \in Operations, NEW c \in Capabilities,
             InitializeAdapterReceipt(op, c)
      PROVE  [Ledger!LedgerNext]_(Ledger!ledgerVars)
  BY <1>3, <1>5, ReceiptsKept DEF InitializeAdapterReceipt
<1> QED BY <1>1, <1>2, <1>4, <1>5 DEF AdapterNext, Ledger!LedgerNext

(* The adapter and its markets implement the ledger: an operation takes    *)
(* effect through a capability at most once, and each effect is one pause. *)
THEOREM AdapterImplementsLedger == AdapterSpec => ImplementsEffectLedger
<1>1. AdapterInit => Ledger!LedgerInit
  BY DEF AdapterInit, NoReceipt, NoMarket, Executed, Ledger!LedgerInit
<1>2. AdapterInv /\ [AdapterNext]_adapterVars
        => [Ledger!LedgerNext]_(Ledger!ledgerVars)
  BY LedgerStep
<1> QED BY <1>1, <1>2, AdapterInvariance, PTL
        DEF AdapterSpec, ImplementsEffectLedger, Ledger!LedgerSpec
=============================================================================
