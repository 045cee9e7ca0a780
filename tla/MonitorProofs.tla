---------------------------- MODULE MonitorProofs -----------------------------
(***************************************************************************)
(* Theorems about the reconciler, for any adapters in any order, any       *)
(* number of lost reads, and whatever the chain does between two reads.    *)
(* They rest on what only grows: a receipt, once final, stays so, and a    *)
(* protocol paused under the operation's stamp has its receipt.            *)
(***************************************************************************)
EXTENDS Monitor, TLAPS

Observations == {"present", "absent", "not_observed"}

Classes == {"AllActionsApplied", "CommitWithoutActions", "PartialObservation",
            "Unknown"}

(* The types of what the monitor reads and of what it keeps.               *)
MonitorTypeOK ==
  /\ receipt \in [Adapters -> {"none", "open", "executed"}]
  /\ market \in [Adapters -> {"nobody", "us", "other"}]
  /\ reading \in [at : Nat, obs : [Effects -> Observations], lost : Nat]
  /\ record \in [classification : Classes, missing : SUBSET Adapters,
                 windowElapsed : BOOLEAN] \cup {NoRecord}

(* The adapters that are expected are adapters.                            *)
LEMMA ExpectedTyped == Expected \subseteq Adapters
BY MonitorAssumption DEF Expected

(* Every read of a pass is of an effect.                                   *)
LEMMA ReadsEffects ==
  ASSUME NEW i \in 1..Len(Reads)
  PROVE  Reads[i] \in Effects
<1>1. Len(ActionOrder) \in Nat
  BY MonitorAssumption
<1>2. Len(Reads) = 2 + 2 * Len(ActionOrder)
  BY <1>1 DEF Reads
<1>3. i \in 1..(2 + 2 * Len(ActionOrder))
  BY <1>2
<1>4. ASSUME i > 2 PROVE (i - 1) \div 2 \in 1..Len(ActionOrder)
  BY <1>1, <1>3, <1>4
<1>5. ASSUME i > 2 PROVE ActionOrder[(i - 1) \div 2] \in Adapters
  BY <1>4, <1>5, MonitorAssumption
<1>6. QED
  BY <1>3, <1>5 DEF Reads, Effects

(* The four answers are the classes of a record, and the two that anything *)
(* is done about rest on every effect that was expected.                   *)
LEMMA ClassifyMeans ==
  ASSUME NEW obs
  PROVE  /\ Classify(obs) \in Classes
         /\ Classify(obs) = "AllActionsApplied" => AllApplied(obs)
         /\ Classify(obs) = "CommitWithoutActions" =>
              NoneApplied(obs) /\ obs[CertificateCheckpoint] = "present"
BY DEF Classify, Classes

-----------------------------------------------------------------------------
(* What a step of anybody on the base layer does to the receipts: they     *)
(* only go forward, and a market is paused under this operation's stamp by *)
(* the action that executes the receipt.                                   *)
LEMMA ReceiptsOnlyGrow ==
  ASSUME MonitorTypeOK, SettlementNext
  PROVE  /\ settlement = "final" => settlement' = "final"
         /\ certificate => certificate'
         /\ \A a \in Adapters :
              /\ receipt[a] = "executed" => receipt'[a] = "executed"
              /\ market'[a] = "us" =>
                   market[a] = "us" \/ receipt'[a] = "executed"
         /\ receipt' \in [Adapters -> {"none", "open", "executed"}]
         /\ market' \in [Adapters -> {"nobody", "us", "other"}]
<1>1. ASSUME NEW members, ExecuteAll(members)
      PROVE  /\ \A a \in Adapters :
                  /\ receipt[a] = "executed" => receipt'[a] = "executed"
                  /\ market'[a] = "us" =>
                       market[a] = "us" \/ receipt'[a] = "executed"
             /\ receipt' \in [Adapters -> {"none", "open", "executed"}]
             /\ market' \in [Adapters -> {"nobody", "us", "other"}]
  BY <1>1 DEF ExecuteAll, MonitorTypeOK
<1>2. CASE LandCohort
  BY <1>1, <1>2 DEF LandCohort
<1>3. ASSUME NEW a \in Adapters, ExecuteDirectly(a)
      PROVE  UNCHANGED <<certificate, settlement>> /\ ExecuteAll({a})
  BY <1>3 DEF ExecuteDirectly
<1>4. ASSUME NEW a \in Adapters, NEW who \in {"nobody", "other"},
             TouchMarket(a, who)
      PROVE  /\ UNCHANGED <<certificate, settlement, receipt>>
             /\ \A b \in Adapters : market'[b] = "us" => market[b] = "us"
             /\ market' \in [Adapters -> {"nobody", "us", "other"}]
  BY <1>4 DEF TouchMarket, MonitorTypeOK
<1>5. ASSUME NEW a \in Adapters, InitializeAdapterReceipt(a)
      PROVE  /\ UNCHANGED <<certificate, settlement, market>>
             /\ \A b \in Adapters :
                  receipt[b] = "executed" => receipt'[b] = "executed"
             /\ receipt' \in [Adapters -> {"none", "open", "executed"}]
  BY <1>5 DEF InitializeAdapterReceipt, MonitorTypeOK
<1>6. CASE \/ UNCHANGED <<settlement, receipt, market>>
                /\ (certificate => certificate')
           \/ InitializeSettlementReceipt \/ FinalizeSettlement
  BY <1>6 DEF InitializeSettlementReceipt, FinalizeSettlement, MonitorTypeOK
<1>7. ASSUME \/ PublishCertificate \/ DelegateOperation \/ LandStripped
             \/ \E n \in 1..MaxCohort : InitializeOperation(n)
             \/ \E members \in SUBSET Adapters :
                  ScheduleSettlementCohort(members)
      PROVE  /\ UNCHANGED <<settlement, receipt, market>>
             /\ certificate => certificate'
  <2>1. CASE PublishCertificate
    BY <2>1 DEF PublishCertificate
  <2>2. ASSUME \/ DelegateOperation \/ LandStripped
               \/ \E n \in 1..MaxCohort : InitializeOperation(n)
               \/ \E members \in SUBSET Adapters :
                    ScheduleSettlementCohort(members)
        PROVE  UNCHANGED <<certificate, settlement, receipt, market>>
    BY <2>2 DEF DelegateOperation, LandStripped, InitializeOperation,
       ScheduleSettlementCohort, AcceptIntent
  <2>3. QED
    BY <1>7, <2>1, <2>2
<1>8. CASE \E a \in Adapters : ExecuteDirectly(a)
  BY <1>1, <1>3, <1>8
<1>9. CASE \E a \in Adapters, who \in {"nobody", "other"} : TouchMarket(a, who)
  BY <1>4, <1>9 DEF MonitorTypeOK
<1>10. CASE \E a \in Adapters : InitializeAdapterReceipt(a)
  BY <1>5, <1>10 DEF MonitorTypeOK
<1>11. QED
  BY <1>2, <1>6, <1>7, <1>8, <1>9, <1>10
  DEF SettlementNext, Prepare, Committor, Anybody

(* Which part of the monitor each of its steps may change.                 *)
LEMMA MonitorSteps ==
  ASSUME [MonitorNext]_vars
  PROVE  \/ SettlementNext /\ UNCHANGED monitor
         \/ UNCHANGED chain /\ (Reconcile \/ Repeat)
         \/ UNCHANGED chain /\ ReadAccount
         \/ UNCHANGED chain /\ Conclude
         \/ UNCHANGED <<chain, reading, record, recoveries, begun>>
         \/ UNCHANGED chain /\ \E asked \in Proposals : ProposeRecovery(asked)
BY DEF MonitorNext, vars, monitor, Reconcile, ReadAccount, Repeat, Conclude,
   CloseWindow, ProposeRecovery
-----------------------------------------------------------------------------
(* What was read stays true of the receipts, because they only grow: an    *)
(* effect that was seen has its receipt, a receipt that was missing when   *)
(* it was read was missing when the pass began, and so for the record.     *)
MonitorInv ==
  /\ MonitorTypeOK
  /\ \A a \in Adapters : market[a] = "us" => receipt[a] = "executed"
  /\ begun \subseteq Snapshot
  /\ reading.obs[SettlementReceipt] = "present" => settlement = "final"
  /\ reading.obs[CertificateCheckpoint] = "present" => certificate
  /\ \A a \in Adapters :
       "present" \in {reading.obs[Receipt(a)], reading.obs[Target(a)]} =>
         receipt[a] = "executed"
  /\ \A e \in Receipts : reading.obs[e] = "absent" => e \notin begun
  /\ SettledIsReal
  /\ record.missing \subseteq Expected /\ MissingWasMissing
  /\ record.classification = "CommitWithoutActions" =>
       /\ begun \subseteq Receipts \ ({SettlementReceipt}
                                        \cup {Receipt(a) : a \in Expected})
       /\ certificate /\ record.missing = Expected
  /\ \A r \in recoveries :
       /\ record.classification = "CommitWithoutActions"
       /\ r.missing = record.missing

(* What an effect is about, by its name.                                   *)
LEMMA HoldsMeans ==
  /\ Holds(SettlementReceipt) <=> settlement = "final"
  /\ Holds(CertificateCheckpoint) <=> certificate
  /\ \A a \in Adapters :
       /\ Holds(Receipt(a)) <=> receipt[a] = "executed"
       /\ Holds(Target(a)) <=> market[a] = "us"
  /\ \A e \in Effects : Seen(e) \in {"present", "absent"}
BY DEF Holds, CertificateCheckpoint, SettlementReceipt, Receipt, Target, Seen

(* The names of the effects are distinct.                                  *)
LEMMA DistinctEffects ==
  /\ SettlementReceipt \in Effects /\ SettlementReceipt \in Receipts
  /\ CertificateCheckpoint \in Effects
  /\ Receipts \subseteq Effects
  /\ \A a \in Adapters :
       /\ Receipt(a) \in Effects /\ Receipt(a) \in Receipts
       /\ Target(a) \in Effects /\ Target(a) \notin Receipts
       /\ Receipt(a) # SettlementReceipt
       /\ \A b \in Adapters :
            /\ Receipt(a) = Receipt(b) => a = b
            /\ Target(a) = Target(b) => a = b
            /\ Receipt(a) # Target(b)
            /\ Target(a) # SettlementReceipt
BY DEF Effects, Receipts, CertificateCheckpoint, SettlementReceipt, Receipt,
   Target

(* Before any read nothing was seen.                                       *)
LEMMA NothingSeenYet ==
  /\ FirstRead \in [at : Nat, obs : [Effects -> Observations], lost : Nat]
  /\ \A e \in Effects : FirstRead.obs[e] = "not_observed"
  /\ [FirstRead EXCEPT !.at = 0]
       \in [at : Nat, obs : [Effects -> Observations], lost : Nat]
  /\ [FirstRead EXCEPT !.at = 0].obs = FirstRead.obs
BY DEF FirstRead, Unseen, Observations

(* The chain may move between any two reads.                               *)
LEMMA ChainKeepsMonitorInv ==
  ASSUME MonitorInv, SettlementNext, UNCHANGED monitor
  PROVE  MonitorInv'
<1>1. MonitorTypeOK'
  BY ReceiptsOnlyGrow DEF MonitorInv, MonitorTypeOK, monitor
<1>2. /\ settlement = "final" => settlement' = "final"
      /\ certificate => certificate'
      /\ \A a \in Adapters :
           /\ receipt[a] = "executed" => receipt'[a] = "executed"
           /\ market'[a] = "us" => receipt'[a] = "executed"
  BY ReceiptsOnlyGrow DEF MonitorInv
<1>3. Snapshot \subseteq Snapshot'
  <2> SUFFICES ASSUME NEW e \in Receipts, Holds(e) PROVE Holds(e)'
    BY DEF Snapshot
  <2>1. CASE e = SettlementReceipt
    BY <1>2, <2>1 DEF Holds, SettlementReceipt, CertificateCheckpoint
  <2>2. ASSUME NEW a \in Adapters, e = Receipt(a) PROVE Holds(e)'
    BY <1>2, <2>2 DEF Holds, SettlementReceipt, CertificateCheckpoint, Receipt
  <2>3. QED
    BY <2>1, <2>2 DEF Receipts
<1>4. UNCHANGED <<reading, record, recoveries, begun>>
  BY DEF monitor
<1>5. SettledIsReal'
  BY <1>2, <1>4, ExpectedTyped DEF MonitorInv, SettledIsReal
<1>6. QED
  BY <1>1, <1>2, <1>3, <1>4, <1>5 DEF MonitorInv, MissingWasMissing

(* A pass that begins, for the first time or again, has seen nothing.      *)
LEMMA PassKeepsMonitorInv ==
  ASSUME MonitorInv, UNCHANGED chain, Reconcile \/ Repeat
  PROVE  MonitorInv'
<1>1. /\ reading' = FirstRead /\ begun' = Snapshot
      /\ record = NoRecord /\ UNCHANGED <<record, recoveries>>
  BY DEF Reconcile, Repeat, StartPass
<1>2. /\ UNCHANGED <<certificate, settlement, receipt, market>>
      /\ UNCHANGED Snapshot
  BY DEF chain, Snapshot, Holds
<1>3. MonitorTypeOK'
  BY <1>1, <1>2, NothingSeenYet DEF MonitorInv, MonitorTypeOK
<1>4. \A e \in Effects : reading'.obs[e] = "not_observed"
  BY <1>1, NothingSeenYet
<1>5. recoveries = {} /\ record.classification = "none" /\ record.missing = {}
  BY <1>1 DEF MonitorInv, NoRecord
<1>6. QED
  BY <1>1, <1>2, <1>3, <1>4, <1>5, DistinctEffects
  DEF MonitorInv, SettledIsReal, MissingWasMissing

(* A read says what is so when it is made; a lost one says nothing.        *)
LEMMA ReadKeepsMonitorInv ==
  ASSUME MonitorInv, UNCHANGED chain, ReadAccount
  PROVE  MonitorInv'
<1> DEFINE e == Reads[reading.at]
<1>1. /\ e \in Effects
      /\ reading'.obs \in {[reading.obs EXCEPT ![e] = Seen(e)],
                           [reading.obs EXCEPT ![e] = "not_observed"]}
      /\ reading' = [at |-> reading'.at, obs |-> reading'.obs,
                     lost |-> reading'.lost]
      /\ reading'.at \in Nat /\ reading'.lost \in Nat
  <2>1. reading \in [at : Nat, obs : [Effects -> Observations], lost : Nat]
    BY DEF MonitorInv, MonitorTypeOK
  <2>2. e \in Effects
    BY ReadsEffects DEF ReadAccount
  <2>3. \/ reading' = [reading EXCEPT !.at = @ + 1, !.obs[e] = Seen(e)]
        \/ reading' = [reading EXCEPT !.at = @ + 1, !.lost = @ + 1,
                                      !.obs[e] = "not_observed"]
    BY DEF ReadAccount, Unreadable
  <2> HIDE DEF e
  <2>4. /\ reading.at + 1 \in Nat /\ reading.lost + 1 \in Nat
        /\ reading.at \in Nat /\ reading.lost \in Nat
    BY <2>1
  <2>5. ASSUME NEW s,
               reading' = [reading EXCEPT !.at = @ + 1, !.obs[e] = s]
        PROVE  /\ reading'.obs = [reading.obs EXCEPT ![e] = s]
               /\ reading'.at = reading.at + 1
               /\ reading'.lost = reading.lost
               /\ reading' = [at |-> reading'.at, obs |-> reading'.obs,
                              lost |-> reading'.lost]
    BY <2>1, <2>5
  <2>6. ASSUME NEW s, reading' = [reading EXCEPT !.at = @ + 1,
                                     !.lost = @ + 1, !.obs[e] = s]
        PROVE  /\ reading'.obs = [reading.obs EXCEPT ![e] = s]
               /\ reading'.at = reading.at + 1
               /\ reading'.lost = reading.lost + 1
               /\ reading' = [at |-> reading'.at, obs |-> reading'.obs,
                              lost |-> reading'.lost]
    BY <2>1, <2>6
  <2>7. QED
    BY <2>2, <2>3, <2>4, <2>5, <2>6
<1> HIDE DEF e
<1>2. /\ UNCHANGED <<certificate, settlement, receipt, market>>
      /\ UNCHANGED <<record, recoveries, begun>>
      /\ UNCHANGED Snapshot
  BY DEF ReadAccount, chain, Snapshot, Holds
<1>3. reading.obs \in [Effects -> Observations]
  BY DEF MonitorInv, MonitorTypeOK
<1>4. /\ reading'.obs \in [Effects -> Observations]
      /\ \A f \in Effects : reading'.obs[f] \in
           {reading.obs[f], Seen(f), "not_observed"}
  BY <1>1, <1>3, HoldsMeans DEF Observations
<1>5. MonitorTypeOK'
  BY <1>1, <1>2, <1>4 DEF MonitorInv, MonitorTypeOK
<1>6. reading'.obs[SettlementReceipt] = "present" => settlement = "final"
  BY <1>4, HoldsMeans, DistinctEffects DEF MonitorInv, Seen
<1>61. reading'.obs[CertificateCheckpoint] = "present" => certificate
  BY <1>4, HoldsMeans, DistinctEffects DEF MonitorInv, Seen
<1>7. ASSUME NEW a \in Adapters,
             "present" \in {reading'.obs[Receipt(a)],
                            reading'.obs[Target(a)]}
      PROVE  receipt[a] = "executed"
  BY <1>4, <1>7, HoldsMeans, DistinctEffects DEF MonitorInv, Seen
<1>8. ASSUME NEW f \in Receipts, reading'.obs[f] = "absent"
      PROVE  f \notin begun
  <2>1. reading.obs[f] = "absent" \/ ~Holds(f)
    BY <1>4, <1>8, DistinctEffects DEF Seen
  <2>2. QED
    BY <2>1 DEF MonitorInv, Snapshot
<1>9. QED
  BY <1>2, <1>5, <1>6, <1>61, <1>7, <1>8
  DEF MonitorInv, SettledIsReal, MissingWasMissing

(* The record says no more than what the last pass saw.                    *)
LEMMA RecordKeepsMonitorInv ==
  ASSUME MonitorInv, UNCHANGED chain, Conclude
  PROVE  MonitorInv'
<1>1. /\ record' = [classification |-> Classify(reading.obs),
                    missing |-> {a \in Expected : IsAbsent(reading.obs, a)},
                    windowElapsed |-> Classify(reading.obs)
                                        # "AllActionsApplied"]
      /\ reading' = [FirstRead EXCEPT !.at = 0]
      /\ UNCHANGED <<recoveries, begun>> /\ record = NoRecord
  BY DEF Conclude, BuildRecord
<1>2. /\ UNCHANGED <<certificate, settlement, receipt, market>>
      /\ UNCHANGED Snapshot
  BY DEF chain, Snapshot, Holds
<1>3. MonitorTypeOK'
  BY <1>1, <1>2, NothingSeenYet, ClassifyMeans, ExpectedTyped
  DEF MonitorInv, MonitorTypeOK
<1>4. \A e \in Effects : reading'.obs[e] = "not_observed"
  BY <1>1, NothingSeenYet
<1>5. SettledIsReal'
  BY <1>1, <1>2, ClassifyMeans, ExpectedTyped
  DEF SettledIsReal, AllApplied, IsApplied, MonitorInv
<1>6. MissingWasMissing' /\ record'.missing \subseteq Expected
  BY <1>1, ExpectedTyped, DistinctEffects
  DEF MissingWasMissing, IsAbsent, MonitorInv
<1>7. ASSUME record'.classification = "CommitWithoutActions"
      PROVE  /\ begun \subseteq Receipts \ ({SettlementReceipt}
                                              \cup {Receipt(a) : a \in Expected})
             /\ certificate /\ record'.missing = Expected
  <2>1. /\ NoneApplied(reading.obs)
        /\ reading.obs[CertificateCheckpoint] = "present"
    BY <1>1, <1>7, ClassifyMeans
  <2>2. /\ SettlementReceipt \notin begun
        /\ \A a \in Expected : Receipt(a) \notin begun
    BY <2>1, ExpectedTyped, DistinctEffects
    DEF NoneApplied, IsAbsent, MonitorInv
  <2>3. record'.missing = Expected
    BY <1>1, <2>1 DEF NoneApplied
  <2>4. QED
    BY <2>1, <2>2, <2>3 DEF MonitorInv, Snapshot
<1>8. recoveries = {}
  BY <1>1 DEF MonitorInv, NoRecord
<1>9. QED
  BY <1>1, <1>2, <1>3, <1>4, <1>5, <1>6, <1>7, <1>8, DistinctEffects
  DEF MonitorInv

(* Every step keeps what the record and the proposals rest on.             *)
LEMMA MonitorInvHolds == MonitorSpec => []MonitorInv
<1>1. MonitorInit => MonitorInv
  <2> SUFFICES ASSUME MonitorInit PROVE MonitorInv
    OBVIOUS
  <2>1. /\ settlement = "none"
        /\ receipt = [a \in Adapters |-> "none"]
        /\ market = [a \in Adapters |-> "nobody"]
        /\ reading = [FirstRead EXCEPT !.at = 0] /\ record = NoRecord
        /\ recoveries = {} /\ begun = Snapshot
    BY DEF MonitorInit, SettlementInit
  <2>2. MonitorTypeOK
    BY <2>1, NothingSeenYet DEF MonitorTypeOK
  <2>3. \A e \in Effects : reading.obs[e] = "not_observed"
    BY <2>1, NothingSeenYet
  <2>4. QED
    BY <2>1, <2>2, <2>3, DistinctEffects
    DEF MonitorInv, SettledIsReal, MissingWasMissing, NoRecord
<1>2. MonitorInv /\ [MonitorNext]_vars => MonitorInv'
  <2> SUFFICES ASSUME MonitorInv, [MonitorNext]_vars PROVE MonitorInv'
    OBVIOUS
  <2>1. CASE UNCHANGED <<chain, reading, record, recoveries, begun>>
    BY <2>1 DEF MonitorInv, MonitorTypeOK, chain, Snapshot, Holds,
       SettledIsReal, MissingWasMissing
  <2>2. ASSUME UNCHANGED chain, NEW asked \in Proposals, ProposeRecovery(asked)
        PROVE  MonitorInv'
    BY <2>2 DEF ProposeRecovery, PermitsRecovery, MonitorInv, MonitorTypeOK,
       chain, Snapshot, Holds, SettledIsReal, MissingWasMissing
  <2>3. QED
    BY <2>1, <2>2, MonitorSteps, ChainKeepsMonitorInv, PassKeepsMonitorInv,
       ReadKeepsMonitorInv, RecordKeepsMonitorInv
<1>3. QED
  BY <1>1, <1>2, PTL DEF MonitorSpec

(* The record is true: although a pass reads one account after another     *)
(* while the cohort lands, a node loses reads, and others pause the same   *)
(* protocols, what it confirms had happened and what it calls missing was  *)
(* so when the pass began.                                                 *)
THEOREM RecordsAreTrue == MonitorSpec => []RecordIsTrue
<1>1. MonitorInv => RecordIsTrue
  BY DEF MonitorInv, RecordIsTrue, StampedPauseOnly
<1>2. QED
  BY <1>1, MonitorInvHolds, PTL

(* A recovery is proposed only from a pass that began with nothing of the  *)
(* cohort applied, and asks for all of it again, if the monitor is asked   *)
(* for every adapter of the covenant.  What lands after that pass began is *)
(* not excluded.                                                           *)
THEOREM RecoveriesStartFromNothing ==
  ASSUME Expected = Adapters
  PROVE  MonitorSpec => []RecoveryStartsFromNothing
<1>1. MonitorInv => RecoveryStartsFromNothing
  BY DEF MonitorInv, RecoveryStartsFromNothing, Receipts
<1>2. QED
  BY <1>1, MonitorInvHolds, PTL
=============================================================================
