------------------------------ MODULE Monitor -------------------------------
(***************************************************************************)
(* The reconciler of packages/monitor.  It reads the accounts of an        *)
(* operation one after the other while they keep changing, gives up on     *)
(* single reads, classifies what it saw, repeats until everything is       *)
(* applied or its window closes, and writes one record.  A recovery is     *)
(* proposed from that record.                                              *)
(***************************************************************************)
EXTENDS Settlement, Sequences

CONSTANTS ActionOrder,  \* the adapters in covenant registration order
          MaxLost,      \* bound: reads of one pass that may time out
          Nonces,       \* recovery nonces a caller may ask for
          CertNonce     \* the nonce of the original certificate

ASSUME MonitorAssumption ==
  /\ ActionOrder \in Seq(Adapters)
  /\ MaxLost \in Nat

VARIABLES reading,      \* the pass: next read, what was seen, reads lost
          deadline,     \* has the observation window closed
          record,       \* the record written, or NoRecord
          recoveries,   \* proposals made, handed to every later proposal
          begun         \* history: the receipts there when the pass began

monitor == <<reading, deadline, record, recoveries, begun>>

CertificateCheckpoint == <<"certificate", "operation">>
SettlementReceipt == <<"settlement", "operation">>
Receipt(a) == <<"receipt", a>>
Target(a) == <<"target", a>>
Effects == {CertificateCheckpoint, SettlementReceipt}
             \cup {Receipt(a) : a \in Adapters}
             \cup {Target(a) : a \in Adapters}

(* The awaits of observeSettlement, in their order.                        *)
Reads ==
  [i \in 1..(2 + 2 * Len(ActionOrder)) |->
     IF i = 1 THEN CertificateCheckpoint
     ELSE IF i = 2 THEN SettlementReceipt
     ELSE LET a == ActionOrder[(i - 1) \div 2]
          IN IF i % 2 = 1 THEN Receipt(a) ELSE Target(a)]

(* What an account says when it is read now.  A pause under another        *)
(* operation's stamp is no effect of this one.                             *)
Holds(e) ==
  CASE e = CertificateCheckpoint -> certificate
    [] e = SettlementReceipt -> settlement = "final"
    [] e[1] = "receipt" -> receipt[e[2]] = "executed"
    [] OTHER -> market[e[2]] = "us"

Seen(e) == IF Holds(e) THEN "present" ELSE "absent"

(* Mutant of Unreadable: a failed read is taken  for a missing effect.     *)
Unreadable_Absent == "absent"
Unreadable == "not_observed"

-----------------------------------------------------------------------------
(* classify.ts                                                             *)

IsApplied(obs, a) == obs[Receipt(a)] = "present" /\ obs[Target(a)] = "present"
IsAbsent(obs, a) == obs[Receipt(a)] = "absent" /\ obs[Target(a)] = "absent"
Expected == {ActionOrder[i] : i \in 1..Len(ActionOrder)}

AllApplied(obs) ==
  obs[SettlementReceipt] = "present" /\ \A a \in Expected : IsApplied(obs, a)
NoneApplied(obs) ==
  obs[SettlementReceipt] = "absent" /\ \A a \in Expected : IsAbsent(obs, a)
AnyApplied(obs) ==
  obs[SettlementReceipt] = "present" \/ \E a \in Expected : IsApplied(obs, a)

(* Mutant of Classify: a missing final receipt is enough for a recovery.   *)
Classify_ReceiptOnly(obs) ==
  IF AllApplied(obs) THEN "AllActionsApplied"
  ELSE IF obs[SettlementReceipt] = "absent" THEN "CommitWithoutActions"
  ELSE "Unknown"

(* The order of the branches is the code's.                                *)
Classify(obs) ==
  IF Expected = {} THEN "Unknown"
  ELSE IF AllApplied(obs) THEN "AllActionsApplied"
  ELSE IF NoneApplied(obs) /\ obs[CertificateCheckpoint] = "present"
    THEN "CommitWithoutActions"
  ELSE IF "not_observed" \in {obs[e] : e \in Effects} THEN "Unknown"
  ELSE IF AnyApplied(obs) THEN "PartialObservation"
  ELSE "Unknown"

PermitsRecovery(class) == class = "CommitWithoutActions"

-----------------------------------------------------------------------------
(* observe.ts and record.ts                                                *)

NoRecord == [classification |-> "none", missing |-> {}, windowElapsed |-> FALSE]
Unseen == [e \in Effects |-> "not_observed"]
FirstRead == [at |-> 1, obs |-> Unseen, lost |-> 0]
(* Receipts only ever appear; a market may be paused and lifted.           *)
Receipts == {SettlementReceipt} \cup {Receipt(a) : a \in Adapters}
Snapshot == {e \in Receipts : Holds(e)}

MonitorInit ==
  /\ SettlementInit
  /\ reading = [FirstRead EXCEPT !.at = 0]
  /\ deadline = FALSE
  /\ record = NoRecord
  /\ recoveries = {}
  /\ begun = Snapshot

StartPass == reading' = FirstRead /\ begun' = Snapshot

Reconcile ==
  /\ reading.at = 0 /\ record = NoRecord
  /\ StartPass
  /\ UNCHANGED <<chain, deadline, record, recoveries>>

ReadAccount ==
  /\ reading.at \in 1..Len(Reads)
  /\ LET e == Reads[reading.at]
     IN \/ reading' = [reading EXCEPT !.at = @ + 1, !.obs[e] = Seen(e)]
        \/ /\ reading.lost < MaxLost
           /\ reading' = [reading EXCEPT !.at = @ + 1, !.lost = @ + 1,
                                         !.obs[e] = Unreadable]
  /\ UNCHANGED <<chain, deadline, record, recoveries, begun>>

PassDone == reading.at > Len(Reads)

(* Mutant of Repeat: the window is not looked at.                          *)
Repeat_NoWindow ==
  /\ PassDone /\ record = NoRecord
  /\ Classify(reading.obs) # "AllActionsApplied"
  /\ StartPass
  /\ UNCHANGED <<chain, deadline, record, recoveries>>

Repeat ==
  /\ PassDone /\ record = NoRecord
  /\ Classify(reading.obs) # "AllActionsApplied" /\ ~deadline
  /\ StartPass
  /\ UNCHANGED <<chain, deadline, record, recoveries>>

BuildRecord(obs, elapsed) ==
  [classification |-> Classify(obs),
   missing |-> {a \in Expected : IsAbsent(obs, a)},
   windowElapsed |-> elapsed]

Conclude ==
  /\ PassDone /\ record = NoRecord
  /\ LET applied == Classify(reading.obs) = "AllActionsApplied"
     IN /\ applied \/ deadline
        /\ record' = BuildRecord(reading.obs, ~applied)
  /\ reading' = [FirstRead EXCEPT !.at = 0]
  /\ UNCHANGED <<chain, deadline, recoveries, begun>>

CloseWindow ==
  /\ ~deadline
  /\ deadline' = TRUE
  /\ UNCHANGED <<chain, reading, record, recoveries, begun>>

-----------------------------------------------------------------------------
(* recovery.ts: every refusal is a conjunct, in the code's order.          *)

Operation == <<"operation", "observed">>

(* What a caller hands to a proposal besides the record: the operation to  *)
(* be replaced, a nonce, and whether its certificate is still in force.    *)
Proposals ==
  [original : {Operation, <<"operation", "another">>}, nonce : Nonces,
   inForce : BOOLEAN]

(* A domain of its own keeps it apart from every operation id.             *)
recoveryOperationId(asked) == <<"recovery", asked.original, asked.nonce>>

ProposeRecovery(asked) ==
  /\ PermitsRecovery(record.classification)
  /\ asked.original = Operation
  /\ asked.inForce
  /\ asked.nonce # CertNonce
  /\ \A r \in recoveries : r.original # asked.original
  /\ record.missing # {}
  /\ recoveryOperationId(asked) # asked.original
  /\ recoveries' = recoveries \cup
       {[original |-> asked.original, id |-> recoveryOperationId(asked),
         missing |-> record.missing]}
  /\ UNCHANGED <<chain, reading, deadline, record, begun>>

MonitorNext ==
  \/ SettlementNext /\ UNCHANGED monitor
  \/ Reconcile
  \/ ReadAccount
  \/ Repeat
  \/ Conclude
  \/ CloseWindow
  \/ \E asked \in Proposals : ProposeRecovery(asked)

vars == <<chain, monitor>>

(* The monitor is a running process, its reads answer or time out, and its *)
(* window is a timer.  The committor lands what it holds one way or the    *)
(* other.  Nobody else has to act.                                         *)
MonitorSpec ==
  /\ MonitorInit /\ [][MonitorNext]_vars
  /\ WF_vars(ReadAccount) /\ WF_vars(Repeat) /\ WF_vars(Conclude)
  /\ WF_vars(CloseWindow)
  /\ WF_vars(Committor /\ UNCHANGED monitor)

-----------------------------------------------------------------------------
(* What the record may be trusted for.                                     *)

(* A record that says every action was applied is backed, for ever after,  *)
(* by a final settlement receipt and an executed receipt of every adapter, *)
(* although its reads were spread over time (classify.ts, statusFor).      *)
SettledIsReal ==
  record.classification = "AllActionsApplied" =>
    /\ settlement = "final"
    /\ \A a \in Expected : receipt[a] = "executed"

(* An action a record calls missing had not been executed when the last    *)
(* pass began: a failed read is never counted as an absence (observe.ts,   *)
(* readAccount).                                                           *)
MissingWasMissing ==
  \A a \in record.missing : Receipt(a) \notin begun

(* A recovery is proposed only from a record whose last pass began with    *)
(* nothing of the cohort on the base layer, and asks for every action of   *)
(* it again: a lost read or a half-applied cohort opens none (recovery.ts, *)
(* proposeRecovery).  It says nothing of what lands after that pass began: *)
(* the cohort may still arrive, before the proposal or after it.           *)
RecoveryStartsFromNothing ==
  \A r \in recoveries :
    /\ begun = {}
    /\ certificate
    /\ r.missing = Expected

(* A protocol that was paused by the last operation before another one     *)
(* never makes the record say settled: the effects a record confirms were  *)
(* seen under this operation's own stamp after its receipt existed         *)
(* (mockProtocolPauseReader).                                              *)
StampedPauseOnly ==
  \A a \in Adapters :
    reading.obs[Target(a)] = "present" => receipt[a] = "executed"

(* What a record confirms had happened, and what it calls missing had not   *)
(* when the pass began, although a pass reads one account after another     *)
(* while the cohort lands and others pause the same protocols.              *)
RecordIsTrue == SettledIsReal /\ MissingWasMissing /\ StampedPauseOnly

(* Once it has started, the reconciler writes its record, whatever the     *)
(* committor and the endpoint do (reconcile).                              *)
AlwaysRecords == (reading.at > 0) ~> (record # NoRecord)

(* classify.ts and tests/settlement.rs say that CommitWithoutActions rests *)
(* on evidence that the commit landed, so that no recovery is opened       *)
(* against an operation that is still in flight.                           *)
CommitHadLanded ==
  record.classification = "CommitWithoutActions" => cohort.phase # "pending"
=============================================================================
