----------------------------- MODULE CrankWatch ------------------------------
(***************************************************************************)
(* The crank monitor: what an observer may conclude about a scheduled task *)
(* when the validator has no task registry and only past transactions can  *)
(* be counted.                                                             *)
(*                                                                         *)
(* Time is counted in polls of the watcher.  The scheduler is punctual: a  *)
(* live task never lets Interval polls go by without an iteration.  The    *)
(* program is shared, so iterations of other incidents' tasks are counted  *)
(* too.  The count looks at the program's last 100 signatures; instances   *)
(* stay below that.                                                        *)
(***************************************************************************)
EXTENDS ExpiryCrank

CONSTANTS Interval,      \* polls between two iterations of a live task
          QuietWindow,   \* quietWindowMs: polls the count must hold still
          WatchWindow,   \* watchWindowMs: polls before the watcher gives up
          Requested,     \* requestedIterations
          MaxOthers      \* bound: iterations of other incidents' tasks

ASSUME WatchAssumption ==
  /\ Interval \in Nat \ {0} /\ QuietWindow \in Nat \ {0}
  /\ WatchWindow \in Nat /\ MaxOthers \in Nat /\ Requested \in 1..MaxIterations

VARIABLES fired,     \* iterations this task has run
          others,    \* iterations of other tasks of the program
          late,      \* polls since this task last ran
          watch      \* the watcher's loop

watching == <<fired, others, late, watch>>

NoObservation == [state |-> "none", iterations |-> 0, terminal |-> FALSE,
                  exhausted |-> FALSE]
Idle == [loop |-> "none", count |-> 0, quiet |-> 0, polls |-> 0,
         observation |-> NoObservation]

WatchInit == fired = 0 /\ others = 0 /\ late = 0 /\ watch = Idle

-----------------------------------------------------------------------------
CrankStateFor(iterations, terminal, cancelled, removed) ==
  IF removed THEN "RemovalObserved"
  ELSE IF terminal THEN "DesiredStateReached"
  ELSE IF cancelled THEN "CancellationRequested"
  ELSE IF iterations > 0 THEN "IterationObserved"
  ELSE "Requested"

SafeToUndelegate(observation) ==
  observation.state \in {"RemovalObserved", "DesiredStateReached"}

CountIterations == fired + others

-----------------------------------------------------------------------------
(* One iteration of the watched task, and of somebody else's.              *)
Iterate ==
  /\ Fire
  /\ fired' = fired + 1 /\ late' = 0
  /\ UNCHANGED <<others, watch>>

OtherTaskRuns ==
  /\ others < MaxOthers
  /\ others' = others + 1
  /\ UNCHANGED <<cvars, fired, late, watch>>

Poll ==
  /\ task > 0 => late < Interval
  /\ late' = IF task > 0 THEN late + 1 ELSE 0
  /\ UNCHANGED <<cvars, fired, others>>

BeginWatch(loop) ==
  /\ watch.loop = "none"
  /\ watch' = [Idle EXCEPT !.loop = loop, !.count = CountIterations]
  /\ UNCHANGED <<cvars, fired, others, late>>

Settled == IsTerminal /\ CountIterations > 0

(* watchExpiryCrank: until the incident is settled and an iteration seen,  *)
(* or the window closes.                                                   *)
PollExpiry ==
  /\ watch.loop = "expiry"
  /\ Poll
  /\ IF Settled \/ watch.polls = WatchWindow
     THEN watch' = [Idle EXCEPT !.observation =
            [state |-> CrankStateFor(CountIterations, IsTerminal, FALSE, FALSE),
             iterations |-> CountIterations, terminal |-> IsTerminal,
             exhausted |-> FALSE]]
     ELSE watch' = [watch EXCEPT !.polls = @ + 1]

Cancellation(count, removed) ==
  [state |-> IF count >= Requested THEN "IterationObserved"
             ELSE CrankStateFor(count, IsTerminal, TRUE, removed),
   iterations |-> count, terminal |-> IsTerminal,
   exhausted |-> count >= Requested]

(* Mutant of PollCancellation: any two equal counts are a quiet window.    *)
PollCancellation_Impatient ==
  /\ watch.loop = "cancel"
  /\ Poll
  /\ watch' =
       IF watch.polls = WatchWindow
       THEN [Idle EXCEPT !.observation = Cancellation(watch.count, FALSE)]
       ELSE IF CountIterations # watch.count
       THEN [watch EXCEPT !.count = CountIterations, !.polls = @ + 1]
       ELSE [Idle EXCEPT !.observation =
               Cancellation(watch.count, watch.count < Requested)]

(* watchCancellation: until the count held still for the quiet window, or  *)
(* the window closes.                                                      *)
PollCancellation ==
  /\ watch.loop = "cancel"
  /\ Poll
  /\ watch' =
       IF watch.polls = WatchWindow
       THEN [Idle EXCEPT !.observation = Cancellation(watch.count, FALSE)]
       ELSE IF CountIterations # watch.count
       THEN [watch EXCEPT !.count = CountIterations, !.quiet = 0,
                          !.polls = @ + 1]
       ELSE IF watch.quiet + 1 >= QuietWindow
       THEN [Idle EXCEPT !.observation =
               Cancellation(watch.count, watch.count < Requested)]
       ELSE [watch EXCEPT !.quiet = @ + 1, !.polls = @ + 1]

-----------------------------------------------------------------------------
(* A removal that was observed is one: with a quiet window longer than    *)
(* the task's interval, the task has no iteration left to run              *)
(* (watchCancellation, crank.ts:239).                                      *)
RemovalIsReal ==
  watch.observation.state = "RemovalObserved" => task = 0

(* Once the accounts may leave, no iteration that is still to come can     *)
(* write them: the task is gone or the incident is settled                 *)
(* (safeToUndelegate).                                                     *)
UndelegationIsSafe ==
  SafeToUndelegate(watch.observation) => task = 0 \/ ~ExpiryDue("er")

(* What the watcher concludes from counting iterations is so.               *)
WatchIsRight == RemovalIsReal /\ UndelegationIsSafe
=============================================================================
