----------------------------- MODULE ExpiryCrank -----------------------------
(***************************************************************************)
(* The scheduled task that settles an incident nobody settles by hand,     *)
(* composed with the incident.                                             *)
(*                                                                         *)
(* The scheduler is external: it runs a task at most `iterations' times at *)
(* moments of its own choosing, replaces a task that is requested again    *)
(* under the same id, and removes one some time after a cancellation.      *)
(***************************************************************************)
EXTENDS IncidentRefinement

CONSTANT MaxIterations   \* MAX_EXPIRY_ITERATIONS

ASSUME IterationsAssumption == MaxIterations \in Nat \ {0}

VARIABLES
  task,         \* iterations left of the scheduled task; 0 is no task
  cancelling    \* a cancellation was accepted and not yet carried out

crank == <<task, cancelling>>

cvars == <<vars, crank>>

CrankTypeOK == task \in 0..MaxIterations /\ cancelling \in BOOLEAN

CrankInit == Init /\ task = 0 /\ cancelling = FALSE

(* The opener picks the cadence; nothing relates it to the deadline.       *)
RequestExpiryCrank(iterations) ==
  /\ Writes("er", coreAt)
  /\ core.status = "Collecting"
  /\ Reconstructs("er")
  /\ task' = iterations
  /\ cancelling' = FALSE
  /\ UNCHANGED vars

(* No condition on the status: the opener may cancel at any time.          *)
CancelExpiryCrank ==
  /\ Writes("er", coreAt)
  /\ task > 0
  /\ cancelling' = TRUE
  /\ UNCHANGED <<vars, task>>

RemoveTask ==
  /\ cancelling
  /\ task' = 0
  /\ cancelling' = FALSE
  /\ UNCHANGED vars

(* One iteration: expire_incident, or one of its three silent skips, or a  *)
(* failure because the core has left the rollup.                           *)
Fire ==
  /\ task > 0
  /\ task' = task - 1
  /\ cancelling' = (cancelling /\ task' > 0)
  /\ \/ ExpireIncident("er")
     \/ ~ExpiryDue("er") /\ UNCHANGED vars

CrankNext ==
  \/ Next /\ UNCHANGED crank
  \/ \E iterations \in 1..MaxIterations : RequestExpiryCrank(iterations)
  \/ CancelExpiryCrank
  \/ RemoveTask
  \/ Fire

CrankSpec == CrankInit /\ [][CrankNext]_cvars

(* Nobody calls certify_incident: only the clock and the scheduler run.    *)
CrankFairSpec == CrankSpec /\ WF_cvars(Fire) /\ WF_cvars(RemoveTask)

-----------------------------------------------------------------------------
(* A firing that finds the incident open after its deadline settles it,    *)
(* and every other firing, early, repeated, or after the release, changes  *)
(* no account (expire_incident is idempotent and monotonic).               *)
FiringSettlesOrSkips ==
  [][task' # task /\ ~UNCHANGED vars =>
       /\ core.status = "Collecting" /\ core' # core /\ IsTerminal'
       /\ core'.certified_at_slot >= core.expires_at_slot
       /\ UNCHANGED <<claim, ballot, places>>]_cvars

(* An incident whose task still has an iteration left when the window      *)
(* closes is settled with no caller at all, unless its opener cancels.     *)
TaskSettlesExpired ==
  core.status = "Collecting" /\ coreAt = "er" /\ IsExpired /\ task > 0
    ~> IsTerminal \/ cancelling
=============================================================================
