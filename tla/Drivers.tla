------------------------------ MODULE Drivers --------------------------------
(***************************************************************************)
(* The proof scripts, run against the programs they drive.                 *)
(*                                                                         *)
(* A script is a list of steps.  A step sends one transaction and waits    *)
(* for its confirmation, or observes the chain.  A transaction is accepted *)
(* when the handler it calls is enabled, and refused otherwise; a refusal  *)
(* throws, and so does a confirmation that does not come, whether or not   *)
(* the transaction landed.  Meanwhile the committor lands what it accepted *)
(* and strangers call what anybody may call.  Funding, the escrow,         *)
(* sessions, logging and the artifact's layout are left out.               *)
(***************************************************************************)
EXTENDS CrankWatch, IncidentPermissions, Sequences

CONSTANTS alpha, beta, gamma,   \* the members every script derives
          ClaimPayer,           \* who signs phase4-per's claim permission
          Scripts,              \* the scripts this instance runs
          Most                  \* bound: how much goes wrong around a run

(* Who reads and what is read besides the members' ballots (Reader,        *)
(* ReadMatrix) are no members.  The scripts send what is private to the    *)
(* rollup, release the whole family, and go up to a second nonce.          *)
ASSUME DriversAssumption ==
  /\ Members = {alpha, beta, gamma} /\ Cardinality(Members) = 3
  /\ Members \cap {"payer", "outsider", "nobody", "claim", "core"} = {}
  /\ ClaimPayer \in {"payer", "opener"}
  /\ Most \in Nat
  /\ Routes = {"er"} /\ Members \in ExitFamilies /\ MaxNonce \in Nat \ {0, 1}

VARIABLES
  covenant, member, capability, epochOver, snapshots,         \* Covenant
  settlement, receipt, market, touches, operation, cohort,    \* Settlement
  registered,   \* each market's registered adapter: none, unset or signer
  script,       \* the script that runs
  pc,           \* its next step, or 0
  outcome,      \* the verdict it writes, "none" while it runs, or "thrown"
  seen,         \* what it observed
  enforced,     \* does the read service enforce the permissions
  trouble       \* how often something went wrong around the script

Circle == INSTANCE Covenant WITH
  Protocols <- Members, MaxMembers <- 8, Thresholds <- {RequiredApprovals}
Cohort == INSTANCE Settlement WITH
  Adapters <- Members, MaxCohort <- 4, MaxTouches <- 0,
  certificate <- certificate.issued

circle == <<covenant, member, capability, epochOver, snapshots>>
settling == <<settlement, receipt, market, touches, operation, cohort>>
chainVars == <<vars, seals, crank, circle, settling, registered>>
runVars == <<script, pc, outcome, seen, enforced, trouble>>
driverVars == <<chainVars, watching, runVars>>

Order == <<alpha, beta, gamma>>
opener == alpha

Step(do, of) == [mode |-> "send", do |-> do, of |-> of]
Each(do) == [i \in 1..3 |-> Step(do, Order[i])]
Tolerant(steps) == [i \in DOMAIN steps |-> [steps[i] EXCEPT !.mode = "tolerant"]]
Refused(do, of) == [mode |-> "refused", do |-> do, of |-> of]
Look(do) == [mode |-> "look", do |-> do, of |-> alpha]

-----------------------------------------------------------------------------
(* The steps, section by section and script by script.                     *)

CovenantSteps ==
  <<Step("createCovenant", RequiredApprovals)>>
    \o Each("addCovenantMember") \o Each("ratifyCovenantMember")
    \o <<Step("ratifyCovenant", Members)>>
    \o Each("armCovenantMember") \o <<Step("armCovenant", Members)>>
CreationSteps ==
  <<Step("initializeIncident", opener), Step("initializeClaim", opener)>>
    \o Each("initializeAttestation")
DelegationSteps ==
  <<Step("delegateIncident", opener), Step("delegateClaim", opener)>>
    \o Each("delegateAttestation")
PermissionSteps(signer) ==
  <<Step("createClaimPermission", signer)>>
    \o Each("createAttestationPermission")
OpeningSteps ==
  <<Step("openIncident", opener), Step("submitPrivateClaim", opener)>>
ApprovalSteps ==
  <<Step("submitSealedAttestation", alpha), Step("submitSealedAttestation", beta)>>
ScrubSteps == <<Step("scrubClaim", opener)>> \o Each("scrubAttestation")
CloseSteps ==
  <<Step("closeClaimPermission", opener)>> \o Each("closeAttestationPermission")
ReleaseSteps == ScrubSteps \o CloseSteps \o <<Step("releaseIncident", Members)>>

(* phase4-local-lifecycle.ts *)
LocalFormation == CovenantSteps
LocalAccounts == Tolerant(CreationSteps)
LocalDelegation == DelegationSteps
LocalPermissions == PermissionSteps("opener")
LocalRun == OpeningSteps \o ApprovalSteps
(* Mutant of LocalExit: the family is released before anything is scrubbed. *)
LocalExit_Unscrubbed ==
  <<Step("certifyIncident", Members), Step("releaseIncident", Members)>>
LocalExit == <<Step("certifyIncident", Members)>> \o ReleaseSteps
Local == LocalFormation \o LocalAccounts \o LocalDelegation
           \o LocalPermissions \o LocalRun \o <<Look("matrix")>> \o LocalExit
           \o <<Look("owner"), Look("canaries"), Look("verdict")>>

(* phase4-per.ts *)
PerFormation == Tolerant(CovenantSteps)
PerAccounts == Tolerant(CreationSteps)
PerDelegation == Tolerant(DelegationSteps)
PerPermissions == Tolerant(PermissionSteps(ClaimPayer))
PerRun == Tolerant(<<OpeningSteps[1]>>) \o <<OpeningSteps[2]>> \o ApprovalSteps
PerRefusals ==
  <<Refused("outsiderAttests", opener), Refused("replaysNonce", alpha),
    Refused("nonOpenerQuarantines", gamma), Refused("commitIncident", Members),
    Refused("releaseIncident", Members),
    Refused("closeClaimPermission", opener),
    Refused("certifyShort", {alpha, beta})>>
PerExit == <<Step("certifyIncident", Members)>> \o ReleaseSteps
PerReplay == <<Refused("attestsAfterwards", gamma)>>
Per == <<Look("freshness")>> \o PerFormation \o PerAccounts \o PerDelegation
         \o PerPermissions \o PerRun
         \o <<Look("matrix"), Look("control")>> \o PerRefusals \o PerExit
         \o <<Look("owner")>> \o PerReplay \o <<Look("scan"), Look("verdict")>>

(* phase5-composition.ts *)
CompositionFormation == CovenantSteps
Arming(p, registers) ==
  <<Step("initializeMarket", p), Step("installCapability", p),
    Step("armCapability", p),
    Step(IF registers THEN "setAdapter" ELSE "clearAdapter", p)>>
CompositionArming(failOne) ==
  Arming(alpha, TRUE) \o Arming(beta, TRUE) \o Arming(gamma, ~failOne)
CompositionIncident ==
  CreationSteps \o DelegationSteps \o PermissionSteps("opener")
    \o OpeningSteps \o ApprovalSteps
CompositionExit == <<Step("certifyIncident", Members)>> \o ReleaseSteps
CohortReceipts ==
  <<Step("initializeSettlementReceipt", opener)>> \o Each("initializeAdapterReceipt")
CohortSteps ==
  <<Step("initializeOperation", 4), Step("delegateOperation", opener),
    Step("scheduleSettlementCohort", Members)>>
CompositionSettlement(suspendOne) ==
  <<Look("landed"), Step("publishCertificate", opener)>> \o CohortReceipts
    \o (IF suspendOne THEN <<Step("suspendCapability", gamma)>> ELSE << >>)
    \o CohortSteps
Composition(label) ==
  CompositionFormation \o CompositionArming(label = "fail-one")
    \o CompositionIncident \o CompositionExit
    \o CompositionSettlement(label = "suspend-one")
    \o <<Look("reconcile"), Look("scrubHeld"), Look("verified"), Look("verdict")>>

(* phase6-expiry.ts *)
ExpiryFormation == CovenantSteps
ExpiryIncident ==
  CreationSteps \o DelegationSteps \o PermissionSteps("opener") \o OpeningSteps
ExpiryRequest == <<Step("requestExpiryCrank", Requested)>>
CancelWatch ==
  <<Look("beginExpiry"), Look("watch"), Look("iterated"),
    Step("cancelExpiryCrank", opener), Look("beginCancel"), Look("watch")>>
ExpiryWatch == <<Look("beginExpiry"), Look("watch")>>
ExpiryExit == <<Look("safe")>> \o ReleaseSteps \o <<Look("landed"), Look("scrubHeld")>>
Expiry(cancel) ==
  ExpiryFormation \o ExpiryIncident \o ExpiryRequest
    \o (IF cancel THEN CancelWatch ELSE ExpiryWatch)
    \o ExpiryExit \o <<Look("verdict")>>

(* phase3-seam.ts *)
SeamFixture(failOne) ==
  Tolerant(Arming(alpha, TRUE) \o Arming(beta, TRUE) \o Arming(gamma, ~failOne))
SeamReceipts == Tolerant(CohortReceipts \o <<CohortSteps[1]>>)
SeamSchedule == Tolerant(<<CohortSteps[2]>>) \o <<CohortSteps[3]>>
Seam(failOne) ==
  SeamFixture(failOne) \o <<Look("certificate")>> \o SeamReceipts
    \o SeamSchedule \o <<Look("effects"), Look("checkpoint"), Look("verdict")>>

Program ==
  [local |-> Local, per |-> Per,
   success |-> Composition("success"), fail_one |-> Composition("fail-one"),
   suspend_one |-> Composition("suspend-one"),
   expire |-> Expiry(FALSE), cancel |-> Expiry(TRUE),
   seam |-> Seam(FALSE), seam_fail |-> Seam(TRUE)]

ASSUME ScriptsAssumption == Scripts \subseteq DOMAIN Program

-----------------------------------------------------------------------------
(* What a script remembers of what it saw.                                 *)

NoView == [status |-> "None", approvals |-> 0, rejections |-> 0]
NoEffects == [final |-> FALSE, executed |-> {}, paused |-> {}]
Blank ==
  [rerun |-> FALSE, matrix |-> {}, control |-> FALSE, unrefused |-> {},
   wrong |-> {}, view |-> NoView, leaks |-> {}, scrub |-> FALSE,
   class |-> "none", verified |-> FALSE, effects |-> NoEffects]
-----------------------------------------------------------------------------
(* A transaction is one handler; the accounts of the others stay.          *)

InIncident(A) ==
  A /\ UNCHANGED <<seals, crank, watching, circle, settling, registered>>
InSeals(A) == A /\ UNCHANGED <<crank, watching, circle, settling, registered>>
InCrank(A) == A /\ UNCHANGED <<seals, watching, circle, settling, registered>>
InCircle(A) ==
  A /\ UNCHANGED <<vars, seals, crank, watching, settling, registered>>
InCohort(A) ==
  /\ UNCHANGED <<vars, seals, crank, watching, circle, registered>>
  /\ A

FormationCall(s) ==
  \/ s.do = "createCovenant" /\ Circle!CreateCovenant(s.of)
  \/ s.do = "addCovenantMember" /\ Circle!AddCovenantMember(s.of, "Protocol")
  \/ s.do = "ratifyCovenantMember" /\ Circle!RatifyCovenantMember(s.of)
  \/ s.do = "ratifyCovenant" /\ Circle!RatifyCovenant(s.of)
  \/ s.do = "armCovenantMember" /\ Circle!ArmCovenantMember(s.of)
  \/ s.do = "armCovenant" /\ Circle!ArmCovenant
  \/ s.do = "installCapability"
       /\ Circle!InstallCapability(s.of, covenant.member_set)
  \/ s.do = "armCapability" /\ Circle!ArmCapability(s.of)
  \/ s.do = "suspendCapability" /\ Circle!SuspendCapability(s.of)

IncidentCall(s) ==
  \/ s.do = "initializeClaim" /\ InitializeClaim
  \/ s.do = "initializeAttestation" /\ InitializeAttestation(s.of)
  \/ s.do = "delegateIncident" /\ DelegateIncident
  \/ s.do = "delegateClaim" /\ DelegateClaim
  \/ s.do = "delegateAttestation" /\ DelegateAttestation(s.of)
  \/ s.do = "openIncident" /\ OpenIncident("er")
  \/ s.do = "submitPrivateClaim" /\ SubmitPrivateClaim("er", TRUE)
  \/ s.do = "submitSealedAttestation"
       /\ SubmitSealedAttestation("er", s.of, "Approve", 1)
  \/ s.do = "certifyIncident" /\ CertifyIncident("er")
  \/ s.do = "scrubClaim" /\ ScrubClaim("er")
  \/ s.do = "scrubAttestation" /\ ScrubAttestation("er", s.of)
  \/ s.do = "commitIncident" /\ CommitIncident(s.of)
  \/ s.do = "releaseIncident" /\ ReleaseIncident(s.of)
  \/ s.do = "publishCertificate" /\ PublishCertificate

(* has_one = opener on the claim: nobody else may seal it.                 *)
SealCall(s) ==
  \/ s.do = "createClaimPermission" /\ s.of = "opener" /\ CreateClaimPermission
  \/ s.do = "createAttestationPermission" /\ CreateAttestationPermission(s.of)
  \/ s.do = "closeClaimPermission" /\ CloseClaimPermission
  \/ s.do = "closeAttestationPermission" /\ CloseAttestationPermission(s.of)

(* A cancellation of a task that ran out is accepted and does nothing.     *)
CrankCall(s) ==
  \/ s.do = "requestExpiryCrank" /\ RequestExpiryCrank(s.of)
  \/ s.do = "cancelExpiryCrank"
       /\ (CancelExpiryCrank \/ (task = 0 /\ UNCHANGED cvars))

CohortCall(s) ==
  \/ s.do = "initializeSettlementReceipt" /\ Cohort!InitializeSettlementReceipt
  \/ s.do = "initializeAdapterReceipt" /\ Cohort!InitializeAdapterReceipt(s.of)
  \/ s.do = "initializeOperation" /\ Cohort!InitializeOperation(s.of)
  \/ s.do = "delegateOperation" /\ Cohort!DelegateOperation
  \/ s.do = "scheduleSettlementCohort" /\ Cohort!ScheduleSettlementCohort(s.of)

MarketCall(s) ==
  /\ \/ s.do = "initializeMarket" /\ registered[s.of] = "none"
          /\ registered' = [registered EXCEPT ![s.of] = "unset"]
     \/ s.do = "setAdapter" /\ registered[s.of] # "none"
          /\ registered' = [registered EXCEPT ![s.of] = "signer"]
     \/ s.do = "clearAdapter" /\ registered[s.of] # "none"
          /\ registered' = [registered EXCEPT ![s.of] = "unset"]
  /\ UNCHANGED <<vars, seals, crank, watching, circle, settling>>

Call(s) ==
  \/ InCircle(FormationCall(s))
  \/ /\ s.do = "initializeIncident"
     /\ InitializeIncident /\ Circle!InitializeIncident(s.of)
     /\ UNCHANGED <<seals, crank, watching, settling, registered>>
  \/ InIncident(IncidentCall(s))
  \/ InSeals(SealCall(s))
  \/ InCrank(CrankCall(s))
  \/ InCohort(CohortCall(s))
  \/ MarketCall(s)

Accepts(s) == ENABLED Call(s)

(* "already in use": the account the step creates is there.  A delegation  *)
(* is skipped where the account's owner says that it was delegated.        *)
AlreadyThere(s) ==
  \/ s.do = "delegateIncident" /\ coreAt \in {"er", "leaving"}
  \/ s.do = "delegateClaim" /\ claimAt \in {"er", "leaving"}
  \/ s.do = "delegateAttestation" /\ ballotAt[s.of] \in {"er", "leaving"}
  \/ s.do = "delegateOperation" /\ operation.place \in {"er", "leaving"}
  \/ s.do = "createCovenant" /\ covenant.status # "None"
  \/ s.do = "addCovenantMember" /\ member[s.of].exists
  \/ s.do = "initializeMarket" /\ registered[s.of] # "none"
  \/ s.do = "installCapability" /\ capability[s.of].installed
  \/ s.do = "initializeIncident" /\ coreAt # "absent"
  \/ s.do = "initializeClaim" /\ claimAt # "absent"
  \/ s.do = "initializeAttestation" /\ ballotAt[s.of] # "absent"
  \/ s.do = "createClaimPermission" /\ claimSeal # "none"
  \/ s.do = "createAttestationPermission" /\ ballotSeal[s.of] # "none"
  \/ s.do = "initializeSettlementReceipt" /\ settlement # "none"
  \/ s.do = "initializeAdapterReceipt" /\ receipt[s.of] # "none"
  \/ s.do = "initializeOperation" /\ operation.place # "none"

-----------------------------------------------------------------------------
(* How a script gets from one step to the next.                            *)

Current == Program[script][pc]
Running == outcome = "none"
Untouched == UNCHANGED <<chainVars, watching>>

Troubled == trouble' = IF trouble < Most THEN trouble + 1 ELSE trouble
Advance == pc' = pc + 1 /\ UNCHANGED <<script, outcome, enforced>>
Throw == outcome' = "thrown" /\ UNCHANGED <<script, pc, seen, enforced>>

Sending == Running /\ Current.mode \in {"send", "tolerant"}

Send ==
  /\ Sending /\ Call(Current)
  /\ Advance /\ UNCHANGED <<seen, trouble>>

SendIdempotent ==
  /\ Sending /\ Current.mode = "tolerant" /\ ~Accepts(Current)
  /\ AlreadyThere(Current)
  /\ Untouched /\ Advance /\ UNCHANGED <<seen, trouble>>

SendRefused ==
  /\ Sending /\ ~Accepts(Current)
  /\ ~(Current.mode = "tolerant" /\ AlreadyThere(Current))
  /\ Untouched /\ Throw /\ UNCHANGED trouble

(* The confirmation does not come; the transaction landed or it did not.   *)
ConfirmationLost ==
  /\ Sending /\ trouble < Most /\ trouble' = trouble + 1
  /\ Call(Current) \/ Untouched
  /\ Throw

Rerunnable == {"local", "per", "seam", "seam_fail"}

(* These scripts derive every address from their label, so a second run    *)
(* walks over the accounts of the first.                                   *)
Rerun ==
  /\ outcome = "thrown" /\ script \in Rerunnable /\ ~seen.rerun
  /\ outcome' = "none" /\ pc' = 1
  /\ seen' = [Blank EXCEPT !.rerun = TRUE]
  /\ Untouched /\ UNCHANGED <<script, enforced, trouble>>

-----------------------------------------------------------------------------
(* Calls that must be refused, and for which reason (phase4-per).          *)

Attempt(s) ==
  \/ s.do = "replaysNonce"
       /\ InIncident(SubmitSealedAttestation("er", s.of, "Reject", 1))
  \/ s.do = "attestsAfterwards"
       /\ InIncident(SubmitSealedAttestation("er", s.of, "Approve", 2))
  \/ s.do \in {"commitIncident", "releaseIncident", "closeClaimPermission"}
       /\ Call(s)

(* The first check that fails names the reason: an absent ballot is not    *)
(* initialized before its seeds are compared, a release asks for a         *)
(* terminal status before it looks at a byte, and a ballot that left the   *)
(* rollup is not the program's account any more.                           *)
ReasonMatches(s) ==
  CASE s.do = "outsiderAttests" -> FALSE
    [] s.do = "replaysNonce" ->
         core.status = "Collecting" /\ ~IsExpired /\ ballotAt[s.of] = "er"
    [] s.do = "nonOpenerQuarantines" -> Reads("er", coreAt)
    [] s.do = "commitIncident" -> Delegated(Members) /\ ~GatedExit(Members)
    [] s.do = "releaseIncident" ->
         Delegated(Members) /\ IsTerminal /\ ~GatedExit(Members)
    [] s.do = "closeClaimPermission" -> claimAt = "er" /\ ~ClaimMayLeave
    [] s.do = "certifyShort" -> core.status = "Collecting"
    [] s.do = "attestsAfterwards" ->
         ballotAt[s.of] = "er" /\ core.status # "Collecting"

Trying == Running /\ Current.mode = "refused"

AttemptSucceeds ==
  /\ Trying /\ Attempt(Current)
  /\ seen' = [seen EXCEPT !.unrefused = @ \cup {Current.do}]
  /\ Advance /\ UNCHANGED trouble

AttemptRefused ==
  /\ Trying /\ ~ENABLED Attempt(Current)
  /\ seen' = IF ReasonMatches(Current) THEN seen
             ELSE [seen EXCEPT !.wrong = @ \cup {Current.do}]
  /\ Untouched /\ Advance /\ UNCHANGED trouble

(* Anything thrown counts as a refusal, for another reason.                *)
AttemptLost ==
  /\ Trying /\ trouble < Most /\ trouble' = trouble + 1
  /\ Attempt(Current) \/ Untouched
  /\ seen' = [seen EXCEPT !.wrong = @ \cup {Current.do}]
  /\ Advance

-----------------------------------------------------------------------------
(* Observations.                                                           *)

Looking(do) ==
  Running /\ Current.mode = "look" /\ Current.do = do /\ Untouched

Note(observed) == seen' = observed /\ Advance /\ UNCHANGED trouble

(* The permission decides who reads an account of the rollup, where the    *)
(* read service enforces it.                                               *)
MayRead(who, account) ==
  \/ ~enforced
  \/ account = "core"
  \/ account = "claim" /\ (claimSeal # "private" \/ who \in Members)
  \/ account \in Members /\ (ballotSeal[account] = "none" \/ who = account)

Reader == [local |-> alpha, per |-> "payer"]   \* who reads as the opener
ReadMatrix ==
  {<<alpha, alpha>>, <<alpha, beta>>, <<beta, beta>>, <<beta, alpha>>,
   <<Reader[script], IF script = "local" THEN beta ELSE alpha>>,
   <<"outsider", alpha>>, <<alpha, "claim">>, <<"outsider", "claim">>,
   <<"outsider", "core">>, <<"nobody", "claim">>, <<"nobody", alpha>>}
ForeignBallots ==
  {r \in ReadMatrix : r[2] \in Members /\ r[1] \notin {r[2], "nobody"}}

Readable == {r \in ReadMatrix : MayRead(r[1], r[2])}

LookAtMatrix == Looking("matrix") /\ Note([seen EXCEPT !.matrix = Readable])

(* A read that fails is a read that was refused.                           *)
LookAtMatrixInOutage ==
  /\ Looking("matrix") /\ trouble < Most /\ trouble' = trouble + 1
  /\ \E lost \in {ReadMatrix} \cup {{r} : r \in Readable} :
       seen' = [seen EXCEPT !.matrix = Readable \ lost]
  /\ Advance

(* Every canary has to be found where its owner may look.                  *)
ControlFound ==
  /\ claim.evidence /\ MayRead(alpha, "claim")
  /\ \A m \in {alpha, beta} : Secret(m) /\ MayRead(m, m)

LookAtControl ==
  Looking("control") /\ Note([seen EXCEPT !.control = ControlFound])

RuntimeIsFresh == Looking("freshness") /\ Note(seen)

RuntimeIsStale ==
  /\ Looking("freshness") /\ trouble < Most /\ trouble' = trouble + 1
  /\ outcome' = "BLOCKED_STALE_RUNTIME"
  /\ UNCHANGED <<script, pc, seen, enforced>>

View == [status |-> core.status, approvals |-> core.approvals,
         rejections |-> core.rejections]

CoreLands ==
  /\ Looking("owner") \/ Looking("landed")
  /\ coreAt = "base"
  /\ Note([seen EXCEPT !.view = View])

(* phase4 goes on without a view of the core, phase5 and phase6 throw.     *)
OwnerWindowCloses ==
  /\ Looking("owner") /\ coreAt # "base"
  /\ seen' = [seen EXCEPT !.view = NoView] /\ Troubled /\ Advance

LandingWindowCloses ==
  Looking("landed") /\ coreAt # "base" /\ Troubled /\ Throw

LookForCanaries ==
  Looking("canaries") /\ Note([seen EXCEPT !.leaks = leaked])

(* The rollup's transactions carry the submissions.  A surface that could  *)
(* not be fetched is scanned as the text of its error.                     *)
ScanSurfaces ==
  /\ Looking("scan")
  /\ Note([seen EXCEPT !.leaks =
             leaked \cup (IF enforced THEN {} ELSE {"transactions"})])

ScanInOutage ==
  /\ Looking("scan") /\ trouble < Most /\ trouble' = trouble + 1
  /\ seen' = [seen EXCEPT !.leaks = leaked]
  /\ Advance

LookAtScrub ==
  Looking("scrubHeld") /\ Note([seen EXCEPT !.scrub = (leaked = {})])

LookForCertificate ==
  /\ Looking("certificate")
  /\ IF certificate.issued THEN Note(seen) ELSE Throw /\ UNCHANGED trouble

(* What phase5 hands its reconciler and phase3 classifies itself.          *)
Effects ==
  [final |-> settlement = "final",
   executed |-> {a \in Members : receipt[a] = "executed"},
   paused |-> {a \in Members : market[a] = "us"}]
Complete(e) == e.final /\ e.executed = Members

Classify(e, committed) ==
  LET applied == e.executed \cap e.paused IN
  IF e.final /\ applied = Members THEN "ALL_ACTIONS_APPLIED"
  ELSE IF committed /\ ~e.final /\ e.executed \cup e.paused = {}
    THEN "COMMIT_WITHOUT_ACTIONS"
  ELSE IF applied # {} \/ e.final THEN "PARTIAL_OBSERVATION"
  ELSE "UNKNOWN"

(* The monitor takes the certificate for the commit.                       *)
Reconcile ==
  /\ Looking("reconcile")
  /\ seen' = [seen EXCEPT !.class = Classify(Effects, certificate.issued)]
  /\ IF cohort.phase = "pending" THEN Troubled ELSE UNCHANGED trouble
  /\ Advance

(* The operation is read after the adapters and the receipt.               *)
ReadEffects == Looking("effects") /\ Note([seen EXCEPT !.effects = Effects])

ObserveAgain ==
  /\ Looking("checkpoint") /\ ~Complete(seen.effects)
  /\ pc' = pc - 1
  /\ UNCHANGED <<script, outcome, seen, enforced, trouble>>

(* Mutant of ObservationEnds: it goes on until every effect is there.      *)
ObservationEnds_Complete ==
  /\ Looking("checkpoint") /\ Complete(seen.effects)
  /\ seen' = [seen EXCEPT !.class =
                Classify(seen.effects, operation.place = "base")]
  /\ UNCHANGED trouble
  /\ Advance

ObservationEnds ==
  /\ Looking("checkpoint")
  /\ seen' = [seen EXCEPT !.class =
                Classify(seen.effects, operation.place = "base")]
  /\ IF Complete(seen.effects)
          \/ (seen.effects = Effects /\ cohort.phase # "pending")
     THEN UNCHANGED trouble ELSE Troubled
  /\ Advance

LookVerified ==
  /\ Looking("verified")
  /\ Note([seen EXCEPT !.verified =
       /\ certificate.issued /\ settlement # "none"
       /\ \A a \in Members : receipt[a] # "none"])

InWatch(A) == A /\ UNCHANGED <<seals, circle, settling, registered>>

BeginWatching ==
  /\ Running /\ Current.mode = "look"
  /\ \/ Current.do = "beginExpiry" /\ InWatch(BeginWatch("expiry"))
     \/ Current.do = "beginCancel" /\ InWatch(BeginWatch("cancel"))
  /\ Advance /\ UNCHANGED <<seen, trouble>>

(* An expiry run whose window closes first was too slow.                   *)
Watching ==
  /\ Running /\ Current.mode = "look" /\ Current.do = "watch"
  /\ InWatch(PollExpiry \/ PollCancellation)
  /\ IF script = "expire" /\ watch.polls = WatchWindow THEN Troubled
     ELSE UNCHANGED trouble
  /\ UNCHANGED <<script, pc, outcome, seen, enforced>>

WatchEnds == Looking("watch") /\ watch.loop = "none" /\ Note(seen)

LookForIterations ==
  /\ Looking("iterated")
  /\ IF watch.observation.iterations > 0 THEN Note(seen)
     ELSE Throw /\ UNCHANGED trouble

(* Mutant of LookWhetherSafe: the verdict is stepped over.                 *)
LookWhetherSafe_Past ==
  /\ Looking("safe")
  /\ pc' = IF SafeToUndelegate(watch.observation) /\ watch.observation.terminal
           THEN pc + 1 ELSE Len(Program[script]) + 1
  /\ UNCHANGED <<script, outcome, seen, enforced, trouble>>

(* The accounts are taken off the rollup, or the run goes to its verdict.  *)
LookWhetherSafe ==
  /\ Looking("safe")
  /\ pc' = IF SafeToUndelegate(watch.observation) /\ watch.observation.terminal
           THEN pc + 1 ELSE Len(Program[script])
  /\ UNCHANGED <<script, outcome, seen, enforced, trouble>>

-----------------------------------------------------------------------------
(* Verdicts.                                                               *)

Earned == [status |-> "CertifiedPendingSettlement",
           approvals |-> 2, rejections |-> 0]
PeersBlind == seen.matrix \cap ForeignBallots = {}
Fails(passed) == IF passed THEN "PASS" ELSE "FAIL"

(* Mutant of LocalVerdict: an incident that came back is a certified one.  *)
LocalVerdict_AnyOutcome ==
  IF seen.leaks = {} THEN IF PeersBlind THEN "PASS" ELSE "READS_NOT_ENFORCED"
  ELSE "FAIL"

LocalVerdict ==
  IF seen.view = Earned /\ seen.leaks = {}
  THEN IF PeersBlind THEN "PASS" ELSE "READS_NOT_ENFORCED"
  ELSE "FAIL"

PerVerdict ==
  Fails(/\ seen.leaks = {} /\ seen.unrefused = {} /\ seen.wrong = {}
        /\ seen.control /\ seen.view = Earned
        /\ PeersBlind /\ {<<alpha, alpha>>, <<beta, beta>>} \subseteq seen.matrix
        /\ <<alpha, "claim">> \in seen.matrix
        /\ {<<"outsider", "claim">>, <<"nobody", "claim">>} \cap seen.matrix = {}
        /\ <<"outsider", "core">> \in seen.matrix)

CompositionVerdict ==
  LET expected == IF script = "success" THEN "ALL_ACTIONS_APPLIED"
                  ELSE "COMMIT_WITHOUT_ACTIONS"
  IN Fails(seen.class = expected /\ seen.scrub /\ seen.verified)

ExpiryVerdict ==
  LET o == watch.observation IN
  Fails(/\ o.iterations > 0
        /\ IF script = "cancel"
           THEN o.state = "RemovalObserved" /\ ~o.exhausted
           ELSE o.state = "DesiredStateReached" /\ o.terminal /\ seen.scrub)

Verdict ==
  CASE script = "local" -> LocalVerdict
    [] script = "per" -> PerVerdict
    [] script \in {"success", "fail_one", "suspend_one"} -> CompositionVerdict
    [] script \in {"expire", "cancel"} -> ExpiryVerdict
    [] OTHER -> seen.class

GiveVerdict ==
  /\ Looking("verdict")
  /\ outcome' = Verdict
  /\ UNCHANGED <<script, pc, seen, enforced, trouble>>

-----------------------------------------------------------------------------
(* Everybody else.                                                         *)

OffScript == UNCHANGED <<script, pc, outcome, seen, enforced>>

(* What the adapter and the market of a protocol ask of an action.         *)
Permitted(a) ==
  /\ capability[a].armed /\ ~capability[a].suspended
  /\ capability[a].member_set = covenant.member_set
  /\ registered[a] = "signer" /\ market[a] = "nobody"

Lands ==
  /\ InIncident(LandCore \/ LandClaim \/ \E m \in Members : LandAttestation(m))
  /\ OffScript /\ UNCHANGED trouble

CohortLands ==
  /\ \A a \in cohort.adapters : Permitted(a)
  /\ InCohort(Cohort!LandCohort)
  /\ OffScript /\ UNCHANGED trouble

(* The committor strips a cohort for a reason, or for none of ours.        *)
CohortStripped ==
  /\ InCohort(Cohort!LandStripped)
  /\ IF \A a \in cohort.adapters : Permitted(a) THEN Troubled
     ELSE UNCHANGED trouble
  /\ OffScript

Schedules ==
  /\ \/ InWatch(Iterate)
     \/ InCrank(RemoveTask)
  /\ OffScript /\ UNCHANGED trouble

(* Another incident's task, on a program that is shared.                   *)
OthersRun ==
  /\ script \in {"expire", "cancel"} /\ Running
  /\ InWatch(OtherTaskRuns)
  /\ OffScript /\ UNCHANGED trouble

(* A window that closes on phase4 or phase5 was too slow.                  *)
TimePasses ==
  /\ core.status = "Collecting" /\ InIncident(Tick)
  /\ IF script \in {"expire", "cancel"} THEN UNCHANGED trouble
     ELSE trouble < Most /\ trouble' = trouble + 1
  /\ OffScript

(* Every handler without a signer is anybody's.                            *)
StrangerCalls ==
  /\ trouble < Most /\ trouble' = trouble + 1
  /\ \/ InIncident(\/ CertifyIncident("er") \/ ExpireIncident("er")
                   \/ ScrubClaim("er")
                   \/ \E m \in Members : ScrubAttestation("er", m)
                   \/ ReleaseIncident(Members) \/ PublishCertificate)
     \/ InSeals(\/ CloseClaimPermission
                \/ \E m \in Members : CloseAttestationPermission(m))
     \/ InCircle(Circle!RatifyCovenant(Members) \/ Circle!ArmCovenant)
     \/ InCohort(\/ Cohort!FinalizeSettlement
                 \/ \E a \in Members : Permitted(a) /\ Cohort!ExecuteDirectly(a))
  /\ OffScript

(* The seam's certificate is older than the script: an earlier build would *)
(* publish one on request, and its account is still there.                 *)
OldCertificate ==
  /\ script \in {"seam", "seam_fail"} /\ pc = 1 /\ ~seen.rerun
  /\ ~certificate.issued
  /\ certificate' = [issued |-> TRUE, certificate_nonce |-> 1,
                     approval_count |-> 2, rejection_count |-> 0,
                     expires_at_slot |-> slot + CertificateLifetime]
  /\ UNCHANGED <<slot, core, claim, ballot, places, leaked, image, checkpoint>>
  /\ InIncident(TRUE)
  /\ OffScript /\ UNCHANGED trouble

DriverInit ==
  /\ SealInit /\ task = 0 /\ cancelling = FALSE /\ WatchInit
  /\ Circle!CovenantInit
  /\ settlement = "none" /\ touches = 0
  /\ receipt = [a \in Members |-> "none"]
  /\ market = [a \in Members |-> "nobody"]
  /\ operation = Cohort!NoOperation /\ cohort = Cohort!NoCohort
  /\ registered = [a \in Members |-> "none"]
  /\ script \in Scripts /\ pc = 1 /\ outcome = "none" /\ seen = Blank
  /\ enforced \in (IF script \in {"local", "per"} THEN BOOLEAN ELSE {TRUE})
  /\ trouble = 0

Steps ==
  \/ Send \/ SendIdempotent \/ SendRefused
  \/ AttemptSucceeds \/ AttemptRefused
  \/ RuntimeIsFresh \/ LookAtMatrix \/ LookAtControl
  \/ CoreLands \/ OwnerWindowCloses \/ LandingWindowCloses
  \/ LookForCanaries \/ ScanSurfaces \/ LookAtScrub \/ LookForCertificate
  \/ Reconcile \/ ReadEffects \/ LookVerified
  \/ BeginWatching \/ Watching \/ WatchEnds
  \/ LookForIterations \/ LookWhetherSafe \/ GiveVerdict

Faults ==
  \/ ConfirmationLost \/ AttemptLost \/ LookAtMatrixInOutage \/ ScanInOutage
  \/ RuntimeIsStale \/ StrangerCalls

World ==
  \/ Lands \/ CohortLands \/ CohortStripped \/ Schedules \/ OthersRun
  \/ TimePasses \/ OldCertificate

DriverNext ==
  Steps \/ ObserveAgain \/ ObservationEnds \/ Rerun \/ Faults \/ World

(* A script takes its next step, its windows close, and the scheduler is   *)
(* punctual; nobody else has to act.                                       *)
DriverSpec ==
  /\ DriverInit /\ [][DriverNext]_driverVars
  /\ WF_driverVars(Steps)
  /\ SF_driverVars(ObservationEnds)
  /\ WF_driverVars(Schedules)

-----------------------------------------------------------------------------
DriverTypeOK ==
  /\ TypeOK /\ SealTypeOK /\ CrankTypeOK /\ Circle!CovenantTypeOK
  /\ script \in Scripts /\ pc \in 1..Len(Program[script])
  /\ outcome \in {"none", "thrown", "PASS", "FAIL", "READS_NOT_ENFORCED",
                  "BLOCKED_STALE_RUNTIME", "ALL_ACTIONS_APPLIED",
                  "COMMIT_WITHOUT_ACTIONS", "PARTIAL_OBSERVATION", "UNKNOWN"}
  /\ trouble \in 0..Most

Settled3 == settlement = "final" /\ \A a \in Members : receipt[a] = "executed"

(* No run reports sealed ballots where the service serves them to anybody, *)
(* unless reads were failing: phase4-local takes a failed read for a       *)
(* refusal, phase4-per has the positive control against it.                *)
SealsAreSeen ==
  outcome = "PASS" /\ script \in {"local", "per"} =>
    enforced \/ (script = "local" /\ trouble > 0)

(* A verdict is true of the chain, whatever was lost, repeated or done by  *)
(* others on the way: a private lifecycle that passed is certified by two  *)
(* approvals, is back on base and left nothing private there; a cohort     *)
(* that passed as applied was applied, one that passed as refused was not; *)
(* an expiry that passed is settled and home, and a cancellation that      *)
(* passed left no task; and sealed ballots are reported only where they    *)
(* are (the verdicts of phase3 to phase6).                                 *)
VerdictIsEarned ==
  /\ outcome = "PASS" /\ script \in {"local", "per"} =>
       View = Earned /\ coreAt = "base" /\ leaked = {}
  /\ outcome = "PASS" /\ script = "success" => Settled3 /\ leaked = {}
  /\ outcome = "PASS" /\ script \in {"fail_one", "suspend_one"} =>
       certificate.issued /\ cohort.phase # "applied"
  /\ outcome = "PASS" /\ script = "expire" =>
       IsTerminal /\ coreAt = "base" /\ leaked = {}
  /\ outcome = "PASS" /\ script = "cancel" => task = 0
  /\ outcome = "ALL_ACTIONS_APPLIED" => Settled3
  /\ SealsAreSeen

(* With nothing wrong around it, a script reaches the verdict it was       *)
(* written for, so that a failure says something about the system.         *)
(* Phase4-per is the exception: three of its refusals come for another     *)
(* reason than it expects.  A cancelled task may run out by itself first.  *)
Expected ==
  [local |-> IF enforced THEN "PASS" ELSE "READS_NOT_ENFORCED",
   per |-> IF ClaimPayer = "opener" THEN "FAIL" ELSE "thrown",
   success |-> "PASS", fail_one |-> "PASS", suspend_one |-> "PASS",
   expire |-> "PASS", seam |-> "ALL_ACTIONS_APPLIED",
   seam_fail |-> "COMMIT_WITHOUT_ACTIONS"]

OnlyTroubleFails ==
  /\ trouble = 0 /\ outcome # "none" /\ script # "cancel"
  /\ (script \in {"seam", "seam_fail"} => certificate.issued)
  => outcome = Expected[script]

(* Every script comes to an end.                                           *)
ScriptEnds == []<>(outcome # "none")
=============================================================================
