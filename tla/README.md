# VINCT: a verification project

VINCT lets a circle of protocols agree, in private, on one bounded emergency
action. A member opens an *incident*, the members vote inside a private
ephemeral rollup, the outcome is counted once, the private bytes are
overwritten, the accounts return to the base layer, a certificate is published
there, and a cohort of adapters executes the one action each protocol
authorised in advance. A monitor reads the base layer and says what happened.

This directory holds TLA+ models of that system, the instances TLC checks, and
theorems about them that TLAPS checks. `PROJECT.json` lists for each definition
the source lines it stands for.

## 1. Inventory

| Part | State it keeps | Operations | What makes it correct |
|---|---|---|---|
| **Incident** (`vinct-core`, `lib.rs`, `incident.rs`) | `IncidentCore` (public), `IncidentClaim` (private), one `MemberAttestation` per member (private), each on the base layer, delegated to the rollup, or on its way back | initialize ×3, delegate ×3, open, submit claim, submit attestation, quarantine, certify, expire, scrub ×2, release, commit, publish certificate | one outcome, which is the count of ballots cast inside the window; nothing private on the base layer; the outcome is always reached and published |
| **Permissions** (`lib.rs`) | one ephemeral permission per private account | create, update, close | no permission goes before the secret it protects |
| **Expiry crank** (`lib.rs`) | a task in the rollup's scheduler | request, cancel, fire | early, late and repeated firings are harmless; a task that is left alone settles the incident |
| **Covenant** (`covenant.rs`) | `Covenant`, `CovenantMember`s | create, add member, ratify ×2, arm ×2 | frozen terms are the terms every member ratified; incidents open only under an armed, current covenant |
| **Settlement cohort** (`lib.rs`) | `SettlementOperation`, `SettlementReceipt` | initialize ×2, delegate, schedule, finalize | scheduled once; a receipt is final once |
| **Adapter** (`vinct-adapter`) | `SovereignCapability`, `AdapterReceipt` | install, arm, suspend, resume, renew, revoke, initialize receipt, execute | each operation acts at most once, only under a live certificate and an armed capability |
| **Market** (`vinct-mock-protocol`) | `ProtocolMarket` | initialize, set adapter, pause, demo reset | only the registered adapter pauses; never unpauses |
| **Settlement monitor** (`packages/monitor`) | records and recovery proposals | observe, classify, propose recovery | never calls settled what is not; what it calls missing had not happened when its pass began |
| **Crank monitor** (`packages/monitor/src/crank.ts`) | one watch window | watch, watch cancellation | never calls an accepted cancellation a removal |
| **Reference model** (`crates/vinct-reference`) | `IncidentState`: every attestation, quarantined members | open, submit, quarantine, evaluate, certify, recover | agrees with the program |
| **Client** (`packages/client`) | none | build instructions, decode accounts, resolve endpoints, judge freshness | the lists bind to the handlers; the fields are the program's; private calls go to the rollup that holds the accounts |
| **Verifier** (`packages/verifier`) | none | encode, hash, check vectors, verify an operation | one document, one digest; what is verified is there and of one operation |
| **Web application and worker** (`apps/web`) | what the last poll read, the connected wallet | convene, name, ratify, arm; proxy reads | its claims are borne out by the chain, and what a member signs binds to the frozen circle |
| **Proof scripts** (`scripts`) | an artifact and a verdict | the programs' instructions, in order | a verdict is true of the chain |
| **Types, layouts** (`crates`) | none: encodings and digests | encode, hash | injective, identical in Rust and TypeScript |

**How the parts interact.** A covenant is copied into each incident when it is
created, so the rollup never reads it. An incident runs on two layers: an
account is written where it lives, and moves by delegation and by a scheduled
`commit_and_undelegate` that lands later, account by account. The crank is
nothing but another caller of the counting code. A certificate account is the
only thing an adapter reads of an incident. The cohort's actions run on the
base layer after the operation account's commit, all or none of them within one
attempt; the committor may drop them all and retry. The monitors, the verifier,
the page and the scripts read accounts one at a time while all this goes on.

**What is hard.** Handlers are permissionless wherever a signature would be a
veto, so any of them may run at any moment on whatever layer holds its accounts.
Whatever observes them puts its answer together from reads of different
moments. The hazards, each with its line and the properties about it, are the
`hazards` of `PROJECT.json`.

## 2. Plan

Done, in this order: the incident (1), what is composed with it (2), its proofs
(3), the adapter and its ledger (4), settlement and its monitor (5, 6),
formation, the page and its proofs (7), the crank monitor and the scripts (8),
the reference model beside the program and its proofs (9), what crosses the
boundary of the TypeScript packages (10), and the proofs of the compositions: the
incident with what it promises and what surrounds it, the monitor, the page, the
client (11), the scripts and their watcher (12), and the codec (13).

Left, in this order:

1. The converse of a script's verdict (`OnlyTroubleFails`) as far as it can be
   stated without the whole run.
2. Certification and recovery of the reference model, beside
   `PublishCertificate` and `ProposeRecovery`.
3. The page that answers an incident, once it can be reached (`offered`).

## 3. Modules

| Module | Models | EXTENDS / INSTANCE |
|---|---|---|
| `Ballots` | the counting rules of `incident.rs` as operators | |
| `Incident` | every handler of one incident's life | `Ballots` |
| `SealedQuorum` | abstract: a vote that is open, then decided once | |
| `IncidentRefinement` | the mapping from `Incident` to `SealedQuorum` | `Incident`, INSTANCE `SealedQuorum` |
| `IncidentPermissions` | permissions interleaved with `Incident` | `Incident` |
| `ExpiryCrank` | the scheduler's task interleaved with `Incident` | `IncidentRefinement` |
| `Adapter` | capabilities, receipts and markets | |
| `EffectLedger` | abstract: which effects happened, and how often each market was paused | |
| `AdapterRefinement` | the mapping from `Adapter` to `EffectLedger` | `Adapter`, INSTANCE `EffectLedger` |
| `Covenant` | formation of one covenant, the capabilities beside it, and the incidents it grounds | |
| `Formation` | a steward's page, one tab and everybody else's tooling | `Covenant` |
| `Settlement` | the accounts of one settlement, the cohort and the committor | |
| `Monitor` | the reconciler: reads, passes, the record, recoveries | `Settlement` |
| `CrankWatch` | the crank monitor | `ExpiryCrank` |
| `Drivers` | the proof scripts, step by step, and what goes wrong around them | `CrankWatch`, `IncidentPermissions`, INSTANCE `Covenant` |
| `Reference` | the reference model and the program, given the same calls | INSTANCE `Incident` |
| `Canonical` | the verifier's Borsh reader and writer | |
| `Vectors` | the schemas, the vector file and the parity check | `Canonical` |
| `ClientCalls` | instruction builders against the handlers' accounts | |
| `ClientAccounts` | decoders and the leak scan against the programs' layouts | |
| `Verification` | `verifyOperation` over a chain that moves | |
| `Routing` | endpoints, searches, freshness, the worker | |
| `AdapterProofs`, `ReferenceProofs`, `MonitorProofs` | theorems | the module (or its refinement) |
| `IncidentProofs` | theorems: the incident, the refinement of `SealedQuorum`, permissions, crank | `IncidentPermissions`, `ExpiryCrank` |
| `DriverProofs` | theorems: the crank watcher, the scripts' verdicts, types, and what a run is to its parts | `Drivers`, `IncidentProofs` |
| `FormationProofs` | theorems: the covenant and the page | `Formation` |
| `ClientProofs` | theorems: the verifier's and the router's exchanges | `Verification`, `Routing` |
| `CodecProofs` | theorems: the verifier's codec and a bundle's delivery | `Vectors` |
| `MCIncident`, `MCPermissions`, `MCCrank`, `MCAdapter`, `MCMonitor`, `MCFormation`, `MCScripts`, `MCWire` | values for TLC; `MCWire` runs the six pieces that share no state one at a time | |

### State and actions

`core`, `claim` and `ballot[m]` are the three account types without the fields
that never change after creation. `coreAt`, `claimAt` and `ballotAt[m]` say
where each account lives: `absent`, `base`, `er` (delegated) or `leaving`
(scheduled to be undelegated). `image` and `checkpoint` are the core's bytes on
the base layer and in a commit that has not landed. `leaked` remembers which
private accounts ever had protected bytes in a base-layer image; it is a
history variable of the property `NothingPrivateOnBase` and no guard reads it.

Each action is a whole handler, with its Rust name. The parameter `l` is the
layer a transaction runs on. An account that a handler writes must live there
(`Writes`); one it reads may also be a base account cloned into the rollup
(`Reads`). The layer is an input because the handlers do not look at it: the
constant `Routes` says which layers the calls of an instance are sent to.
Handlers that return `Ok` without a change (`expire_incident` when it skips)
are stutters, except in `ExpiryCrank`, where a firing uses an iteration.

`Adapter` keeps `capability[c]`, `receipt[<<op, c>>]` and `market[m]`, the three
account types without their addresses, bumps and commitments (`market[m].demo`
says whether the market was opened with a demo authority), and for each
operation the expiry of its certificate (0 while there is none), which is what
an adapter can still disagree with when everything else matches. The guards of
`execute_bounded_action` are named by subject: `CertificateLicenses`,
`CapabilityLive`, `NotConsumed`, and `PauseAccepts` for the guards of the market
it calls. Its writes are `Apply(op, S)`, for a set of capabilities acting in one
transaction, so that a cohort can be built from the same definition; `Adapter`
itself uses `S = {c}`.

`Covenant` keeps the covenant, one membership and one capability per protocol,
and remembers the snapshots that incidents took (`snapshots`, a history
variable). `Formation` adds what runs in the browser: `view` is what the last
completed poll showed, `loop[w]` the poll that was started for wallet `w`, each
of whose round trips is an action, and `naming` what the convening page still
has to do. `Settlement` keeps the operation's accounts and the cohort;
`Monitor` adds one pass (`reading`, with the next account to read and what was
seen so far), the window, the record and the recoveries. `CrankWatch` keeps one
loop over the iteration count.

In `Drivers` a script is a sequence of steps (`Program`), each the name of a
transaction or of an observation. `Send` takes the handler's own action from
`Incident`, `Covenant`, `Settlement` or `ExpiryCrank` when it is enabled; what is
refused throws, unless the script expects it. Everything the script does not do
itself (`Faults`, `World`) goes on in between. `seen` is what it has read and
`outcome` its verdict.

In `Reference` every call is handed to both sides: `core` and `ballot` change as
the program's handlers in `Incident` say (INSTANCE, with the accounts delegated),
`attestations` and `quarantined` as the reference computes. The boundary modules
hold one exchange each: a document and its damage (`Vectors`), a built
instruction (`ClientCalls`), an account and its reading (`ClientAccounts`), an
artifact being verified (`Verification`), an errand with the answers it got
(`Routing`, where `truths` remembers what held while it ran).

### Abstractions

* **Submissions are inputs.** Any member may submit any decision with any nonce
  up to `MaxNonce` at any time. A late, repeated or reordered delivery is such a
  call, so there is no separate network.
* **One clock.** `slot` is the clock of both layers. Only the certificate's
  expiry crosses them; `Adapter` therefore lets it be published with any value,
  already expired ones included.
* **Accounts read are current.** A base account cloned into the rollup is read
  as it is. Before its delegation a ballot changes only on the base layer if a
  private call is sent there.
* **Frozen terms.** `required_approvals`, `maximum_rejections`, the window and
  the member set are constants: no handler of an incident changes them. What
  ratification guarantees of them is `IncidentAssumption`. Because the member
  set is fixed, the only list `reconstruct_frozen_ballots` accepts is the whole
  set in order, so `Reconstructs` has no list as an argument. The exits accept
  more lists, and `ExitFamilies` says which ones an instance uses.
* **External parts** are modelled from how the program uses them: delegation and
  the committor (`Delegated`, `Land*`), the permission program (a permission is
  created once and paid by a delegated account), the scheduler (`Fire`,
  `RemoveTask`). A checkpoint in flight is dropped when the core is undelegated.
* **Documents are values.** A digest, an address or a signature is the value it
  stands for; two of them are equal when what they stand for is. Only `Vectors`
  and `ClientAccounts`, which are about bytes, look inside: bytes of integers
  and lengths are real there, a digest is one token.
* **Lists that must ascend are sets.** `ratify_covenant` accepts its member
  accounts only in strictly ascending order, so a list a stranger supplies is any
  set of protocols (`ReconstructsMembers`).
* **A script's wall clock** is a nondeterministic end of its windows, except in
  the crank watcher, which counts polls.
* **Terms are constants.** An operation id commits to its cluster, covenant,
  epoch, policy and member set (`TermsOf`), and a capability account is installed
  once with its own (`BoundTo`) and with one market (`MarketOf`), so none of
  these can change. What the account constraints, the account template and the
  data hash pin is the identity of the accounts an action names.
* **Registered signers** are the signers of capabilities or none. A market's
  authority could register a wallet, which would then be the adapter; such a
  market keeps no promise that involves receipts.
* **Left out**: rent and payers, digests and identifiers, events, `Aborted`
  (no handler writes it), the signer checks (each action has the signer the
  handler asks for), the lists of permission members, arithmetic overflow of
  slots (the clock is bounded and `checked_add` fails instead of wrapping).

## 4. Properties and runs

Every instance sets `CHECK_DEADLOCK FALSE`: clocks and retries are bounded, and
a published incident, a written record, a finished script
or a verified artifact really does stop.

| Run | Instance | Properties |
|---|---|---|
| `incident_safety` | `MCPermissions`: 2 members with permissions, 1 approval needed, no rejection tolerated, window of 1 slot, clock to 3, nonces to 2, every exit list, second delegations, symmetry | `OutcomeMatchesBallots`, `OutcomeIsEarned`, `VotesInsideWindow`, `NothingPrivateOnBase`, `BaseTellsTheOutcome`, `SealOutlivesSecret`, `ScrubIsFinal`, `QuarantineNeverHelps`, `NoResurrection`, `ImplementsSealedQuorum` |
| `incident_live` | 2 members, both approvals needed, window of 2, whole-family exits, one delegation, fairness | `Settles`, `CertifiedIsPublished` |
| `crank` | the same, with tasks of at most 2 iterations, fairness of clock and scheduler only | `FiringSettlesOrSkips`, `TaskSettlesExpired` |
| `adapter_safety` | 2 operations, 2 capabilities of one market, opened with a demo authority or without, the same terms, windows `<<0, 1>>` and `<<1, 2>>`, expiries 1 and 2, clock to 1, symmetry | `CountsAgree`, `ReceiptsAreBacked`, `PauseIsStamped`, `ImplementsEffectLedger` |
| `reconcile` | 2 adapters, cohorts of up to 3 attempts, 1 lost read per pass, 1 direct call | `RecordIsTrue`, `RecoveryStartsFromNothing`, `AlwaysRecords` |
| `scripts` | the 9 scripts and arms with their 3 members, up to 2 troubles around a run | `DriverTypeOK`, `VerdictIsEarned`, `OnlyTroubleFails`, `WatchIsRight`, `ScriptEnds` |
| `web` | 3 protocols, a circle of at most 2, thresholds 1 and 2, one tab, two members named by the page and one by a script | `CountsAreMembers`, `FrozenSetIsComplete`, `IncidentsAreGrounded`, `ClaimsAreBorneOut`, `MembershipIsShown` |
| `wire` | one boundary at a time, see below | `DriftIsSeen`, `ReadsBackExactly`, `CallsFitHandlers`, `AccountsReadExactly`, `VerifiedIsOneOperation`, `ErrandsConcludeTruly`, `TalliesAgree`, `AnswersAgree`, `SettlesAsEvaluated` |
| `partial_release`, `in_flight`, `offered`, `impossible` | one property each | violated, see section 6 |

What they show:

* *The incident.* `VotesInsideWindow`, `NoResurrection`: no delivery, however
  late or repeated, puts a decision into the count that was not its member's
  last one, cast inside the window. `OutcomeIsEarned`, `OutcomeMatchesBallots`,
  `ImplementsSealedQuorum`: it is decided once, early only on a met quorum, by
  what the ballots say, and nothing that runs afterwards puts record and ballots
  at odds. `QuarantineNeverHelps`: the asymmetric rule of decision D-0013, on
  every step. `ScrubIsFinal`, `NothingPrivateOnBase`, `SealOutlivesSecret`: what
  must be erased is erased before anything leaves and stays erased, through
  checkpoints, releases and second delegations. `BaseTellsTheOutcome`: image and
  certificate on the base layer agree with the outcome. `Settles`,
  `CertifiedIsPublished`, `TaskSettlesExpired`: it does happen.
* *The adapter.* `CountsAgree`, `ImplementsEffectLedger`: three accounts of two
  programs agree on how often something happened (a market that may be reset
  for a demo forgets, the others do not), and no operation acts twice
  through one capability, whatever was suspended, rotated, renewed or
  redelivered between. `ReceiptsAreBacked`: a receipt proves that the action was
  licensed at its slot. `PauseIsStamped`: a market's stamp and its flag can be
  read as one.
* *Settlement.* `RecordIsTrue`: a record that confirms is backed for good, and
  what it calls missing had not happened when the pass began.
  `RecoveryStartsFromNothing`: a recovery is proposed only after a pass that began
  with nothing of the cohort on the chain, so that no lost read and no cohort
  applied in part opens one. It is not more than that: a cohort that lands while
  the pass goes on, or between the record and the proposal, is recovered although
  it has landed (see `in_flight`).
* *Formation and the page.* `CountsAreMembers`, `FrozenSetIsComplete`,
  `IncidentsAreGrounded`: in every order of joining, ratifying, freezing and
  arming, an incident's frozen terms are those of a complete, ratified, armed
  circle; this is what `IncidentAssumption` takes for granted.
  `ClaimsAreBorneOut`: through torn and orphaned reads the page's mark "Ready", its
  count of ratified and armed protocols and its word that ballots are scrubbed
  are right. Its sentence "The covenant is ready" is not covered, because it is
  printed too early (section 6). `MembershipIsShown`: no membership stays hidden.
* *The scripts.* `VerdictIsEarned`: a PASS is true of the chain, whatever was
  lost, repeated or done by others. `OnlyTroubleFails`: without trouble each
  script reaches the verdict it was written for, so a FAIL means something.
  Together they say that the proof artifacts are evidence in both directions.
  `WatchIsRight`: what the crank watcher infers from counting is so.
* *The boundaries.* `DriftIsSeen` says exactly which drifts of the generator
  and which edits of its file the parity check reports and which it cannot see. `CallsFitHandlers` and `AccountsReadExactly`
  compare, list by list and field by field, what the client writes and reads
  with what the programs bind and lay out. `VerifiedIsOneOperation`: of an
  artifact that verifies, the accounts the programs own exist, a core among them
  was certified, a certificate is that core's and receipts are of its operation,
  although the chain moved while they were read and the artifact may name
  accounts of other owners, of which nothing follows. `ErrandsConcludeTruly`: an endpoint, a fresh runtime or a served
  scan rests on an answer that was given. `TalliesAgree`, `AnswersAgree`,
  `SettlesAsEvaluated`: the reference and the program are one decision procedure.

**Bounds and why they suffice.**

* *Clock* (`MaxSlot`, `LastSlot`): the window closes before the last slot, so
  settling in, before and after the deadline slot all occur. `OpenIncident` is
  guarded so that the deadline fits the clock; without that guard liveness would
  fail for want of time only.
* *Submissions* (`MaxNonce`, `LastNonce`): 2 lets a member replace a decision
  and replay the first. One checkpoint is in flight at a time: a second one can
  only carry a core at least as recent.
* *Thresholds*: where one approval is enough and no rejection is tolerated, all
  three outcomes occur, and an objector who is quarantined is where a symmetric
  rule would certify what it should not. The other instances need both
  approvals, or two of three.
* *Crank*: `MaxIterations` 2 lets a task fire early and once more after the
  deadline. In `scripts` it is 4, as `Requested`, with `Interval` 2 and
  `QuietWindow` 3: a quiet window longer than the interval, which
  `RemovalIsReal` needs and the defaults of `phase6-expiry.ts` provide. A
  program shared with others may show up to `MaxOthers` of their iterations.
* *Adapter*: windows and expiries lie around the clock's slots: a capability can
  be used before, in and after its window and meet a certificate that expires
  with it. Two operations are what a memory of one operation id needs to forget
  the first; two capabilities of one market are what a rotation needs.
* *Settlement* (`MaxCohort`, `MaxLost`, `MaxTouches`, `Nonces`): an attempt may
  be stripped and retried, one read lost and one market touched by others in a
  pass; three nonces tell the original cohort, a recovery and a further one
  apart.
* *Formation* (`MaxMembers`): three protocols and room for two let a stranger
  freeze before the page has named everybody, and a third find the circle full.
* *Scripts* (`Most`): two troubles, so that one may undo what the other hid. A
  rerun counts as trouble. `ClaimPayer = "opener"` runs `per` with the signer
  its instruction needs; with the script's own, the payer, it never gets past
  that step (section 6).
* *Boundaries*: the vector file has the generator's entries, with one token per
  distinct key and digest, all of its templates and actions, and of its mutated
  bundles three accepted and one rejected; a drift is one swap, omission or
  other width in one schema or one other label, an edit changes one leaf; damages are one byte changed, dropped or added
  (`Top` 255 is the width of a byte); callers list the members in any order,
  incompletely or repeatedly; accounts arrive as any of the programs' types, cut
  at every field, of two versions, with every subset of the protected fields
  left in place; an artifact's accounts come from two `Runs` or from `Elsewhere`, with
  one target, one approval required and at most one approval and one rejection; the network moves
  at most `MostMoves` times in an errand of at most `Attempts` rounds. The
  reference runs with three members, two approvals, no objection, a window of
  one slot and an epoch that outlasts it.

Symmetry is used in safety runs only, where no action tells members or
operations apart.

**Fairness and why the code justifies it.**

* `Incident` (`Fairness`). The permissionless handlers (`certify_incident`, the
  scrubs, `release_incident`, `publish_certificate`) need no signature that
  anyone could withhold, so someone who wants the outcome can call them: weak
  fairness on each. Time passes. The committor lands what it accepted;
  checkpoints need nothing. Nothing is assumed of opener or members.
  `CertifiedIsPublished` speaks of families that are wholly delegated, because
  only the opener can delegate, and of an opener who does so once
  (`Redelegates = FALSE`).
* `CrankFairSpec`: the clock and the scheduler alone. `TaskSettlesExpired` needs
  an iteration left when the window closes, since nothing in
  `request_expiry_crank` relates the cadence to the deadline.
* `MonitorSpec`: the process runs, a read answers or times out, the window's
  timer fires, the committor finishes an attempt. No cohort has to succeed.
* `FormationSpec` (`Polling`): a round trip ends, and a poll that is started
  again and again is served whole now and then (strong fairness: any one of them
  may fail). Nobody has to sign anything.
* `DriverSpec`: the script takes its next step, an observation that can end
  again and again does (strong fairness), the scheduler is punctual.

## 5. Theorems

| Theorem | Statement |
|---|---|
| `TypeCorrect` | `Spec => []TypeOK` |
| `EarnedOutcome` | `Spec => []OutcomeIsEarned` |
| `OutcomeIsTheCount` | `Spec => []OutcomeMatchesBallots` |
| `VotesAreTimely` | `Spec => []VotesInsideWindow` |
| `NothingPrivateLeaves` | `Routes \subseteq {"er"}` implies `Spec => []NothingPrivateOnBase` |
| `QuarantineIsOneSided` | `Spec => QuarantineNeverHelps` |
| `SupersededStaysSo` | `Spec => NoResurrection` |
| `ScrubsAreFinal` | `Spec => ScrubIsFinal` |
| `SettlingIsNeverBlocked` | `Routes \subseteq {"er"}` implies `Spec => []NobodyHoldsAVeto` |
| `WholeListTakesTheFamily` | `Routes \subseteq {"er"}`, `ExitFamilies \subseteq {Members}` and `~Redelegates` imply `Spec => []ReleaseTakesTheFamily` |
| `BaseLayerTells` | `Routes \subseteq {"er"}` implies `Spec => []BaseTellsTheOutcome` |
| `IncidentIsASealedQuorum` | `Spec => ImplementsSealedQuorum` |
| `CrankedIsAnIncident` | `"er" \in Routes` implies `CrankSpec => Spec` |
| `FiringsSettleOrSkip` | `"er" \in Routes` implies `CrankSpec => FiringSettlesOrSkips` |
| `SealedIsAnIncident` | `SealSpec => Spec` |
| `SealsOutliveSecrets` | `SealSpec => SealOutlivesSecret` |
| `AdapterTypeCorrect` | `AdapterSpec => []AdapterTypeOK` |
| `CountsAlwaysAgree` | `AdapterSpec => []CountsAgree` |
| `ReceiptsAlwaysBacked` | `AdapterSpec => []ReceiptsAreBacked` |
| `PausesAreStamped` | `AdapterSpec => []PauseIsStamped` |
| `AdapterImplementsLedger` | `AdapterSpec => ImplementsEffectLedger` |
| `RecordsAreTrue` | `MonitorSpec => []RecordIsTrue` |
| `RecoveriesStartFromNothing` | `Expected = Adapters` implies `MonitorSpec => []RecoveryStartsFromNothing` |
| `CovenantTypeCorrect` | `CovenantSpec => []CovenantTypeOK` |
| `CountsAlwaysMembers` | `CovenantSpec => []CountsAreMembers` |
| `FrozenIsComplete` | `CovenantSpec => []FrozenSetIsComplete` |
| `IncidentsAlwaysGrounded` | `CovenantSpec => []IncidentsAreGrounded` |
| `PageClaimsAreBorneOut` | `FormationSpec => []ClaimsAreBorneOut` |
| `PagesFormACovenant` | `FormationSpec => CovenantSpec` |
| `VerifiedOperationsAreOne` | `VerifyInit /\ [][VerifyNext]_verifyVars => []VerifiedIsOneOperation` |
| `ErrandsAlwaysConcludeTruly` | `RoutingInit /\ [][RoutingNext]_routingVars => []ErrandsConcludeTruly` |
| `WatchIsAlwaysRight` | `Interval < QuietWindow` implies `DriverSpec => []WatchIsRight` |
| `VerdictsAreEarned` | `Interval < QuietWindow` implies `DriverSpec => []VerdictIsEarned` |
| `DriverTypeCorrect` | `DriverSpec => []DriverTypeOK` |
| `ScriptsFormACovenant` | `DriverSpec => Circle!CovenantSpec` |
| `RunsAreIncidents` | `Scripts \cap {"seam", "seam_fail"} = {}` implies `DriverSpec => SealSpec /\ CrankSpec` |
| `ReferenceTypeCorrect` | `ReferenceSpec => []ReferenceTypeOK` |
| `BindingIsOne` | `ReferenceSpec => []OneBinding` |
| `TalliesAlwaysAgree` | `ReferenceSpec => []TalliesAgree` |
| `AlwaysSettlesAsEvaluated` | `ReferenceSpec => SettlesAsEvaluated` |
| `AnswersAlwaysAgree` | `ReferenceSpec => []AnswersAgree` |
| `AcceptedBytesAreTheEncoding` | what `Decode` accepts is the encoding of the document it returns |
| `EncodingIsReadBack` | `Decode(schema, WriteAll(schema, d))` returns `d` and consumes every byte |
| `DigestBindsOneDocument` | equal digests of two documents of a schema imply equal documents |
| `DeliveriesReadBack` | `VectorSpec => []ReadsBackExactly` |

*The incident* (`IncidentProofs`), for every member set of at most eight, every
threshold, window, nonce bound and clock, under `IncidentAssumption`. First come
lemmas that say, for each variable, which handlers may change it (`CoreSteps`,
`BallotSteps`, `CoreMoves`, ...); the preservation proofs look at these, not at
`Next`. `TypeCorrect` is inductive as it stands and is the context of the other
proofs. `OutcomeIsEarned` and `OutcomeMatchesBallots` are inductive relative to
it: the second because submission and quarantine need a collecting incident, and
because a scrub makes its premise false. `VotesInsideWindow` is not inductive:
opening must start from ballots without a decision, and a decision must not come
from the future. `WindowInv` adds both. `NothingPrivateOnBase` is not inductive
either: `leaked` says nothing about accounts that are still to land. `ExitInv`
adds that a private account anywhere but in the rollup could pass the gate. Its
theorem needs no assumption on the lists an exit is given: whatever a partial
release leaves behind, it does not leak. `QuarantineIsOneSided` rests on
`QuarantineTally`: quarantine can only shrink the set of counted approvals and
leaves that of rejections alone. `ScrubIsFinal` needs that a ballot which says
it was scrubbed is as `scrub` leaves it (`ScrubbedInv`), so that scrubbing again
changes nothing. `BaseTellsTheOutcome` looks at copies of the core that landed
earlier or have yet to land; `OutcomeShownInv` adds that a settled copy in
flight is the core, which `SettledIsFrozen` keeps true, and that a settled core
outside the rollup has passed the gate, so that the certificate, which checks
the claim only then, finds no evidence. That is where it needs the routing.

`SettlingIsNeverBlocked` is the safety half of the liveness property `Settles`:
as long as an incident is open and past its deadline, no state is reached in
which `expire_incident`, sent to the rollup, would be refused. `CountableInv` is
what keeps it so. A collecting core is in the rollup and all its ballots can be
read there, and until the settlement every ballot is one that may be counted,
the quarantined ones included. `WholeListTakesTheFamily` concerns the release:
no settled core goes home and leaves a ballot of its own behind. That is not so
of the code in general (finding `partial_release`), so the theorem names the
three things it takes: private handlers run in the rollup, every release is
given the whole ballot list, and a settled family is not delegated again.
`TogetherInv` adds that while the core is `leaving`, no ballot is still
delegated.

*What surrounds an incident* (`IncidentProofs` too), under the assumptions of its
parts. The refinement of `SealedQuorum` takes one lemma per kind of step
(submission, quarantine, settlement, scrub, and all that is a stutter). The
mapping is only right in states where no count is recorded before there is an
outcome and a ballot's two fields about its decision agree; `MappingInv` says so.
`CrankedIsAnIncident` and `SealedIsAnIncident` say that the compositions add no
step to an incident, which carries every theorem about `Spec` over to them;
the first needs an instance whose callers reach the rollup, because that is where
the scheduler runs `expire_incident`.

*The adapter* (`AdapterProofs`), for every finite set of operations and
capabilities, every set of markets and every assignment of terms and markets,
under `AdapterAssumption`. `ApplyEffects`, `ApplyBacked` and `ApplyCounts` say
what a set of executions writes, `AccountsKept` what every other handler leaves
alone. The invariants need `BlankUntilCreated`: an account that was not
installed or initialized is blank and has no receipts, so its creation, which
writes zeros, forgets nothing. Then `AdapterInv` is inductive. The refinement
uses it for the same reason: initializing a market writes a count that was zero.
The counting steps use that one receipt more is one element more
(`FS_AddElement`), which is why the sets are assumed finite. `PauseIsStamped` is
inductive relative to `AdapterInv`: stamp and receipt are written by the same
execution, and whoever else writes a market keeps both fields or clears both
(`StampKept`).

*The monitor* (`MonitorProofs`), for every finite set of adapters, every order in
which they are read, any number of lost reads, attempts and foreign pauses,
under `CohortAssumption` and `MonitorAssumption`. `RecordIsTrue` relates reads of
different moments, so `MonitorInv` says of each single read what it still means
later: what was seen is there for good, because receipts only go forward
(`ReceiptsOnlyGrow`), and what was missing when it was read was missing when the
pass began. The effect a target reader sees is not a receipt, so the invariant
adds that a market paused under this operation's stamp has its receipt.
`RecoveriesStartFromNothing` assumes that the monitor expects every adapter of the
cohort. `reconcile` is handed its action order by the caller, and an adapter left
out of it is one nobody looks at; nothing in the code checks that.

*The covenant* (`FormationProofs`), for every finite set of protocols, every
ceiling and every set of thresholds below it, under `CovenantAssumption`. The
four invariants lean on each other, so they are proved as one, `CovenantInv`.
What makes it inductive is `Consistent`: only members ratify and only owners of
a membership arm; nobody joined before the covenant exists or armed before the
freeze; no incident was opened before the covenant was armed. The freeze is the
step that matters: a list of member accounts that passes
`reconstruct_members` has as many entries as the circle, without repetition,
all of them members that ratified, and is therefore the circle (`FS_Subset`).

*The page* (`FormationProofs` too), for any number of protocols, wallets and names,
under `FormationAssumption` and `CovenantAssumption`. `FormationInv` asks the same
of what the page shows and of what any poll, orphans included, has read so far
(`StillTrue`): it was so when it was read and has not become untrue since,
because an armed covenant and a wholly armed circle stay so and a frozen set is
never replaced (`CovenantMoves`). A commitment that was read is therefore
the unset one or the frozen one, which gives `BoundOrUnbound`. `PageSteps` shows
that all the page, the script and strangers do are steps of the covenant, so
`CovenantInv` is preserved by its own lemma.

*The client* (`ClientProofs`). For the verifier, for every set of runs and
targets, the artifact may name any accounts, those of `Elsewhere` included, and as
few adapter receipts as it likes. `VerifyInv` says that a core of the program's
that passed its checks is certified and has the derived operation, and stays so,
since a released core is never written again and every account, once made, stays
(`Grows`); what the second read finds is there and bound to that operation.
For routing, for every set of rollups and any moves of the network, under
`RoutingAssumption` (the configured endpoint is a known rollup or none), `Underway`
says that an errand's record holds everything true now, and that it went on only
after an answer which is in that record (`Facts`). The two share no variable;
their specifications are written out in the theorems because the module `MCWire`
runs one boundary at a time.

*The scripts* (`DriverProofs`), for any number of troubles, every clock, window,
interval and task length, under `DriversAssumption` (three members, who are none
of the other readers; private calls go to the rollup, exits name the family) and
`ScriptsAssumption` (the scripts run are some of the nine). `WatchIsAlwaysRight`
and `VerdictsAreEarned` ask that the quiet window be longer than the interval, as the defaults of
`phase6-expiry.ts` are; without it an impatient watcher is wrong.

A proof that walked through the scripts step by step would have some three
hundred cases. What the arguments need of a script is its *order*: a suspension
comes before the cohort and nothing is installed or armed after it
(`Precedes`, `NoneAfter`), nothing is delegated, requested or observed again once
the scheduler was watched or the incident was seen at home. `ScriptsAre` says
this of each, from lemmas about the list a section is (`FormationIs`,
`ReleaseIs`, ...) and about what joining two lists preserves (`NoneMore`,
`PrecedesStill`, `SparingJoins`). From there on a script is its position:
`Passed(kind)` holds when a step of that kind lies behind it, and `PassedNow`,
`PassedStays` say how that changes, reruns and repeated observations included.
`IncidentSteps` shows that whatever happens in a run is a step of the incident
or the appearance of an older build's certificate, so types, exits and the frozen
outcome carry over by the lemmas of `IncidentProofs`.

`WatchInv` is what makes `WatchIsRight` inductive: while the watcher waits, its
count is not ahead of the iterations, and when it is level with them a live task
has been late for at least as long as the count held still (`QuietInv`). A
punctual task is never late for a whole interval, so a longer silence means that
there is none. `VerdictInv` adds, for each thing a verdict looks at, what it still
means when the verdict is read: a core that was seen is at home and, if it was
settled, is as it was seen (`HomeInv`); effects that were read have happened and
a certificate that was counted is issued (`ClassInv`); the cohort names every
member, one of whom is not registered or is suspended in the arms that expect a
refusal, so it cannot land (`CohortInv`); the scrub was looked at after the core
had landed (`ScrubInv`); and where the service serves ballots to anybody, all
reads but at most one succeeded, or none did, or something went wrong
(`MatrixInv`).

`DriverTypeCorrect` needs no assumption on the quiet window. Its invariant
`TypesInv` asks more than the types: what the script still has to call is aimed
at the circle (`Aimed`: formation steps name members, their thresholds and whole
list, attestation permissions name members), and the troubles used so far are at
most `Most`. Two theorems say what a run is to its parts. By
`ScriptsFormACovenant` every script forms its covenant through the covenant's
handlers, and the theorems of `FormationProofs` about `CovenantSpec` hold of
each run. By `RunsAreIncidents` a run is an incident with its permissions and an
incident with its task, and the theorems of `IncidentProofs` hold of it. The
seam scripts are excepted for a reason: in them an older build of the program
has certified the incident, and no handler of the present one leaves that
certificate.

*The reference* (`ReferenceProofs`), for every set of at most eight voters, every
threshold, ceiling, window, epoch and nonce, under `ReferenceAssumption`.
`OneBinding` needs to know how states are given: `HistoryInv` adds that every
member has at most one attestation that still carries weight and that a
quarantined member's are invalidated (`OneCarries`, `StatesFollow`). For the
count, the program's one ballot must *shadow* the reference's history
(`Shadows`): the same decision, a nonce at least as high as any recorded, and
quarantine on both sides. `CountInv` is inductive as long as the epoch lasts;
`EpochStep` says that an epoch that covers a step covered the state before.
From equal sets `SameCount` derives equal numbers, and these decide the outcome
on both sides (`AlwaysSettlesAsEvaluated`). `AnswersAgree` compares the answers
to calls that have not been made. It is stated with `MayAttest`, the guard of
`SubmitSealedAttestation`, and not with ENABLED, and so follows from `CountInv`:
shadowing nonces are refused on both sides or on neither.

*The codec* (`CodecProofs`), for every `Top` that a byte can have at least
(`TopAssumption`: 255 or more) and every schema in `DocumentSchemas`: rows of
integers of one to three bytes, signed ones in two's complement, booleans,
enumerations, digests, byte strings, and vectors that nest at most twice. The
program's fourteen schemas are among them (`ProgramSchemas`). The notion that carries the proofs is a *faithful* reader:
at every offset it returns exactly the value spelt there and the offset behind
it, or refuses. Integers are faithful by arithmetic on their digits, a length
prefix bounds what a vector may hold, and a row or a vector of faithful readers
is faithful, by induction on how many items have been read. `Canonical`
reads and writes with recursive functions and folds, at three explicit levels
(account meta, action, document), instead of RECURSIVE operators. The induction
is over a set of numbers and cites the well-foundedness of `<`
(`NatSetInduction`), so no theorem with an operator parameter is needed. `AcceptedBytesAreTheEncoding` and
`EncodingIsReadBack` are the two directions; together they say that every
document has one spelling, whence `DigestBindsOneDocument`, where `Sha` is
injective on bytes as the model has it. `DeliveryInv` says what stands on the
wire at each stage of a delivery, and `ReadsBackExactly` follows for any damage.

*Only model-checked*, and why:

* Liveness (`Settles`, `CertifiedIsPublished`, `TaskSettlesExpired`,
  `AlwaysRecords`, `MembershipIsShown`, `ScriptEnds`): it rests on fairness,
  which the prover does not handle. Of `Settles` the safety half is proved
  (`SettlingIsNeverBlocked`).
* `DriftIsSeen` speaks of the recorded vectors, which are given documents, and
  says which drifts of an encoder these documents cannot show. That depends on
  the values recorded, and TLC enumerates the drifts. What holds of every
  document, that unequal ones have unequal digests, is proved.
* `CallsFitHandlers` and `AccountsReadExactly` compare given tables of accounts
  and of fields. They have no parameter a proof would generalise: TLC
  evaluates them entry by entry, over every order and cut of the lists.
* `OnlyTroubleFails` says that every single step of a script is accepted when
  its turn comes. That follows from nothing shorter than the whole run, step by
  step, in nine fixed sequences, and is stated with ENABLED; TLC enumerates it.

`Ballots` has no recursion: a tally is two cardinalities, so the proofs use the
library's facts on finite sets. That the saturating loop of `tally` computes
these cardinalities holds because a set has at most eight members.

## 6. Where the code and its comments disagree

Found by a run:

* **`partial_release`.** A comment in `gated_exit_accounts` says that the exit
  checks the whole family. The code checks the number of entries and gates each
  of them, and does not compare them with each other or with the frozen set.
  With one ballot named twice, the core and one ballot leave and the other stays
  delegated. Nothing leaks (`NothingPrivateLeaves`). Whether the external magic
  program refuses a repeated account is not visible in this repository.
* **`in_flight`.** `classify.ts` says that `CommitWithoutActions` rests on
  positive evidence that the checkpoint landed. The evidence that
  `observeSettlement` reads is the certificate account, which exists before the
  cohort is scheduled, so a pass over a pending cohort is classified so.
  `RecoveryStartsFromNothing` holds nevertheless: nothing was there when that
  pass began.
* **`offered`.** The pages show "incidents that need somebody to act" from the
  core's image on the base layer, which stays `Draft` from the delegation until
  the incident is settled and home. A member is not told, and `Incident.tsx`
  mounts the answering form on the same condition.
* **`impossible`.** `evaluate.rs` calls an incident impossible when the
  threshold "can no longer be reached", counting only members who have not
  responded. A member who abstained or rejected may still replace that decision,
  after which the incident is certified. The program has no such outcome: it
  waits for the deadline, deliberately (`reference_parity.rs`).

Read while modelling; the models follow the code:

* *Program.* `submit_private_claim` says that its bytes never reach the base
  layer; the handlers do not look at the layer they run on, and it is the
  client's routing (`Routes`) that makes the sentence true.
  `publish_certificate` is permissionless so that nobody holds a veto, but
  `delegate_incident` does not look at the status, so an opener can delegate a
  certified core again (`Redelegates`). `pause_new_borrowing` says that a second
  call with the same operation id is refused; the market remembers the last
  operation only, and the receipts make up for it. `revoke_capability` says
  *permanently*; `arm_capability` and `renew_capability` bring the capability
  back.
* *Reference.* It accepts a first nonce of zero, which the program refuses; it
  checks the covenant's epoch on every submission, the program when an incident
  is initialized; it knows roles, which are not on chain. `TalliesAgree` and
  `SettlesAsEvaluated` are stated for an epoch that outlasts the window.
* *Scripts.* `phase3-seam.ts:136` says that it tolerates what exists "so the
  script is rerunnable", but a rerun arms an armed capability, which is refused.
  Phase 3's verdict is composed from reads of different moments, so an applied
  cohort can be reported as `COMMIT_WITHOUT_ACTIONS` when the window closes; its
  advice names a script that is not in the repository; the certificate it uses
  can only be one that an earlier build of the program wrote.
  `phase4-local-lifecycle.ts` takes a failed read for a refused one, so an
  outage looks like an enforced permission. `phase4-per.ts` lets the payer sign
  the creation of the claim's permission, where the program asks for the opener:
  it throws. With the opener's signature three of its refusals would still come
  for another reason than the one it expects. Phases 5 and 6 read the scrubbed
  regions while the ballots may be leaving, and "settled by the scheduler" is
  also reported when a stranger settled.
* *Crank watcher.* Its comment ranks a terminal incident above a removal, the
  code returns `RemovalObserved` first; on a shared program it counts other
  incidents' iterations.
* *Verifier.* `cli.ts:4` says that the encoder agrees "byte for byte".
  `adapter_set_hash` is recorded and never recomputed, and three pairs of fields
  hold equal values in every recorded document, so that swapping them goes
  unseen. Nor does the check see another label of a domain it does not hash
  under itself, nor an edit of the `domain` among the inputs of the two ids, of the
  bundle template's own fields or of `differs_from_original`. `DriftIsSeen` names
  these and says there are no others.
  `BorshWriter.i64` wraps silently and `fromHex` accepts `1g`.
  `verifyOperation` compares neither the certificate's covenant nor the owners
  of the accounts, and checks the receipts of the adapters an artifact names,
  which may be none; `VerifiedIsOneOperation` is stated accordingly.
* *Client.* The decoders read a byte past the end as zero; `expectAccount`
  makes up for it (`AccountsReadExactly`).
* *Web.* `describeReadiness` prints "Every protocol has ratified and armed. The
  covenant is ready." (`formation.ts:272`, shown by `Membership.tsx:152`) as soon
  as all members have armed. Whether `arm_covenant` was called is not looked at,
  and before it no incident can be opened; `ArmedIsTruthful` holds of the first
  sentence only. `runtime.ts:7` says that nothing is resolved when the router publishes
  routes of which none is the account's; `resolveRuntime` is given no account.
  A poll that was in flight when the wallet changed finishes for the former
  wallet and re-arms its own timer. A steward who is no member sees "No covenant
  at that address" after convening. A covenant with responders or stewards never
  reads as ready, since these own no adapter. A capability armed from a page read
  before the freeze is bound to no circle and cannot be installed again
  (`BoundOrUnbound`). A failure between convening and naming leaves a covenant a
  stranger may freeze as it is. `CreateCovenant.tsx` lists finalising as a step
  that no page calls; `suspendOwnAdapter` and `clearSessions` have no caller.

## 7. Not modelled

* Certification and recovery of the reference model: they build documents from
  an evaluated outcome; what they copy is fixed when an incident opens. Its
  roles: there are none on chain to compare with.
* The Rust encoders and layout constants (`vinct-types`, `vinct-layouts`): pure
  functions on bytes. What TypeScript makes of the same bytes is modelled from
  its own source (`Vectors`, `ClientAccounts`); in the other modules distinct
  documents simply have distinct digests.
* Access to the private runtime (challenges, tokens) and redaction in the
  client: the first is a conversation with a service whose rules are not in this
  repository, the second is wording.
* The answering page with its sessions, and every page that only shows:
  presentation. The answering page cannot be reached for a delegated incident
  (`offered`).
* The remaining scripts and the probe programs: deployment, funding and
  measurements of external services.
* Tests: they are read as a source of inputs and of claims. The vector file is
  modelled but for its prose and the classification table of the monitor's tests
  (`Vectors`).
