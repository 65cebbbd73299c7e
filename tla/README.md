# A verification project for dev-infra-manager (DIM)

DIM runs development workspaces on a host and keeps each Project's root
repository in an installed *native Git* service: workspaces push proposals,
people approve them, CI attempts produce evidence, and a promotion moves the
protected ref. Around it are an ordinary-CI service with host workers, a QEMU
scheduler, a host controller that manages workspaces, an installer for the
control plane, and plugins. This directory holds TLA+ models of that code, the
TLC runs that check them on small instances, and TLAPS proofs.

## Layout

| Module | Models |
| --- | --- |
| `NativePromotion` | the installed native Git service for one Project: pushes, reviews, decisions, CI evidence, promotion, ledger, crash recovery, reconciliation |
| `ProtectedHead` | abstract specification: what a protected ref promises |
| `NativePromotion_proofs` | inductive invariant, safety theorems, refinement proof |
| `TransportLeases` | read, write and candidate leases of native Git, the operation gate, shutdown |
| `RecordFiles` | the files of native Git's decisions, attempts and statuses: publication, repair, startup checks |
| `EventDelivery` | review events from native Git to ordinary CI: dispatcher, markers, receipts, admission |
| `RootCi` | ordinary CI: demands, claims, attempts, results, reporter, recovery, and the workers with journal and container |
| `QemuScheduler` | the QEMU queue, its claims, outbox and reporter, the host worker, native Git's QEMU attempts |
| `StandaloneCi` | the standalone review service with the earlier ordinary authority and its host worker |
| `ProjectSetup` | registration, root import and the host's Project records |
| `LifecycleLock` | the lock every host command takes |
| `Workspaces` | one workspace, host shutdown and start, controller requests |
| `CommandSessions` | a command a client runs in the controller |
| `ControlPlaneInstall` | installation, update, rollback and recovery of the two services |
| `RuntimeInstall` | installation of the CLI runtime and its plugins |
| `ManagedProxy` | `dim-controller-proxy ensure` |
| `DevelopmentGateway` | `dim-development-service` |
| `ExternalUrls` | the external URLs plugin with its Cloudflare record |
| `RootCi_proofs`, `QemuScheduler_proofs` | proofs about the module of that name |
| `NativeService_proofs` | proofs about `TransportLeases` and `RecordFiles` |
| `CiServices_proofs` | proofs about `EventDelivery` and `StandaloneCi` |
| `Projects_proofs` | proofs about `ProjectSetup` and `Workspaces` |
| `Installers_proofs` | proofs about `ControlPlaneInstall` and `RuntimeInstall` |
| `HostServices_proofs` | proofs about `ManagedProxy`, `DevelopmentGateway`, `CommandSessions`, `LifecycleLock` and `ExternalUrls` |
| `MCNativePromotion`, `MCRootCi`, `MCExternalUrls` | instances of one module |
| `MCDecisions`, `MCServices`, `MCHosts`, `MCLiveness` | instances that put several independent modules into one run |

Run `tlc -config <run>.cfg <module>` (`PROJECT.json` names the module of each
run) and `tlapm <module>.tla` for each `*_proofs` module. `PROJECT.json` also lists each run's
properties, the mutants that show each property can fail, the hazards the
properties are about and the source lines behind each definition. Operators whose
comment begins with "Mutant" are deliberately wrong variants of the definition
that follows them; no specification uses them. The names of a module's
definitions share a prefix (`Q`, `D`, `S`, `K`, `W`, `C`, `U`, `I`, `P`, `G`,
`N`, `T`, `A`, `F`), so that several modules fit in one run.

## Inventory

**Native Git bundle** (`core/packages/native-git`). One Node process in a
container, one SQLite database, one bare repository per Project.
- *Review controller*: a promise queue. Every operation that reads or writes
  review state runs alone; a crash or a dead Git child can cut one between its
  durable steps.
- *Reviews*: immutable envelopes keyed by a digest of proposal, protected head,
  candidate and policy; published after a push, and by the reconciler at
  startup, on activation, and in a retry loop (delays 0, 100, 500, 1000,
  5000 ms, then unavailable).
- *Decisions*: approvals and revocations as write-once files.
- *CI records*: ordinary attempts and statuses (files per attempt), QEMU attempts
  (one state file with a publication protocol).
- *Promotion*: intent row, `git update-ref --stdin` compare-and-swap, finalized
  row; restart recovery of intents.
- *Event dispatchers*: deliver review events to ordinary CI and to the QEMU
  scheduler, with delivery markers, suppression of rejected events and
  supersession.
- *Root import, Project registration*: staged import of a root repository,
  finalization, recovery.
- *Leases and operation gate*: workspace-write, root-read and candidate-read
  leases; at most 16 concurrent transports; shutdown drains them.
- *Standalone review service*: the predecessor with its own stores and outbox.

**Ordinary CI** (`core/packages/core`, `nativeRoot*`): admission epochs, event
receipts, demand, claims with leases and recovery, results, a reporter that
carries results back to native Git, and host workers with a journal. The earlier
stack (`nativeOrdinary*`) does the same against the standalone service.

**QEMU scheduler** (`nativeQemu*`): a bounded queue, claims, results with an
outbox, host journal.

**Controller** (`core/packages/core`): lifecycle lock and records, workspaces
(create, setup, start, restart, update, stop, show, discard), host shutdown and
start, command sessions, requests of workspaces.

**Controller proxy** (`controller-proxy`): a detached proxy process and a
development gateway, each kept by any number of concurrent invocations through
lock, state and socket files.

**Installer** (`installer`): the control plane, with a journal; the CLI runtime,
with staging and backups.

**Plugins**: external URLs (stored URLs, registry, listeners, connections,
managed Caddy, Cloudflare record); host mirrors. **CLI**, **web**, **doctor**.

*What is hard here.* Crashes between a database row and a Git ref; Git children
that die with an unknown outcome; refs that moved without their review;
at-least-once delivery between three services; handlers that await another
service and then act on what they read before; claims and leases that expire
while their host still works; retry loops that give up; recovery that itself
crashes; locks taken over from dead owners; reused process ids; rollbacks of
half-done installations; connections that outlive the decision that allowed them.

*What makes each component correct.* Promotion: one authorized, recorded-once
move of the ref at a time. Reviews: a stale one never revives, a ready service
has reviewed everything. Decisions: one active approval per reviewer. Event
delivery: the demands follow the newest admitted root, and the newest event
arrives. Claims: at most one host runs a job, a result belongs to the claim that
produced it, a claim ends one way, capacity returns. Leases: no backend without
a live lease, no storage released under a running operation. Setup and
installers: an interrupted transaction is finished or undone, and what a record
says is there. Locks: one holder, however records and process ids are left
behind. Workspaces: a discarded one stays discarded, a
request is served in the workspace it was admitted to. URLs: no connection where
the routes no longer lead.

## NativePromotion

### State

| Variable | Code |
| --- | --- |
| `protectedRef`, `proposalRef` | refs of the bare repository |
| `finalized`, `intent` | the two promotion tables of `native-project-root-promotion-state.ts` |
| `reviews`, `approvals`, `revocations` | the three file stores under the repository |
| `attempt` | last ordinary or QEMU attempt per review and job, and its status |
| `bound` | the generation's activation row |
| `service`, `ready` | process state and `businessReady` |
| `pc`, `receiving`, `promoting`, `todo`, `caller` | the local variables of the one running operation |
| `wake`, `failures`, `exhausted` | the reconciliation loop |

Each action is one handler, cut where the process can die between two durable
writes: `Receive`/`PublishReview`, `PromoteIntent`/`Swap`/`Finalize`,
`RecoverIntent`/`Finalize`, and one `ReconcileOne` per ref. A handler that ends
in an error without writing anything is not a step. `ReceiveKilled` is a backend
that was killed, or whose ref listing failed, after `receive-pack` moved the
ref: `afterSuccessfulWrite` then publishes nothing and wakes nothing. `SwapDies`
is a Git child whose outcome its parent does not learn.

Abstractions. A commit id stands for commit and tree. A review id is the tuple it
digests. A push of several refs is several receives. Policy is a function from
(head, candidate) to required reviewers; the imported policy never changes. A
terminal status is `success` or not (`failure` also stands for `cancelled`).
Expiry and identity of leases and credentials are left out: a request that fails
them changes nothing. Evidence that ordinary CI or the QEMU scheduler serves over
HTTP during a promotion is assumed to agree with the status it reported; those
services have modules of their own.

### Runs

| Run | Instance | Shows |
| --- | --- | --- |
| `promotion_chain` | commits c0→c1→c2, one proposal, one QEMU job | two promotions in a row, no-op promotions, interrupted at every step: `HeadMatchesLedger`, `LedgerChain`, `IntentRecoverable`, `StaleStaysStale` |
| `promotion_race` | c0→c1 and c0→c2, two proposals | competing candidates: `ImplementsProtectedHead`, `ReadyMeansReviewed` |
| `promotion_decisions` | two reviewers (one by path rule), two request ids, two faults | approve, revoke, approve again: `OneActiveApproval`; under fairness `RecoveryResolvesIntent`, `AcceptedPushIsReviewed` (and `DNewestDelivered`, see EventDelivery) |

Bounds. One crash and one fault per behaviour in the safety runs: every pair
(fault, then crash) occurs at every pair of steps; the proofs cover any number.
Three commits are the fewest with a head behind, at and ahead of a review; two
proposals the fewest that compete. `Retries` is 1 instead of 5; the two faults of
`promotion_decisions` are enough for the loop to give up as well. `MaxAttempts` 2
allows one superseded attempt. Deadlock checking is on: some step is always
possible.

Fairness. Weak fairness of each step of a running operation: the event loop
runs queued continuations and timers. Requests, crashes and faults are not fair.
The generated Compose service has no restart policy
(`controlPlaneCompose.ts`), so `WF_vars(Start)` is an assumption on the
operator: a service that is down is started again.

### What is proved

`NativePromotion_proofs` proves for all constants that satisfy the four named
assumptions (commits are partially ordered by ancestry, the policy is total,
bounds are naturals) `TypeOK`, `HeadMatchesLedger`, `LedgerChain`,
`IntentRecoverable`, `OneActiveApproval`, the action properties
`StaleStaysStale` and `ReadyMeansReviewed`, and the refinement
`ImplementsProtectedHead`.

The inductive invariant `IInv` adds four facts that the listed ones need.
`PromotionInStep` ties the program counter to the durable intent and the ref.
`IntentOfReview`: an intent is a published fast-forward review.
`ReviewsBehind`: a review's head is an ancestor of the ledger head and its
candidate of its proposal. `FinalizedBehind`: each promoted candidate is an
ancestor of the head. The last two carry the central argument: a fresh,
fast-forward review that had been finalized before would have a candidate both
above and below the head, so it *is* the head, which is exactly the
already-current case the code answers first; hence the finalized row never
collides and an intent is always recoverable. `ReconciliationInStep` gives
`ReadyMeansReviewed`.

The refinement maps the abstract log to the finalized rows plus the intent as
soon as the ref is at its candidate; the abstract promotion is the swap, by the
promotion or by recovery (or saving the intent, when head and candidate are the
same commit).

Liveness is model-checked only: the prover has no fairness reasoning.

### Observations

- An unresolved intent with the process still up blocks every operation of that
  Project until a restart; nothing retries it in process.
- After the loop gave up, activation makes the service ready again but the loop
  stays exhausted: later failed publications wait for a restart or another push.
- A killed receive leaves a proposal without a review until the next push,
  activation or restart (`ReadyMeansReviewed` is about those two).

## RootCi

Three processes: the ordinary CI service with its database, native Git, and one
worker per host capacity.

| Variable | Code |
| --- | --- |
| `row` | the rows of demand, claim, claim receipt, host result and outbox of one demand; `demand_id` is unique in the claims table, so one record holds them |
| `admission` | `native_root_admissions`: root sequence, and whether the eligibility lease is fresh |
| `epoch`, `up` | active service epoch, activated process |
| `handler`, `orphans` | requests suspended in a call to native Git, with and without a worker waiting |
| `reporter` | the loop of `nativeRootCiResultReporter.ts` |
| `journal`, `requested` | the journal file, and the claim stored under its request id |
| `pc`, `tries`, `container`, `launched` | the worker, its report attempts, its docker container, history of launches |
| `head`, `withdrawn`, `attempt`, `status` | what native Git knows of root, proposals, attempts, statuses |

A service handler is one step between two awaits: SQLite is synchronous, so
reservation, renewal and result intake are one step, while issuance, activation
and recovery are cut at each call to native Git. A worker that gives up leaves
its handler running as an orphan, and the restarted worker's request may race
it. A reply that is lost after a commit is a fault of its own. Every service
step that a stopped service cannot take is guarded by `up`. Native Git's status
route reads the current-result proof and writes the status under one serializer;
its only rivals in between are ordinary CI steps that do not read statuses, so
it is one step.

Abstractions. One Project, one serving generation and capacity configuration.
Event intake is the committing transaction only, and a policy proof is any
sequence up to the present head (it may be old when it arrives). The execution
lease may expire at any time: a worker can be suspended. Requests of one
capacity arrive in the order they were sent; a reservation delayed past its own
replay is not modelled. A worker's exit because another capacity of its host
failed is one of its crashes.

| Run | Instance | Shows |
| --- | --- | --- |
| `root_ci` | 1 capacity, 2 demands; any three of one move, restart, crash, fault and lapse (`ThreeFaults`) | `StartupIntegrity`, `ClaimIsJournaled`, `RunFenced`, `EndsOneWay`, `RunsOnce` |
| `services` | 2 interchangeable capacities, 2 demands; one crash | `SingleOccupancy` |
| `liveness` | 1 capacity, 1 demand, root unmoved, service up; one crash and fault | `ClaimReturns` |
| `root_ci_denial` | one root movement | violation of `RootMovementDeniesReport` |
| `root_ci_drift` | one root movement or replaced proposal | violation of `DriftIsRecoverable` |

`RunFenced`: a container runs only under the active, journaled claim of its own
capacity, and evidence exists only once its container is gone. `EndsOneWay`: a delivered
result is current evidence, and a claim released by recovery has a revoked
attempt; no claim ends both ways.

Two demands are the fewest with an oldest one, two capacities the fewest that
compete. `ReportTries` is 2 instead of 3: a first failure, and the last. One
fault of each kind meets every step of a claim; together they give the double
failures (a lost reply, then a restart). Capacities are symmetric in the safety
run that has two.

Fairness: each worker, its pending handler and the reporter go on (timers and
promises of a Node process; jobs have a wall-clock limit), and the operator
restarts workers and service. `ClaimReturns` needs the root unmoved and the
service up: the two violation runs and the observations below are why.

`StartupIntegrity` is the code's own check: `ServiceActivates` is guarded by it,
as the service refuses to start otherwise, and the invariant says no reachable
store fails it.

### What is proved

`RootCi_proofs` proves all five properties of the safety runs and `RunsOnce`, for
all finite sets of demands and capacities and every fault budget. None of them is
inductive: what a worker, a request it gave up on, or the reporter does next
rests on its own memory, and a later step acts on it. `RootCiInv` says how that
memory relates to the store, in one conjunct per actor:

- `WorkersInStep`: a worker is where its journal says, and the request it waits
  for is the one its journal names.
- `JournalsTrue`: a journal names a claim of its own capacity, and bounds how far
  that claim has come. With `ClaimIsJournaled` (every occupied capacity is named
  in its journal) this ties store and worker both ways; a second reservation is
  then impossible, which is `SingleOccupancy`.
- `HandlersSound`: what a suspended request may still assume after its await, also
  if its worker gave up and came back. An activation of a preparing claim, and a
  recovery of an unreleased one, is what the journal of its owner names; a
  completing recovery has revoked the attempt.
- `LaunchesJournaled`: a demand is launched only after its claim was active, and
  its journal shows it from then on: `RunsOnce` and the first half of `RunFenced`.
- `StatusesEarned`: a status is of a stored result, and an attempt is revoked only
  after a recovery was requested; `EndsOneWay` needs both.
- `RowsShaped`, `RootsAdmitted`: the states the rows of one demand can be in
  together, and the admission their roots belong to.

The step lemmas classify what a step does to one row, one journal and one attempt
(`RowMove`, `JournalMove`, `AttemptMove`), so that the conjuncts about journals
and handlers are proved once per kind of move, not once per action.
`StartupNeverRefuses` is the part of the invariant the code itself checks.

### Findings and observations

- `root_ci_denial`: the transport document says root rotation denies a pending
  delivery. The reporter treats every refusal as temporary and has no denial, the
  host has already cleared its journal, so the result stays pending, its capacity
  stays occupied, and later results wait behind it.
- `root_ci_drift`: the document fences a drifted claim "until exact recovery". The
  recovery route first demands a current attempt proof, which native Git refuses
  for a stale review; the recovery can then never succeed.
- A preparing claim whose demand was superseded or whose epoch was replaced can
  be neither issued nor activated, and the worker never recovers a claim it did
  not activate: the capacity stays fenced.
- When a result is stored but its replies are lost, the worker journals a
  recovery; if the reporter delivers first, that recovery conflicts on every
  replay and the worker no longer serves its capacity (the claim is released).

## TransportLeases

`tLease`, `tStage` and `tRequests` are the lease and the request of each client
slot; `tActive` and `tOpen` the operation gate; `tQueue` the review controller's
queue; `tShutdown` the steps of `native-bundle-shutdown.ts`. Asking for a lease,
asking for Git, reaching the head of the queue or the gate, the proof, the
backend and its end are actions; leases expire at any moment, as time is not
modelled. A push has one stage more, `refs`: after its last authentication the
service awaits `readNativeProposalRefs`, a Git child of up to 30 seconds that may
fail, and only then starts the backend. A lease is a slot of its registry; identities, byte limits and the
contents of the proof are left out.

`TStorageQuiet`: when the storage lock is given up, no proof of any request and
no backend of a read or write is at work. `TBackendOnLiveLease`: Git work for a
read or a write begins only on a lease live at that moment and a service that
still admits. For a push this is the reading of the refs; its backend may begin
after the lease expired and during the shutdown, but never once the storage is
given up. The instance has two readers for one registry place and one client of
each other kind, two gate places for four clients, and two requests each, so
that registry and gate are full in some states and a lease is asked for again.

Proved in `NativeService_proofs`, for every set of clients and every size of
registry and gate. The gate counts operations and does not name them. `TransportInv`
therefore says that `tActive` is the number of clients whose request holds a place
of the gate (`THolders`, a push that reads refs among them), and `TNoLateLease`
that once admission stopped no waiting Git request has a live lease. A drained
gate then means a quiet storage, and a push between its two steps keeps the gate
from draining.

## RecordFiles

Approvals and revocations (the store `decision`), ordinary attempts, their
revocations and their statuses are write-once files with one protocol: make the
store's directories if they are missing, write and sync a staging file, `link` it
to the record's name, `unlink` the staging name. `fStaged` and `fFinal` are the
names, an inode is the number of the save that created it, `fContent` what is in
it, `fSave` the save that is in the queue. `fDirs` says of each tree whether none,
a part or all of its directories are there: they are made one after another, so
a failure or a crash leaves a part, and startup wants none or all.

Every reading of the decisions repairs their staging directory
(`recoverPublishedReviewStaging`: list, then compare and remove one name after
the other, with an await each). `fRepair` follows the two that can be under way:
a GET of a review, outside the queue, and the save's own. A name that has gone
since it was listed ends the reading with an error, which for a save is the reply
`unreadable`. `fStuck` remembers the names this process published and then failed
to remove. A save may fail when it reads, makes directories, writes, links or
unlinks; what stays behind differs by store, as in the code. A crash keeps any
prefix of an unsynced file. Startup checks the stores in the order of
`native-bundle-startup.ts`. `EEXIST` has no step: a save reads first that its
record is absent, and only one save runs. Directory syncs need no step of their
own: a link or unlink lost with the power leaves a state that a crash before that
call leaves too. The saves of review envelopes, which have no reader outside the
queue, are not modelled.

`FAnswersAreTrue`: no GET takes the staging name from under a save that has yet
to link it; a save's own reading fails only if this process had failed to remove
a staging name before; and an answered record stays there, complete and
unreplaced. `FRestartAccepts`: startup refuses only for one of four named reasons
(see Observations), each of which occurs. Two records per store and three saves,
so that a save fails, is retried and is followed by another; two faults, as a
name left behind and a second repair take one and a retried save the other; one
crash.

Both are proved in `NativeService_proofs`, for every number of records, saves,
faults and crashes. `FilesInv` says what is true of the records (`FRecordsFull`,
`FNumbered`: complete, and attempts without a gap), of the save in the queue
(`FSaveSound`: its staging name is there until it is linked), of whoever repairs
(`FRepairSound`: it removes only a name it found published, and the save finds a
name to remove only if `fStuck` has one), and whose a staging name can be
(`FLeftoversKnown`: of a published record, of the save in the queue, or left by a
failed one, by store and by startup phase). `FRestartAccepts` follows because each
way to refuse needs a part of the directories or a name of another kind.

## EventDelivery

Native Git's side is `dHead`, `dKnown` (events in stored reviews) and `dMarkers`;
`dOut` is the delivery the dispatcher is at. Ordinary CI's side is `dAdmission`,
`dReceipts`, `dDemands` and the intake handlers `dHandlers`, which await native
Git twice: once for the proof of the event, once for the admission. A dispatcher
that times out leaves its handler running, so that a late handler commits after
the next delivery began. `dPlane` is the serving generation. Windows and leases
count ticks of `DTick`; up to `DRound` ticks pass while the dispatcher is at one
event (`dTicks`), any number while it sleeps. In the code a rejected event is
suppressed for 250 ms, and a round is a request of up to five seconds and two
turns in a queue, so a round may well be longer than the window.

`DDemandsFollowRoot`: the queued demands of a generation are exactly the receipts
for the root its admission is at. In `services`: two events of two heads, a round,
window and lease of two ticks each, two generations and one fault.

`DStaleNeverBlocks` (liveness) is what the transport document promises: an event
of the last head is received even if older ones are rejected again and again. The
code does not keep the promise for all timings. With two older events and a round
as long as the window (`DRound` and `DWindow` both 2), TLC finds that each is due
again when the other was rejected; the dispatcher takes the oldest that is due,
and never comes to the newest. `DNewestDelivered` is what does hold: the promise,
provided the older events stay suppressed for a walk over all of them
(`DWalkFits`). In `promotion_decisions`: two older events and the newest, a window
and a lease of three ticks and rounds of one, the tightest that fit, with one
fault (a lost reply, a restart).

`DDemandsFollowRoot` is proved in `CiServices_proofs` for any events, heads and
generations. `DeliveryInv` adds that no receipt is of a root newer than the
admission (`DReceivedBefore`): a handler that proved its event before a promotion
commits against the admission of that moment, and would else queue a demand that
the registration of the newer root has already superseded. The delivery of a head
takes the least event of it, which exists by well-foundedness (`LessWellFounded`).

## QemuScheduler

`qDb` is the scheduler's SQLite file: event states, arrival order, claims, outbox
and delivered results. A store method is an operator on it, so a transaction is
one step; handlers that await native Git are in `qCalls` and `qRecovers`, the
reporter's call in `qReport`. `qAttempts`, `qStatuses`, `qFresh` are native Git's,
`qWorker`, `qJournal`, `qHeld`, `qVms` the host's. `qDrain` is the state of the
reporter: how much is left of the snapshot of the outbox that its drain walks,
and whether a retry timer is set. A result that comes in during a drain is not in
the snapshot, and its wake is dropped. Expiry of a reservation or
lease, a lost reply, and crashes of scheduler and host share one fault budget.

`QemuOneWay`: a machine exists only under an active claim without a result, and a
completed claim is either delivered evidence or a revoked attempt, never both.
`QemuEventSettles` (liveness): a queued event of a current review is completed or
superseded, unless a result is left behind in the outbox for good
(`QLeftBehind`); without that exception TLC refutes it. Two events, two lanes, two
claims and one fault in `services`: the second claim is the one a late result of the
first could meet. In `liveness` the part moves in two ways: two workers and
no fault, as it takes nothing else to lose a wake; or one worker and two faults,
as in `qemu_orphan`, because an orphaned attempt takes an expiry and a second
claim.

`QemuOneWay` is proved in `QemuScheduler_proofs` for any events, capacities,
claims, requests and faults. Nothing in the store fences a recovery handler that
read a row before its revocation and completes it afterwards, so the invariant
`QemuInv` rests on the journal. `QOwned`: a reservation, or an active claim without
a result, is known to the journal of its capacity. `QAssignedOnce`: once a claim
is journaled, revoked or over, nobody asks for its request again. `QJournalSound`
and `QWorkerSound` tie a worker's stage to its journal and to the rows,
`QHandlersSound` says what a suspended issuance or revocation may still assume,
`QEnds` what a result says of attempt, status and delivery. A handler whose host
died goes on with stale knowledge; the proof of `QemuReject` shows that the
request it reserves for is then still in the journal, because its own reservation
was. The second corollary, `QemuFileReopens`: no crash leaves a file that
`QDatabaseValid`, the guard of a restart, refuses.

## StandaloneCi

The standalone review service and the ordinary authority it verifies against, as
one module because each asks the other in the middle of its own operations:
event intake, claim, attempt, activation, run, report, status, promotion. `aLock`
is the serializer key of the protected ref. Reviews share one base, need one
approval and one job. One review, one lane, two claims, two epochs, one fault:
enough for a claim that is recovered, re-run and promoted, across a restart.

`AOneWay`: no capacity is free while its container may run, and no claim counts
both as evidence and as abandoned. `APromotedOnEvidence`: at the moment the head
moves, the candidate is approved and its newest, unrevoked attempt succeeded.

Both are proved in `CiServices_proofs` for any reviews, lanes, claims, epochs and
faults. `AOneWay` needs `AHostsSound` (a claim is of one host, which alone ends it
between start and end, and each container is in the journal of its host) and
`AClaimsSound` (a result excludes a recovery, through outbox, reporter and
recorder). `APromotedOnEvidence` needs `ALocked`: whoever is between check and
write holds the key of the protected ref, so the evidence a promotion proved is
untouched when it swaps.

## ProjectSetup

Native Git: `sReg`, `sStore` (the Project directory from staging to repository),
`sRow` (import row), `sUpload`, `sBundle`, `sObjects`, `sRef`, `sGate`, `sPrep`.
Host: `sDraft`, `sRecord`, `sSnapshot`, and one state per command process.
Timeouts let a command go on while its operation continues at the service;
crashes cut native Git between any two durable steps; a host command may die
inside its lock. `git bundle unbundle`, the syncing of the object store and
`git update-ref` are steps of their own. The deadline, also that of startup, or a
crash may kill a Git child half way (`SGitKilled`); `sLeft` is what it leaves in
the repository, a temporary pack or a ref lock, and while that is there the next
attempt and every startup refuse (`SLeftoverRefused`). `sPlane` changes with a control-plane update.

`SRecordsBacked`: the ref exists only for the recorded intent with its bundle and
objects, an imported draft names the imported root, a ready record has its
snapshot. `SInstallResumes` (liveness): startup finishes an interrupted
installation, also one that is interrupted again, unless a killed Git left a file.
Two intents and two commands in `hosts`, so that leftovers of one import meet the
other, with one timeout, crash and death each; one command, two crashes and a
timeout in `liveness`, so that a resumed installation is cut again.

`SRecordsBacked` is proved in `Projects_proofs` for any intents, commands and
bounds. `SetupInv` says for each phase of the import row what of bundle, objects
and ref is there (`SImportSound`; from the moment the unbundling came back the
objects are), whose upload holds the gate, and what a command
that was told of the import may still rely on when it writes the host's records
(`SHostSound`). `SDownIsFree` (a stopped service holds no gate) goes with it.

## LifecycleLock

`kGuard` is the `flock` that a helper child holds, `kOwner` the owner record,
`kStage` the caller's place in acquire or release, `kStarts` the instance of a
process. Faults: the helper dies, at any time while its owner reads, publishes or
holds; a probe or a publication fails. An acquirer does not notice the death of
its helper and publishes without the flock; `kUnguarded` counts these.

`LockExclusive`: one live holder, plus one for each helper that died before its
owner's record was published. The addition is not slack: with one such death a
second process takes the free flock, reads the same stale record, and both
publish; TLC finds that state. Without one, and whatever helpers die later, there
is one holder. `StaleLockTaken` (liveness): a lock without a live owner goes to one
of those who wait, with the exceptions the property names. Three processes (one to
die, two to race for its lock), two instances each; two faults in `hosts`, one in
`liveness`.

`LockExclusive` is proved in `HostServices_proofs` for any processes, instances
and faults. Exclusion rests on the flock only until the record is published and on
the record from then on. The invariant (`LockInv`) counts those who break the one
or the other (`Surplus`): a holder whom the record no longer names, an acquirer on
its way without the flock, and one with the flock about to overwrite the record of
a holder. They are never more than the helpers that died too early
(`SurplusStep`); a publication turns one kind into another and adds none
(`PublishSwaps`). All holders but the one the record names are among them
(`HoldersCounted`).

## Workspaces

One workspace name. `wRec` and `wHost` are the two records; `wBox`, `wAgent`,
`wRelay`, `wSetup` what Docker and the relay hold; `wGrants` the grant files;
`wLock` the Project, setup and authority locks; `wOp` the operations of two
workers: `admin`, a host command under the lifecycle lock, and `self`, the restart
an agent asks for, which holds no lifecycle lock. `wReq` is a controller request
from authentication to its answer. Each external call (relay, Docker, setup) is a
step that may fail; the failure path is the code's own, including the record it
leaves. `WControllerDies` ends both operations where they are. A discard whose
inspection of the container fails publishes `discarding` without telling the relay
or revoking the grants, and then throws (`WDiscardBlind`); `wBlind` remembers it. A publication that
cannot tell the relay stops the container first; that this stop also fails is not
modelled.

`EntryIsCurrent`: an agent whose relay says ready is in a container set up for the
record's root, and the record says ready too, or is that of a discard published
blind; a grant is of the recorded workspace, and a request is served only in the
workspace it was authenticated for and never while that is being discarded, blind
or not. `DiscardIsFinal`: a published discard is never undone by an operation that
waited. `OperationsEnd` (liveness): no operation waits forever for a lock.
In `hosts`: two creations, one request, one fault, and three operations (create,
discard, create again under a waiting request), or two with a promotion of the root
(`WMaxTurns` in `MCHosts` bounds both together); in `liveness` one
creation and two operations with a request and a fault.

Both safety properties are proved in `Projects_proofs`, for any number of
creations, promotions, operations, requests and faults. `WorkspaceInv` has a
conjunct per thing an operation relies on after it waited: `WOpMayWork` (which
phases of the record an operation can meet under the setup lock), `WOpPublishes`
(the record it is about to write against the one there is; this carries
`DiscardIsFinal`), `WOpRests` (what each later stage may assume of container and
setup), `WRelaySound` and `WGrantsSound` (what relay, container and grants say of
the record). TLC checked `WorkspaceInv` on the instance of `hosts` before.

## CommandSessions

One session of a dim client: `nSession` in the controller, and the client's four
connections `nStream`, `nPost`, `nCancel` and a post the client gave up
(`nStray`). The session keeps more events than the bound emits; truncation of
the replay window is not reached. `NSuccessMeansDelivered`: a client that returns
success without a cancellation had all its input written, even if the result
overtook it. `NClientEnds` (liveness): it ends once the session ended, was
cancelled or lost its controller. Two outputs, two chunks.

The first is proved in `HostServices_proofs` for any number of outputs and chunks.
`SessionInv` counts: in a client that did not fail, the chunks typed are those
written and those queued, less the one accepted but not yet removed
(`NChunksCounted`), and stdin stays open while its command runs (`NStdinOpen`).

## ControlPlaneInstall

`cJournal` is `transaction.json`, `cRecord` `install.json`, `cCompose` the Compose
file, `cMade` the generation directories, `cService` the two containers. `cRun` is
the installer that holds the state lock. `cBound` are the generations whose
activation native Git's database holds: activation is a durable row in a volume
that no installer removes, so a service put back to such a generation is active
as soon as it runs, while ordinary CI starts passive each time. A container
restarts only when the installer replaces it; the Compose file sets no restart
policy. Failures, uncertain outcomes and deaths share a budget.

`StateIsTrue`: without a journal, record, Compose file and both active services
agree; a service is active only in the generation that record and Compose file
name or, during a rollback, as native Git in the generation the journal goes back
to, which then is active before the files name it again.
Three generations, two inputs, four runs, two faults: an update that fails, a
rollback that fails, and the recovery.

`StateIsTrue` is proved in `Installers_proofs` for any generations, inputs, runs and
faults. `InstallInv` says for each stage of an installation, a rollback and a
roll-forward what files and services hold at that moment (`CInstallSound`,
`CRollbackSound`, `CForwardSound`), and that every stage that changes them runs
under a journal (`CJournaled`): a death leaves the journal, and with it a state
from which the recovery of that phase is sound. `CKnown` is invariant by itself: no
file, service or activation names a generation that was not made, and a candidate
is not bound before its container stands, so that it never starts active.

## RuntimeInstall

`iCurrent`, `iBackups`, `iStaging` are the directories under `runtime/`, `iLink` the
link on PATH, `iConfig` the committed build, `iController` the build the
controller runs from. `IRuntimeSurvives`: a committed runtime is never lost. Three
builds, three runs, two faults, one required and one other plugin.

It is proved in `Installers_proofs` for any builds, runs, faults and plugins.
`RuntimeInv` needs `IBackedUp`: whenever the current runtime may go, a backup at
least as new as the committed build exists, also while an installation is undone.

## ManagedProxy and DevelopmentGateway

`ManagedProxy`: `pState`, `pSocket`, `pLock` are the three files, `pProcs` the
processes with their (reusable) PIDs, `pBoot` the PID namespace. A signal takes
three steps: two awaited reads of `/proc` that identify the target (`stat`,
`cmdline`), and the `kill`, which goes to a PID. `seen` is how many processes had been started when the caller last
looked. `PForeignUntouched`: a process is killed only as the proxy that a caller
means, or because it got that proxy's PID after the caller's last look. Two PIDs,
three starts, two namespaces, two callers and two faults, so that a recorded PID
is reused in each way, before a look and after it. Proved in `HostServices_proofs`
for any PIDs, callers, starts and faults. `ProxyInv`: live processes have different
PIDs (`PPidsDiffer`), and of the processes there were at a caller's last look only
its target can still have the PID (`PKnows`); `SignalReachesTarget` is the step.

`DevelopmentGateway`: `gDisk` is the route file, `gGates` the gateways, `gPort` and
`gControl` what they hold, `gUrls` the URLs of the controller (external).
`GRoutesExclusive`: the saved routes never give one authority to two services.
A save of the file may fail before or after its rename. A closed gateway waits
for its open connections only: an update whose caller gave up is still carried
out by the closed gateway. Two services, callers, gateways, authorities and URLs, two
faults. Proved in
`HostServices_proofs` for any number of them: every gateway's own table is
exclusive, and the route a gateway is saving is available in it (`GGateSound`).

## ExternalUrls

`uStored` are the stored URLs, `uRegistry` the in-memory routes, `uFlows` open
connections, `uConfig` and `uLive` the ingress policy on disk and served, `uCaddy`
and `uDns` the managed Caddy and the wildcard record. The mutation queue runs one
operation (`uOp`), cut at its awaits; connections come and go in between.
`UNoStrayFlow`: between operations every open connection and every accepting
authority belongs to a stored, allowed URL and goes where it now leads. One HTTP
and one TCP request, an open and a guarded policy, two URLs, starts, one edit, one
rebind, one fault.

It is proved in `HostServices_proofs` for any requests, policies, edits, starts
and faults. The invariant (`UrlInv`) holds also inside an operation: every row
that a served listener reaches is held by a stored, unrevoked URL of its claim, by
what the current operation has taken and not yet stored, or by what it has marked
revoked and not yet closed (`UHeld`); an enabled row and an open connection are
moreover let through by the approval (`ULet`). The step that needs most care is a failed write
of the store, which gives routes back by authority: that is enough because a new
URL, and one whose host has drifted, always acquires an authority of its own
(`NewAcquires`, `DriftedAcquires`). This rests on `UrlAssumption`: two TCP requests
for one target are the same request, because `validateRequest` refuses a subdomain
or path on TCP. Without that a failed write can leave a row enabled
that no stored URL owns; TLC finds the state.

## Composite runs

| Run | Parts | Properties |
| --- | --- | --- |
| `services` | `RootCi`, `QemuScheduler`, `EventDelivery`, `StandaloneCi`, `TransportLeases`, `RecordFiles` | `SingleOccupancy`, `QemuOneWay`, `DDemandsFollowRoot`, `AOneWay`, `TStorageQuiet`, `APromotedOnEvidence`, `TBackendOnLiveLease`, `FAnswersAreTrue`, `FRestartAccepts` |
| `hosts` | `ProjectSetup`, `LifecycleLock`, `Workspaces`, `ControlPlaneInstall`, `ExternalUrls`, `RuntimeInstall`, `ManagedProxy`, `DevelopmentGateway`, `CommandSessions` | `SRecordsBacked`, `LockExclusive`, `EntryIsCurrent`, `DiscardIsFinal`, `StateIsTrue`, `UNoStrayFlow`, `IRuntimeSurvives`, `PForeignUntouched`, `GRoutesExclusive`, `NSuccessMeansDelivered` |
| `liveness` | `RootCi`, `QemuScheduler`, `ProjectSetup`, `LifecycleLock`, `Workspaces`, `CommandSessions` | `ClaimReturns`, `QemuEventSettles`, `SInstallResumes`, `StaleLockTaken`, `OperationsEnd`, `NClientEnds` |
| `promotion_decisions` | `NativePromotion`, `EventDelivery` | `OneActiveApproval`, `RecoveryResolvesIntent`, `AcceptedPushIsReviewed`, `DNewestDelivered` |

The parts of such a run share no variable and do not interact in it: `subject`,
chosen in the initial state, names the one part that moves. TLC thus explores the
sum of the parts, not their product. Interaction between components is modelled
inside a module, which holds both ends of the protocol it is about. In `liveness`
and `promotion_decisions` the fairness of a part is asked only of the behaviours in
which it moves.
Deadlock is not checked in `services`, `hosts` and `liveness`: commands finish, and
bounded parts come to rest.

Fairness.
- `RootCi`, `QemuScheduler`: workers, handlers and reporters are loops and promises
  of Node processes whose calls all have timeouts; hosts and services are started
  again by the operator. Requests, expiry, faults and root movements are not fair.
- `EventDelivery`: the dispatcher is a timer loop, a handler's awaits have
  timeouts, and time passes. The generation stays what it is.
- `ProjectSetup`: startup and queued work of native Git go on; it is started again.
- `LifecycleLock`: a waiting process polls, a holder finishes (its command ends or
  dies). Weak fairness per process: a process that waits sees the guard free for
  good once nobody else takes it, and somebody taking it is what is promised.
- `Workspaces`: an operation goes on; a call to Docker, relay or setup returns or
  fails. Beginning an operation is not fair.
- `CommandSessions`: requests are answered or fail, the client reads what arrived.

No run uses strong fairness.

## Findings

- `qemu_orphan`: a reservation that expires while its issuance is under way is
  queued again, but its attempt stays current in native Git. The next claim is
  refused with 409, and the scheduler supersedes the event of a review that is
  still current; the document calls such a failure transient.
- `url_shadowed`: a revoked and an active URL of one TCP service share a route id;
  the deduplication on restart may keep the revoked one, and the active URL, still
  listed, is not served.
- `candidate_expiry`: a candidate lease is not looked at again after the wait for
  its proof, so an expired one starts a backend; the document denies that.
- `root_ci_denial`, `root_ci_drift`: see `RootCi`.

## Observations

Behaviours of the models that are no finding of a run. The first two are the
exceptions that liveness properties make; they do break what
`native-git-transport.md:819-821` and `native-qemu.md:250-253` say:
- A rejected event is suppressed for 250 ms, less than offering the next one may
  take. Two stale events may then be offered in turns, and newer work is blocked
  (`DWalkFits`).
- The QEMU result reporter ignores a wake while it drains, and it drains a snapshot
  of the outbox. A result that another worker submits meanwhile stays there, its
  capacity fenced, until a third result or a restart (`QLeftBehind`).
- Native Git refuses to start, until someone removes or completes what is there,
  after a crash while the directories of a store were being made; after a crash
  between staging and linking a review or decision (the specification asks for
  this: unpublished staging "is rejected unchanged"); after a status or attempt
  revocation whose save failed on disk was saved again before a restart, because
  the staging file of the failure lies beside the record; and after a status
  staging file was cut exactly before its final newline.
- After a decision was published and its staging name could not be removed, the
  next GET and the next save repair at once, and whoever comes second fails. The
  caller may repeat the request.
- A failed save of an attempt leaves a staging file that makes the attempts of
  that job unreadable until a restart.
- A push's backend may start up to 30 seconds after its last authentication, so
  after its lease expired and while the service is draining.
- A `git bundle unbundle` killed half way leaves `objects/pack/tmp_pack_*`, a killed
  `git update-ref` a lock beside the ref. The check of the object store refuses
  such files and nothing removes them, so every later attempt of the import and
  every later startup refuses.
- The lifecycle lock has two holders when a helper dies before its owner published:
  the owner goes on without the flock, and a second process takes it, reads the
  same record and publishes too.
- A publication of the lifecycle lock that fails after its rename leaves a live
  process's record without a holder; others wait until that process ends.
- A crash between the staging directory and its owner marker blocks later
  provisioning of that Project until someone removes the directory.
- A discard that cannot inspect its container leaves the relay saying ready and the
  grants in place. Nobody is served through them, because the controller looks at
  the record; a repeated discard cleans up.
- While an update is rolled back, native Git serves in the prior generation before
  `compose.yml` and `install.json` are put back. The journal is still there, so
  nobody takes these files for the state.
- Between the last look at `/proc` and the signal, the managed proxy's PID may pass
  to another process, which is then signalled.
- `recoverLock` of the managed proxy removes by name a lock it judged stale a
  moment ago, so two callers may hold it and start two proxies.
- The CLI and plugin installers share no lock; `RuntimeInstall` assumes one at a
  time.
- Input that reaches a cancelled session is written to an ended stdin.
- A rejected event is suppressed for its whole window even if the reason is gone.
- A workspace's restart of itself holds no host lock and may overlap a shutdown.

## What is proved, what is only checked

Proved for all values of the constants, from the named assumptions of the modules
alone: every safety property the passing runs check, invariant or action
property, and the refinement `ImplementsProtectedHead`. The assumptions say that bounds
are naturals, that a few sets are finite or disjoint, and that null values are not
values; those of `NativePromotion` also say that ancestry is a partial order and
the policy total, and that of `ExternalUrls` that a TCP request is determined
by its target. The bounds on faults, crashes, requests and runs are constants
like the others, so the theorems hold for any number of them.

All proofs have the same shape. The invariant of a component is a conjunction of
named parts, each about one actor or one file; a lemma per action (or per group of
actions with the same effect) shows that the action keeps it; the theorem that it
holds of the specification comes first, and the properties follow from it. TLC
checked the invariants on the instances of their runs before they were proved.

Only model-checked:

- Liveness: `RecoveryResolvesIntent`, `AcceptedPushIsReviewed`, `ClaimReturns`,
  `QemuEventSettles`, `DNewestDelivered`, `SInstallResumes`, `StaleLockTaken`,
  `OperationsEnd`, `NClientEnds`. They need fairness and ENABLED, of which the
  provers know nothing.
- The violation runs, by their nature.

## Plan

1. `NativePromotion`, `ProtectedHead`, proofs (done).
2. `RootCi` and the other modules above (modelled and checked).
3. Proofs of the safety properties of all modules (done).
4. More of the parts listed as partly modelled, each with its proof.

## Not modelled

- HTTP parsing, schemas, credentials, file formats and modes: apart from a cut
  staging file, a record is taken as well formed; a malformed one makes the code
  refuse to start.
- Git object transfer, container and image building, presentation.
- The start of the controller process (PID claim, `ensure`) and its races.
- The answer of the unserialized read of a review; what it does to the files is
  in `RecordFiles`.
- Host mirrors, CLI, web, doctor: copying, parsing and read-only inspection.
- Two command installers at once, and the broker's byte streams.
- Verification scripts and live harnesses: they exercise the code above.
