# A verification of Unzen's coordinators and client

Unzen has two tracks. `core/` runs server functions in the browser with a server fallback;
`LLM-proto/` runs a model cut into segments over browser workers, through a coordinator. This
project models the parts of both whose correctness depends on the order of events: the durable
coordinator, which promises to finish each inference request exactly once although workers
reconnect, results come late or twice, callers cancel, deadlines pass, and instances crash and take
over each other's requests; the repository it keeps its records in; the two pipelines that came
before it, with their router and worker pool; continuous assurance, a scheduled job that rotates
credentials and exercises recovery over two Durable Objects that may fail apart from each other; and,
on the client's side, the executors that own a Web Worker, the execution pipeline above them, and the
caches below it. Paths are relative to `LLM-proto`, `LLM-proto/src` or `core/packages/client/src`,
whichever has the file; `core-impl` stands for `durable-coordinator-core-impl.ts`, and the files of
continuous assurance are named without the prefix `workers-coordinator-...-provider-`.

## 1. Inventory

| Component | State | Operations | Hard parts | What makes it correct |
|---|---|---|---|---|
| Durable coordinator (`core-impl`) | in-flight entries, everything in the repository | `submit`, `recoverPendingRequests`, the attempt loop, `acceptResult`, `handleWorkerResult/Failure`, `cancel`, worker registration, monitors | awaits in the loop, in validation and in delays; several instances; aborts from four sources | one outcome per request; nothing left behind; durable retry budget; cancellation wins |
| Request state machine | stage per request | legal transitions | late updates | terminal stages absorb |
| Lease manager | active lease per request | issue, match, reclaim | late results, reconnects, the expiry instant | a lease names a current worker generation |
| Worker registry | record per worker | register, heartbeat, mark, revoke | reconnect under an execution | a generation serves one run |
| Durable repository | all durable maps | compare-and-set of stage, claim, completion, checkpoint | crash between two writes | a result exists exactly with completion |
| Durable recovery (plan, command, runner) | recovery claims | claim, plan, resume, renew, release | two claimants, lost claim, dead owner | one recovery at a time; progress |
| Timers, error policy, checkpoint envelope | - | abortable execution, deadlines, TTL | an abort racing a settled promise | - |
| Durable Object repository | the same maps over key-value storage, an index of leases | as the repository, records behind proxies | a copy that is older than what is stored | behaves as live records do |
| Trust boundary (`durable-coordinator.ts`, `-core.ts`) | bridged signals | snapshots of untrusted inputs | - | no lost abort |
| Legacy coordinator, pipeline, worker pool, checkpoint store | worker pool, checkpoints | assignment, retry, heartbeat monitor | a worker lost in the middle of a segment | a busy worker is served; a worker is shared only after it was lost |
| Span router, span pipeline, residency | routes, residency | route, execute, reroute | peers leaving between two spans | a route is found whenever one exists; work resumes behind the newest checkpoint |
| Continuous assurance (`worker-runtime/continuous-assurance-worker.mjs`, `-engine-worker.mjs`; `continuous-assurance-engine-service.ts`, `-automation.ts`, `steady-state-operations.ts`) | the runtime's ledger of triggers; the engine's snapshot, journal and active trigger; the provider's credentials | scheduled delivery, tick (claim, evaluate, commit), bootstrap | deliveries that overlap, answers that come late or never, a crash on either side, effects that cannot be undone, a snapshot replaced under an evaluation | one outcome for each trigger, from the run it replaces; what is undecided can be replayed; no rotation is lost |
| Browser executors (`web-worker-sandbox.ts`, `moonbit-worker-sandbox.ts`) | running slot, queue, worker generation, init promise | `execute`, abort, `dispose`, messages, timers | results, cancels, timers, crashes and disposal race for one call | each call is held once and settles at most once; one worker; no handover while a function runs |
| QuickJS worker | the message it handles | init, execute, cancel | a cancel arrives behind the execution | works for the running slot only |
| Client pipeline (`unzen-client.ts`) | executions, diagnostics | `call`, events, fallback, `dispose` | listeners that abort or dispose from inside an event | one terminal event; inputs go only where allowed; nothing left waiting |
| Manifest and code caches | cached entries, shared requests | fetch, abort, invalidate, evict | late answers, waiters that leave, the byte budget | never older than the last invalidation; the account is exact |
| Adaptive chunk dispatcher, swarm, server library, backends, manifests, report contracts, bundler, demo, tools | little or none | - | - | - |

How they interact: application code calls the coordinator, the worker transport calls
`registerWorker`, `workerHeartbeat`, `handleWorkerResult` and `handleWorkerFailure`, and the
coordinator calls an executor and awaits its promise. All instances over one repository share state
only through it. In the client, `UnzenClient` asks the manifest fetcher and the code fetcher, hands
the code to an executor and falls back to the server; the executor talks to its worker by messages.
The runtime of continuous assurance is called by a cron schedule, which may repeat itself, and calls
the engine by a service binding; the engine calls its provider, evidence and pager adapters the same way.
`PROJECT.json` lists the hazards, each at its line.

## 2. Modules

| Module | Models |
|---|---|
| `RequestStateMachine` | the adjacency table and `isLegalTransition` |
| `LeaseManager` | lease policy over a map from requests to leases |
| `WorkerRegistry` | worker records and connection generations |
| `DurableRecoveryPlan` | `planDurableRequestRecovery` as a function |
| `DurableCoordinator` | the system: repository, instances, runs, recovery, cancellation, pushes, workers, clocks, crashes; extends the four above |
| `RequestContract` | abstract specification: what a request looks like to the application |
| `MCDurableCoordinator` | symmetry for TLC |
| `DurableCoordinator_proofs`, `DurableContract_proofs` | theorems about it |
| `DurableObjectRepository`, `RepositoryContract` | the repository over cloned records, and the one of live records it must look like; `DurableObjectRepository_proofs` |
| `WorkerPool`, `SpanRouter`, `Pipelines` | the worker pool, the route search, and both pipelines over them; `Pipelines_proofs` |
| `MCPipelines` | the pipelines and the Durable Object repository side by side |
| `AssuranceAutomation` | one evaluation: is the cycle due, what does it do, may it commit and as what |
| `AssuranceEngine` | the engine's Durable Object, its evaluations, bootstraps and the provider; extends the former |
| `ContinuousAssurance` | the system: the runtime and the engine with the calls between them; extends the former |
| `AssuranceContract` | abstract specification: the outcome of each trigger and the run it leads to |
| `MCContinuousAssurance`, `Assurance_proofs` | the instances, and theorems about it |
| `WebWorkerSandbox` | the browser executor |
| `QuickJsSystem` | the executor composed with its worker; `MCQuickJsSystem`, `MCWebWorkerSandbox`, `WebWorkerSandbox_proofs` |
| `MoonBitWorkerSandbox` | the executor of MoonBit modules: module fetches and byte cache over an instance of `WebWorkerSandbox`; `MoonBitWorkerSandbox_proofs` |
| `ExecutionContract` | abstract specification of `execute()` for its callers, implemented by both executors |
| `UnzenClient` | the execution pipeline of the client |
| `ManifestFetcher`, `CodeFetcher` | the client's caches |
| `Client_proofs` | theorems about the pipeline and the two caches |
| `MCClient` | the pipeline, the two caches and the MoonBit executor side by side; extends all four, so that their theorems are about the properties it checks |

### The durable coordinator

**State.** `requests`, `results`, `cancellations`, `attempts`, `leases`, `checkpoints`, `ownerships`
and `workers` are the repository's maps. `runs[c][r]` is the in-flight entry of instance `c` for
request `r` together with the pending promise chain behind it: where it awaits (`pc`), in which
segment and turn, under which attempt, and whether and why its signal is aborted. `pushes` holds
pushed results whose digest is being verified, `up` the instances that are alive.

**Steps.** Code between two awaits is one action. `Submit` and `BeginRecovery` run on into the
attempt loop (`LoopTurn`, `Assign`) up to its first await, as the code does; `AdvanceSegment` does
the same for the next segment. `acceptResult` awaits the digest in the middle, hence the pair
`ExecutorResolves` and `CheckpointValidated` (and `PushResult`, `PushValidated`). Its verdict is then
consumed by `executeSegmentWithRetry` in a later step (`AdvanceSegment`, `AdvanceRefused`,
`ReturnVerdict`, `RejectVerdict`), a failed execution by `ExecutorFails` and `ExecutionAborted`, and a
finished segment loop by `RunEnds`, which is the rest of `runRequest`, the acknowledgement of a
cancellation and the release of the entry and the claim. Other promise hops run code that touches no
shared state, or the few lines that move the cursor, and are merged with their neighbours.

**Event loop.** Promise continuations run before any timer: a `Task` (timers, finished digests, time)
waits while a run is `rejecting`, `decided` or `ending`, or is asleep or executing with its signal
aborted (`ContinuationPending`). Calls of the application and the
transport may come between continuations, since they may themselves be made from one. A `Crash` is no
task: it strikes in any state, also between two promise hops. What it cannot cut is one
synchronous stretch, such as the writes of `acceptResult` after its last check (`core-impl:1024-1031`:
checkpoint, attempt, lease): it is one step, and a Durable Object commits the writes of one turn
together. The window behind it is open. A crash while a run is `decided` leaves an attempt completed,
its checkpoint stored and the cursor still at its segment, and recovery completes that segment again.
`AdvanceSegment` merges the two hops that move the cursor (`:694`, `:557`), so `Crash` may also leave the
records that the first one alone leaves (`BetweenHops`: the request queued, the worker idle, the cursor
old). Behind `ending` nothing is left that matters to anyone else: a crash between the acknowledgement
and the release of the claim leaves the claim of a settled request, which nobody asks for. An abort
rejects an execution at once (`withAbortableTimeout`), except that an abort by a call may find the
executor's promise already settled; `AbortByCall` allows both.

**Abstractions.**
- Time: a lease is before, at or after its expiry (`live`, `edge`, `past`), because `match` still
  accepts at the instant at which the planner already reclaims; claims, checkpoints and deadlines are
  live or not. They run out whenever the environment says so.
- Data: a checkpoint is a digest and its freshness; a result is a valid payload or one of six
  defects (`AllFaults`), one for each way `acceptResult` can treat it. A `foreign` result carries an
  identity no lease has; pushes may carry the identity of any attempt.
- Errors of an execution are retryable (`transient`) or not (`permanent`). Every retryable code is
  isolatable in `errors.ts`, so a retried failure always disconnects its worker.
- Tier and VRAM: any idle worker may be chosen. One manifest serves the deployment, so the manifest
  comparisons succeed. Each request has one idempotency key, so a request is its key.
- The six bounds are the constants `NumSegments` and `MaxRetries`, which are the code's own, and
  `MaxAttempts`, `MaxGenerations`, `MaxPushes` and the finite sets. `MaxAttempts` stops `Assign`,
  which can only cut behaviours short; in the liveness runs it is set so high that it never
  stops a run (see below). `Environment` and `Faults` select which events a run explores; an action
  named in `Environment` is absent when its event is not.

`RequestContract` sees a request as unknown, pending, completed, failed or cancelled, with a result
and a cancellation. `Contract` in `DurableCoordinator` maps stage, result and cancellation record to
it; leases, workers, attempts, checkpoints, claims and runs are invisible.

### The other modules

**Executors.** The handlers of `web-worker-sandbox.ts` call each other synchronously (a failed
generation drains the queue, which may start the next one, which may fail), so each is an operator
from an executor state to the set of states it may leave, and an action picks one. `exec` holds the
fields of the class, the outcome of every promise, who awaits the shared initialisation (`waiters`)
and the continuations that are due (`jobs`); those run before the next timer or message. An
initialisation may fail at once, at its timeout, by an error event or by its answer, and sending
may throw at any message. A second settlement of a promise is remembered in `again` instead of
being ignored. In `QuickJsSystem` the worker takes one message at a time and an evaluation does not
yield, so a cancel is read after the execution it was meant for; a worker behind the `createWorker`
option is not `genuine` and may answer anything. `MoonBitWorkerSandbox` adds what comes before: the
lookup, shared fetches with their waiters, and an insertion-ordered cache of `MaxCached` modules.

**Client.** A step of `runExecution` runs from one await to the next and emits events on the way;
at each, the listener does nothing, aborts the execution or disposes the client. `mode` is the routing
mode. `log`, `late` and `sent` are history: the events a listener saw, those it saw after the internal
signal had fired, and whether inputs left for the server.

**Caches.** A manifest is the version the server had when it answered. `ManifestFetcher` keeps the
shared request, the calls that await it, and when `invalidate()` was last called; `CodeFetcher` keeps
the insertion order and the byte account. Body limits and integrity checks are a failing answer.

**Pipelines.** `strategy` says which of the two pipelines runs. The search of the router is a
recursive function, with the ranking keys in the code's order; `Coverable` and `Covers` are its
reference. Where the code tries the candidates one after the other, the model takes the best of those
from which the rest can be covered. Every execution ends, well or with an error, because the code times it out. The residency
ledger is always present, runs under the coordinator start at segment 0 unless a checkpoint exists,
and the continuation that finds the retries exhausted is merged with the step that failed. `lost` is
history: workers that were marked disconnected, removed or replaced.

**Durable Object repository.** An operation is synchronous, hence one action. `proxies` holds the
records handed out: a key and the copy behind the proxy. An assignment changes the copy and is
merged into what is stored by then. `RepositoryContract` has live records instead.

**Continuous assurance.** `ledger` is the runtime's table, `snapshot`, `active` and `journal` are the
engine's; they survive crashes. A delivery (`Deliver`) reads and writes the ledger and calls the
engine; what it read stays in `waiting` until `Complete` or `Fail` uses it. The call may fail although
the tick goes on, and an answer nobody waits for is lost. A tick runs up to the automation's first
await (`TickClaims`, `TickRefused`, `TickRepeated`); `Advance` is an action that succeeded, after
however many attempts, and `TickEnds` what remains, since the commit and the journal are written in
one transaction and the steps between are local. `Perform` is the provider. `BootstrapBegins` and
`BootstrapSeeds` are the two sides of the await on the validation of a seed.

A snapshot is reduced to what decides the next cycle: the run, when it is due, the version of the
credentials, when the next rotation and drill are due. `GatePasses` keeps those conditions of the
steady-state gate that relate them; every other check, and every adapter that fails, is the hold that
an evaluation may end with at any point. `rotation` and `drill` are the events that an evaluation was
given, sets of at most one. Time counts ticks of the schedule, and what happens within a tick happens
at the same instant. There is one scope, as in the deployment; a trigger is its scheduled time.
`overtaken` is history: a seed was stored although a tick was claimed, or another seed stored, during its validation.

Assumed of the provider, which is not in the repository: it performs a rotation or a drill at most
once for each idempotency key and answers a repeated request with the same event (what the keys are
for), and does not act for an evaluation that is gone.

## 3. Runs

Deadlock is not checked: every system here comes to rest once its requests, calls or executions have
ended, or its worker is silent; that work does not get stuck is what the liveness properties say.

### Durable coordinator (`MCDurableCoordinator`)

| Run | Instance | Question |
|---|---|---|
| `Solo` | 1 coordinator, 1 request, 1 worker, 2 segments, two digests, every fault; every event except recovery and crash; 3 attempts, 2 generations, 1 push | `TypeOK`; a result is committed exactly at completion and from the final segment (`CompletionCommitted`); each segment started from an accepted checkpoint of the one before (`CheckpointLineage`) |
| `Takeover` | 2 coordinators, 2 workers, 2 segments, recovery at any moment, crashes, cancel, expiries, heartbeat loss, failures, invalid checkpoints; 3 attempts; symmetric | `LeaseGenerationCurrent`, `TerminalReleasesAll`, `CancellationIsFinal`, and the refinement `KeepsContract`, which implies that a terminal stage is never left and a result never replaced |
| `Failover` | 2 coordinators, 2 workers, 3 segments, crashes, failures, expiries; recovery only when no live instance runs the request; 6 attempts; fair | `FailuresWithinBudget`, `CrashRepeatsOneSegment`, `CursorMonotone`, `EventuallyTerminal` |
| `SharedWorker` | 1 coordinator, 2 requests, 1 worker that reconnects, cancel, pushes, failures | `WorkerExclusive` |
| `Recovery` | 3 coordinators, 1 worker, recovery at any moment, crashes, cancel, lease expiry, failures; claims never run out; 4 attempts; fair | `RecoveryExclusive`, `CancellationAcknowledged` |
| `DoubleExecution` | 2 coordinators, recovery of a live request | refuted: `NeverDoubleExecutes` |

Why the bounds are enough: two segments give a first, a checkpoint and a final one, three add a
middle one that both starts from and produces a checkpoint. `MaxRetries = 1` distinguishes first and
last turn. Two coordinators give an owner and a successor, three in `Recovery` an owner that crashes,
one that takes over and one that polls. Two generations give a stale and a current connection, two
digests a conflict between a stored checkpoint and a new one.
A request spends at most two executions that fail, and one per segment that succeeds, unless a
takeover repeats one; three attempts let a retry and a takeover happen, and six in `Failover`, four in
`Recovery`, leave a spare, so that the bound never stops a run.

`WorkerExclusive` is about reconnects: after missed heartbeats the code lets a worker that still
executes come back as idle and assigns it again, and relies on the reclaimed lease to refuse the
late result, so `SharedWorker` leaves heartbeat loss out (`Solo` and `Takeover` have it).

`CrashRepeatsOneSegment` says how far "never double-executes" holds: only a crash makes completed work
be done again, each crash one segment of a request at most, and never the final one, whose result is
committed in the step that completes the request. In `Failover` the repeat happens (an
instance stops at `decided` or between the hops, the other recovers and completes segment 0 again). With two instances
there is one crash after which anything still runs; any number is the matter of the theorem
`RepeatsPaidByCrashes`.

`RecoveryExclusive` holds only while claims do not run out under their holder: the claim is
renewed by a timer, and a holder that is suspended for longer than the TTL is overtaken; the code
then aborts the slower one. `FailuresWithinBudget`, `CrashRepeatsOneSegment` and
`CursorMonotone` are checked under the startup scan; with recovery of a live request they fail: in
`DoubleExecution` a segment completes twice although no instance crashes.

### Client, repository and pipelines

| Run | Instance | Question |
|---|---|---|
| `Sandbox` (`MCQuickJsSystem`) | 3 calls, queue of 1, the package's worker or any other; fair | no call is lost, held twice or settled twice (`PendingIsHeld`); `OneWorker`; the worker works for the slot only (`WorkerServesSlot`) and a cancelled function is stopped before the slot is handed over (`CancelStopsWorker`); timers alone settle what runs and drain the queue (`TimersSuffice`, which is `RunningSettles` and `QueueDrains`); `ImplementsContract` |
| `SandboxOrphan` (`MCWebWorkerSandbox`) | 2 calls, queue of 1; fair | refuted: `EveryCallSettles` |
| `Client` (`MCClient`) | pipeline: 2 executions in each mode; manifest cache: 3 calls, 2 versions, 1 invalidation; code cache: 3 calls, codes of 1, 1 and 2 units, budget of 2; MoonBit executor: 3 calls, 2 modules, queue of 1, cache of 1; symmetric | `OneTerminalEvent`, `InputsStayPrivate`, `DiagnosticsAgree`, `NothingSentAfterCancel`, `CancelledRunWaitsForNobody`; `EtagMatchesManifest`, `InvalidateRefreshes`, `NeverRegresses`, `RequestIsShared`; `CodeCacheSound`; `CacheSound`, `ImplementsContract` |
| `Pipelines` (`MCPipelines`) | 2 requests, 3 workers of memory 3, 1, 2, 3 segments of size 1, 1, 2, 1 retry, 2 changes of the workers, either pipeline; repository: 1 request, 1 worker, 2 leases, 2 held records, 2 generations; symmetric | `RouteComplete`, `ResumesAtCheckpoint`, `BusyIsServed`, `WorkerNotShared`; `ImplementsRepository` |

Why these bounds are enough. With a queue of one, three calls are one that runs, one that waits and
one that is refused or comes next. One worker generation follows another until all calls are settled,
so no bound on them is needed. Two modules and a cache of one force an eviction under a fetch. Two
executions of a client share `disposed` and nothing else. Three callers of a cache are one that
begins a request, one that joins it and one that begins the next after an invalidation; two versions
give an old manifest and a new one. Two small codes fill the code cache and the large one empties it.
A record held twice gives a copy and an assignment made through another. The sizes and memories of
`Pipelines` make the best ranked candidate the wrong one at times, so that backtracking happens (the
mutant without it is caught), and two changes lose and bring back a worker under a run.

`Client` and `Pipelines` each hold parts that share no state and meet only in outcomes which each
leaves open: `side` picks the one that moves, and one run checks them side by side. Their
configurations give the symmetric values of different parts the same names, since a state in which
only one part moves is symmetric in all of them at once.

### Continuous assurance (`MCContinuousAssurance`)

| Run | Instance | Question |
|---|---|---|
| `Assurance` | 2 triggers at times 1 and 2, the clock up to 3, each delivered up to twice, lease of 2; cadence of 1, rotation every 2, drill every 3, grace and lead of 1; 2 seeds, 1 crash of the engine | `ScopeRecoverable`, `RotationKept`, `ImplementsContract` |
| `AssuranceWedged` | the same with one seed | refuted: `Recoverable` |

Why the bounds are enough: two triggers are one that holds the scope and one that is refused, or one
cycle and the next; the second delivery of a trigger overlaps the first when the lease runs out while
the engine still works, and each may fail on either side. Four instants suffice for a cycle that
rotates, one that rotates again and one in which rotation or drill is overdue. Two seeds are one that
starts the scope and one that comes in between a claim and a commit. Nothing is assumed fair: that an
undecided trigger can be replayed is a safety property of every state.

### Fairness

`FairSpec` of `DurableCoordinator`: continuations are weakly fair: promises settle, since the
segment timer bounds every execution. The retry delay, the poll of the recovery runner and the digest
are timers or finite computations of a running event loop. A lease that stays grows old, and the
claim of an instance that is gone runs out, because time passes; the claim of a live one is renewed
and need not. `Recover` is fair: a runtime calls `recoverPendingRequests` when it is constructed.
Nothing is assumed of workers, callers, heartbeats, crashes or the renewal timer.
`CancellationAcknowledged` asks nothing once an instance has crashed: the entry that would
acknowledge may be gone for good. `Recovery` also leaves out the abort of a submit's own signal, with
which the property fails (below).

`FairSystemSpec` of `QuickJsSystem` (and `FairSpec` of `WebWorkerSandbox`): the executor's own
continuations run and its three timers fire. Nothing is assumed of the worker, which may be silent
for ever.

### Disagreements between code and documentation

Three are runs whose single property TLC refutes.

- `DoubleExecution`: "never double-executes" (`docs/coordinator-durability.md:40`). A request in a
  retry delay has no lease and no claim while its run is alive. A second instance that is given its
  key, or scans, resumes it and both execute it. A crash between `acceptResult` and the move of the
  cursor is a second way, which no takeover of a live request is needed for; what remains of the
  sentence there is `CrashRepeatsOneSegment`.
- `AssuranceWedged`: a call of the engine that is interrupted "leaves the row recoverable as `running`"
  (`docs/publisher-tax-production-exception-archive-dr-provider-continuous-assurance-worker-runtime.md:64`).
  If the engine stops in the middle of a tick, nobody writes `interrupted` to its journal; every replay
  is then answered `in-progress` (`engine-worker.mjs:212`), every other trigger `scope-busy`, and a
  bootstrap is rejected because the scope is active (`:93`). The scope is occupied for good.
- `SandboxOrphan`: "No affected request is left waiting on its own timer" (`web-worker-sandbox.ts:36`).
  The request that began the initialisation is cancelled while another waits in the queue; the owner
  then returns without draining the queue (`:769`, and `moonbit-worker-sandbox.ts:683`), and the
  other call settles only if a later `execute()` happens to come. `QueueDrains` is what does hold.

The others are stated by definitions that no run lists; each is refuted when it is the only
property of an instance of its module.

- `AcknowledgedMeansStopped` (`DurableCoordinator`): "we never infer physical stop from lease removal"
  (`core-impl:176-181`). `cancel` on an instance without an entry acknowledges when there is no
  lease (`:1129`), and the heartbeat monitor may have removed it under a live execution.
- `LostOwnerYields`: a lost claim does not terminalize the request
  (`docs/coordinator-restart-recovery.md:37`). A run that returns from `acceptResult` does not look
  at its signal and fails the request with an identity mismatch (`core-impl:708`).
- `StaleFailureSparesLease`: "a stale result must never reclaim a newer lease"
  (`lease-manager.ts:112-116`). The catch block reclaims by request, not by identity (`core-impl:727`).
- `NoOvertaking` (`WebWorkerSandbox`): the queue is first in, first out, but a call that comes between
  the end of one request and the next takes the slot before it (`web-worker-sandbox.ts:400`).
- `AbortSettlesCancelled`: a call whose signal fired settles as cancelled (`sandbox-executor.ts:20-22`).
  A crash or a malformed answer before the acknowledgement settles it as a runtime error
  (`web-worker-sandbox.ts:1162`, `:1185`).
- `FallbackReachesServer` (`UnzenClient`): `fallbackUsed` is not marked for a run that never reached the
  server. A listener that aborts at `fallback-started` leaves it marked (`unzen-client.ts:991`).
- `QuietAfterDispose`: once the internal signal aborts no phase event follows. After `dispose()` one
  more may (`unzen-client.ts:916`).
- `AssignedOnlyIdle` (`Pipelines`): a later span of a route starts on a worker that may have been given
  away, or lost, since the route was computed (`span-pipeline.ts:424`).
- `FirstFailureKept` (`ContinuousAssurance`): "the original first failure is retained"
  (`...-continuous-assurance-worker-runtime.md:56`). The runtime writes back what it read before the
  call, so overlapping deliveries forget it (`continuous-assurance-worker.mjs:125`, `:168`).
- `ActionKeysRecorded`: the ledger has "action idempotency keys returned by the assurance engine"
  (`:45` of the same document). The runtime reads `attempts`; the automation returns
  `actionAttempts` (`continuous-assurance-worker.mjs:122`, `continuous-assurance-automation.ts:626`).
- `BootstrapExclusive`: a bootstrap is rejected while a trigger is active or when the current run is
  not the expected one. Both are checked before the await on its validation and not after it
  (`continuous-assurance-engine-worker.mjs:108`).
- `JournalNamesBase`: a journal row names the run its outcome was derived from. A replay reads the
  current snapshot, but the row keeps the base of the first claim (`:221`).

`CancellationAcknowledged` itself fails once a caller aborts the signal of its submit
(`"caller-abort" \in Environment`, which its run leaves out). The abort cancels the request on its
instance, without a record, while the recovery runner of another instance sleeps. `cancel` there
finds the runner's entry, stores an unacknowledged record and aborts the runner
(`core-impl:1120-1135`), whose sleep ends; only the end of `runRequest` acknowledges (`:540`). Nothing is
left to settle, and the cancellation stays pending for good.

Read in the code and not stated by a property: the QuickJS worker never acknowledges a cancel, since
it reads the message after the execution ended; a drainer that resumes after its worker failed may
reject requests queued for a newer generation; calls that await a request which `invalidate()` aborted
report "cancelled" although nobody cancelled them; the heartbeat monitor neither clears residency nor
reassigns segments, as `docs/artifact-residency-routing.md:97-98` and `worker-pool.ts:116-119` say;
the proxies of the Durable Object repository have no `get` trap, so reads through a kept one are
stale although `docs/durable-worker-registration-contract.md:40` calls them current-state views; and a
worker record of the in-memory repository that is kept across a registration on the same connection
is detached, while the Durable Object's still writes. No caller keeps one.

## 4. Proofs

Each module of proofs assumes the named assumptions of the module it is about and nothing else; the
theorems hold for every value of the constants these allow.

**`DurableCoordinator_proofs`**, from `CoordinatorAssumption`: `Invariance` (`Spec => []IInv`),
`TypeCorrect` (`TypeOK`), `LeasesCurrent` (`LeaseGenerationCurrent`), `TerminalsReleased`
(`TerminalReleasesAll`), `CompletionsCommitted` (`CompletionCommitted`), `CancellationsFinal`
(`CancellationIsFinal`).

None of the four safety invariants is inductive alone. `IInv` adds three things. First, what holds of
each request at a rest point: the stages `accepted` and `leased` are passed within one synchronous
stretch of code and never rest there, so `finalizeStage` is always legal on a request that is not
terminal; this is why a cancellation always ends in `cancelled`. Second, what a run's program counter
says: an assigned run holds an attempt of its own request at its own segment, and a result under
validation is not final; so a commit is by the right attempt and an accepted checkpoint advances to a
segment that exists. Third, runs, leases and attempts exist only for submitted requests.

The argument has four layers. Lemmas about the data (`AttemptAppended`, `IsolationEffect`,
`FinalizeStageEffect`) say what a helper preserves. `AssignSound` and `LoopTurnSound` do so for a
stretch of the attempt loop, which `Submit`, `DelayOver`, `AdvanceSegment` and a resumed recovery
share; `FirstVerdictSound` and `SecondVerdictSound` for the halves of `acceptResult`, which pulled
and pushed results share. Then one lemma per action, `...Keeps`, and `ContinuationKeeps`, `CallKeeps`
and `TaskKeeps`, which `StepSound` combines.

**`DurableContract_proofs`** has twelve results on top of `IInv`.

- `ImplementsRequestContract` (`KeepsContract`) is the refinement. Since `IInv` ties stages, results
  and cancellations together, an action only has to show `Advances(r)`: it moves one request, a
  terminal stage stays, and a request is not born completed or cancelled. `Visible` turns that into a
  step of the contract or a stutter; the two actions that write a cancellation record (`CancelObeys`,
  `RunEndsObeys`) are shown by themselves. `TerminalsFinal` reads off the same steps that a terminal
  stage and a committed result are never replaced.
- `Lineage` (`CheckpointLineage`). What it needs beyond `IInv` is `LeasesUnspent`: an attempt that holds
  a lease has had no output accepted. So a late or pushed result that still matches a lease is the
  first of its attempt, and cannot replace an output that a later segment was started from.
- `RecoveriesExclusive` (`RecoveryExclusive`), for behaviours in which holders renew in time
  (`HoldersRenew`: a claim does not run out under a live holder inside `runRequest`). `HoldersRun`: a
  recovery inside `runRequest` holds the live claim of its request.
- `WorkersExclusive` (`WorkerExclusive`), for behaviours in which workers at work are heard
  (`BusyWorkersAreHeard`). `WorkerInv`: the generation a run is assigned to is busy or superseded, and
  no two assignments are on one generation.
- `CursorNeverBack` (`CursorMonotone`), when requests are recovered by the startup scan
  (`"recover" \notin Environment`). `SoloInv`: a request has one run, on a live instance, and a run at
  work stands at the cursor, so an advance is by one.
- `FailuresCounted` (`FailuresWithinBudget`), when besides failures arrive through the executor
  (`"push" \notin Environment`). `BudgetInv`: while a request is in play its failed executions are at
  most the stored count, so the one that is not counted any more is the last.
- `RepeatsPaidByCrashes` (`CrashRepeatsOneSegment`), under the same two, wherever a crash strikes.
  `RepeatInv`: what completed is not ahead of the cursor (`NothingAhead`), a run at work is on the
  latest attempt of its request (`LatestAtWork`), and a final segment that completed ended its request
  (`FinalsEnd`). While the segment at the cursor has completed and no run is about to advance
  (`Redoing`), one crash more has happened than segments were repeated (`PaidFor`): only a crash can
  take away the run that was to advance (`AdvanceComes`), and only from there does a repeat complete.
- `ClaimsAreWorked` (`ClaimsWorked`) and `NoRequestForgotten` (`RequestsTended`), in any environment:
  the claim of a live instance is worked on by a run inside `runRequest`, and, until an instance
  crashes, so is every request that has not ended. `TendInv` joins the two, because a run yields only
  to a peer's claim (`LossesMarked`), which is then worked on by the peer. This is the safe half of
  `EventuallyTerminal`: there is always somebody to bring the request to its end.
- `CancellationsHaveRuns` (`CancellationsTended`), when callers do not abort the signal of their submit
  (`"caller-abort" \notin Environment`): until an instance crashes, a cancellation that is not
  acknowledged has a run inside `runRequest`, whose end acknowledges it: the safe half of
  `CancellationAcknowledged`. `CancelInv` adds that a cancelled request has its record and that
  a run aborted by a user, and one that will reject with an abort, has been.
- `LeasesAreOwn` (`OwnLeases`) and its corollary `StaleFailuresSpare` (`StaleFailureSparesLease`), when
  requests are recovered by the startup scan: the lease of a request is that of its run at work, or
  gone, so a failing execution cannot reclaim another's. `LeasesMove`: a step removes leases, or gives
  one to the attempt it creates.
- `NoClaimIsLost` (`NothingLost`), when requests are recovered by the startup scan: no run ever finds
  its claim taken, so `LostOwnerYields` has nothing to refute it there. `OwnClaims`: the claim of a
  recovery at work is its own or none.
- `AcknowledgedStops` (`AcknowledgedMeansStopped`), for a single instance: there the entry that
  `cancel` looks for is the only one, and a cancellation is acknowledged only when it is gone
  (`AckInv`).

The last three say where three of the disagreements of section 3 do not arise: it takes a request
recovered while a live instance runs it, or a cancellation on an instance that does not run it.

Of the first seven, the hypotheses of the last five are those of the runs that check them, or weaker:
`Failover` has
neither live recovery nor pushes, `SharedWorker` no loss of heartbeats, `Recovery` no expiry of claims.
Without them TLC refutes the properties, for the reasons given under the runs; a pushed failure or
result is recorded before the run consumes it, and a crash in between leaves it uncounted. What the
later ones prove is listed by no run; TLC found no violation of it on instances with one to three
coordinators, two segments and every kind of event between them, before it was proved. The proofs share three
stretches, stated once: what a step does to the runs (`RunsGoOn` and the forms around it), what a
turn of the attempt loop may leave, and which outcome of an attempt a step may record; each
invariant is then kept by reason of those, and action by action only where it is at stake.

**`DurableObjectRepository_proofs`**, from `RepositoryAssumption`: `LeaseIndexSound` (`LeaseIndexAgrees`,
which no run lists) and the refinement `ImplementsLiveRecords` (`ImplementsRepository`). The
invariant adds that only leases that
were put are in the index, so the entry of a fresh one is free, and that a proxy over a request has a
stored record to merge into.

**`Pipelines_proofs`**, from `NoWorkerAssumption`: `BusyWorkersAreServed`
(`BusyIsServed`) and `WorkersAreNotShared` (`WorkerNotShared`). The invariant adds that the segment
pipeline's worker stays busy until it is lost, and that a run which does not execute holds no worker.

`RoutesAreFound` (`RouteComplete`), from `SegmentsAssumption`, `SizesAssumption` and
`NoRouteAssumption` too, is about the pool and the ledger of every reachable state. The router only tries
the longest span of each worker, so the question is whether it can miss a cover in smaller pieces. It
cannot: of a cover, the worker of the first segment is given all that fits it, and what is left for
each other worker is a part of what it had (`LongestSpan`); this worker is a candidate, and the search
finds the rest by induction over the length of the suffix (`SearchComplete`). That the recursion
defines a function at all, that a sum over a set of segments is the sum of its parts (`SizeOfUnion`), and that
there is a best candidate, because the keys are compared lexicographically (`PrecedesOrder`), are
inductions over sizes as well: `Induction` says of a set of numbers what the library says of a
predicate, which the provers cannot instantiate.

`WorkResumes` (`ResumesAtCheckpoint`) rests on it: a route leads from the segment it was asked for to
the last one without a gap. Its invariant says
where a run stands at each await: what is about to execute is right behind the newest checkpoint
(`Newest`), or is a span of a route that leads to the end (`OnRoute`), and when the span pipeline retries,
the newest checkpoint is not before the segment the run resumed at.

**`Assurance_proofs`**, from `PolicyAssumption`, `EngineAssumption` and `RuntimeAssumption`:
`AlwaysRecoverable` (`ScopeRecoverable`), `RotationsKept` (`RotationKept`) and `ContractImplemented`
(`ImplementsContract`). The invariant has four parts beside the types. `ScopeInv`
is `OwnerInv` (a trigger that is not completed holds the scope, and there is at most one evaluation,
that of the active trigger, which every running row has until the engine crashes) and `ReplayInv` (the
ledger has sent every replay that the journal or a request names, which is why the next one is always
newer). `LedgerInv`: an answer under way is the outcome in the journal, or a failure, and so is what
the ledger reports. `RotationInv`: unless a seed was stored over a tick, evaluations work on the
current snapshot, which has the provider's credentials or a rotation to them under its key, and a seed
under validation that is not late shows the provider as it is. `ObservedInv`: once an evaluation has
asked for its health, both effects are behind it, and it observed the credentials they left. A commit
then moves the snapshot to exactly the provider's credentials.

**`Client_proofs`**, from `ConstantsSound` (no answer is the constant for "none"):
`TerminalEventsSound` (`OneTerminalEvent`), `InputsArePrivate` (`InputsStayPrivate`), `CancelledInputsStay`
(`NothingSentAfterCancel`), `DiagnosticsSound` (`DiagnosticsAgree`), `CancelledRunsEnd`
(`CancelledRunWaitsForNobody`). An operator of the module is a set of states, one for each way in which
the listeners it calls may interfere, and passes through states in which no step ends; so the
invariant, `RunSound` for every execution, is complemented by what holds in the middle of a handler
(`Active`, `Closing`, `Interfered`). `Emits` says what telling an event may do, whatever its listener
does; there is a lemma for each way to finish, and then one for each stretch between two awaits
(`FetchManifestLeaves` to `AfterServerLeaves`), composed as the code calls them. Each says that the
execution waits soundly, told of every cancellation (`Told`), or is over soundly (`Final`), and that the
other executions are as sound as before, which is what a `dispose()` from inside an event threatens.

`Client_proofs` also proves the manifest cache, from `BoundsAssumption` and `NothingAssumption`: `EtagsMatch`
(`EtagMatchesManifest`), `InvalidationsAreObeyed` (`InvalidateRefreshes`), `RequestsAreShared`
(`RequestIsShared`), `ManifestsOnlyAdvance` (`NeverRegresses`). The invariant follows the answers under
way: one that has not been aborted is at least as new as what is kept and as the last invalidation,
and a 304 names the manifest that its request was conditional on.

And the code cache, from `BudgetAssumption` and `NoDownloadAssumption`: `CodesAreKept` (`CodeCacheSound`).
Its account is a sum over a set of hashes of any sizes. What the sum of a set is, and that it is the sum
of two parts of it (`BytesOfWithout`, `BytesOfUnion`), is proved by induction over the size of the set,
in the way of `Pipelines_proofs`. An eviction splits the cache into what goes and what stays (`CodeListSplit`), and
`CacheCodeKeeps` follows the bytes through it. The invariant of the requests is that the map of
downloads names exactly the requests that may still store their code (`Downloading`): each is wanted by
a caller that has not left, since the last to leave aborts it in the step that forgets it.

**`WebWorkerSandbox_proofs`**, from `MaxQueueAssumption`, `CooperativeAssumption`, `NoRunAssumption` and,
for the composition, `NoMessageAssumption`: `Invariance` and `ImplementsExecutionContract` for the executor alone, where the worker may answer
anything; `SystemInvariance`, `CallsAreHeld` (`PendingIsHeld`), `WorkersDoNotLeak` (`OneWorker`) and
`SystemImplementsExecutionContract` (`ImplementsContract`) for its composition with the worker. The
invariant of an executor state is `Sound`: `Held` (the calls that wait are held, once), `Attached` (the
live worker is the attached one, and its status says so), `Owners` (a call that awaits the
initialisation for the slot awaits it once, is not queued and has not been sent) and `AbortsSeen` (a
call whose signal fired is settled or its cancel is under way). Handlers are sets of states, so each
has a lemma that every state it may leave is sound and what it settled was allowed; the lemmas are
composed the way the handlers call each other. `Owners` is what makes a late continuation harmless: it
finds its own call in the slot, or nothing to do. `Wires` types what is between page and worker.
`SlotIsServed` (`WorkerServesSlot`) and `CancelsStopTheWorker` (`CancelStopsWorker`) follow messages
through outbox, worker and answers, for the package's worker. `ServiceIInv`: the posted request has its
one share there (`OneShare`), every other call has none. A step of the page leaves the worker alive and
posts at most one message (`Steady`), or ends it and posts nothing to a new one (`Restarted`); each handler
has a lemma that says so, so the three steps of the worker are the only others to look at.
`DisposedIsFinal` (`DisposedStaysDown`, which no run lists) adds that `dispose()` empties slot and queue
(`Down`) and that no other handler leaves a disposed executor (`Stands`). `SlotStaysDriven` and
`SystemSlotStaysDriven` (`SlotIsDriven`, which no run lists; it held on the states of `Sandbox`) are the
safe half of `TimersSuffice`: the request in the slot has been sent to a ready worker, so that its
hard-kill timer is armed, or its owner is due or awaits an initialisation, and an initialisation that is
awaited is loading, with its timer, or about to be rejected. `Driven` adds that a ready worker has no
initialisation under way; each handler keeps it, because whoever takes the slot before the worker is
ready joins the wait in the same step (`WaitDriven`), and an initialisation that settles makes all who
waited due in the order in which they came (`WakeDriven`).

**`MoonBitWorkerSandbox_proofs`**, from `ModulesAssumption`: `CacheIsSound` (`CacheSound`) and `ImplementsExecutionContract` (`ImplementsContract`). The
lemmas about worker generations are those of `WebWorkerSandbox_proofs`, instantiated with a worker that
cannot be interrupted; `SameHandlers` says that the handlers of both instances are the same. `Prepared`
ties a call to its preparation: it is idle in the executor until it has entered, and pending to its
caller. `Fetches` is the cache: an entry per module and per fetch (`Cached`), a fetch is under way iff
it is in the cache, someone who has not gone on waits for it, and whoever awaits one awaits one that is
under way. From this follows that `publishBytes` never has to evict twice. The first entry that matches
(`RemoveFirstMatch`) is found by `LeastIndex`.

Only model-checked: liveness (`EventuallyTerminal`, `CancellationAcknowledged`, `TimersSuffice`) stays
with TLC: the proof system does not reason about fairness and `ENABLED`. `NoRequestForgotten` and `CancellationsHaveRuns` prove of the first two
that a run to bring them about is always there, and `SlotIsDriven` of the third that a timer or a
continuation is always there for the request in the slot; that they get there, and that the queue behind
the slot drains, is TLC's.

## 5. Not modelled, and why

Within modelled components: suppression records and metrics (logging), timestamps kept for
observability, the stream cursor (a copy of `currentSegment`), rejections of malformed calls before any
effect, the handles and promises returned to callers, failures of the renewal callback itself, the
chaining of timers beyond the host's maximal delay, the error code `server_network_failed`, which
`UnzenClient` does not tell from `server_fallback_failed` (both end an execution alike), and, in the Durable Object repository, the
keyspaces that are only put, read and deleted under their own key. The MoonBit worker answers each
message at once and is part of what its executor may receive.

Not modelled:

- The trust boundary (`durable-coordinator.ts`, `durable-coordinator-core.ts`) copies and checks inputs
  synchronously. Its one piece of state, a bridged signal, is subscribed to and read again in one
  synchronous stretch, so nothing can fall between.
- The adaptive chunk dispatcher is a synchronous planner: one call assigns the chunks of a simulated
  run by a floating-point score and returns a report.
- The swarm is a centralized simulation: one call gathers twice what participants answer in time. The
  gossip class is not wired to any transport. A peer's status is idle again while a second evaluation
  of the same peer still runs; nothing reads it in between.
- The server library is request-scoped: handlers over a registry filled at start-up. Its conditional
  answer to `GET /manifest` (`unzen-server.ts:613-645`) is in `ManifestFetcher`, whose `Respond` allows
  more: an answer with no `ETag`, which a proxy may have stripped, and a full one to a current `ETag`.
- Around continuous assurance: the adapters, which check the fields of what services answer, paging,
  whose failure changes nothing but its own record, and the canaries and rollout controllers, which
  drive a deployment step by step and keep no state of their own.
- Backends, manifests, evidence and report contracts, bundler, demo, harnesses and tools check fields,
  transform files or drive experiments. They make up most of the repository's lines, which is why the
  models cover a small share of them: the validators of manifests, evidence and reports alone are
  longer than everything modelled here.
