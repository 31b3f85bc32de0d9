-------------------------- MODULE WebWorkerSandbox --------------------------
(***************************************************************************)
(* The browser-side executor (core/packages/client/src/                    *)
(* web-worker-sandbox.ts): one Web Worker generation at a time, one running *)
(* request, a bounded queue, lazy initialisation shared by all who wait for *)
(* it, and forced termination of a worker that does not answer.            *)
(*                                                                         *)
(* The handlers call each other synchronously (a failed generation drains  *)
(* the queue, which may start the next generation), so each is an operator *)
(* from an executor state to the set of states it may leave, and an action *)
(* picks one of them.  Only what follows an await is a step of its own: the *)
(* continuations in `jobs`, which run before the next timer or message.    *)
(***************************************************************************)
EXTENDS Naturals, FiniteSets, SequencesExt

CONSTANTS
    Calls,          \* calls of execute()
    MaxQueue,       \* maxQueueSize
    Cooperative,    \* TRUE: a cancel is sent to the worker; FALSE: the worker is terminated
    NoRun           \* no running request

ASSUME MaxQueueAssumption == MaxQueue \in Nat
ASSUME CooperativeAssumption == Cooperative \in BOOLEAN
ASSUME NoRunAssumption == NoRun \notin
    [call : Calls, posted : BOOLEAN, cancelling : BOOLEAN]

VARIABLES
    exec,           \* the executor: the fields of the class and what its promises still owe
    aborted         \* calls whose AbortSignal has fired

vars == <<exec, aborted>>

Kinds == {"value", "cancelled", "deadline", "runtime", "function"}
Settled == Kinds
Statuses == {"empty", "initializing", "ready", "disposed"}
Runs == [call : Calls, posted : BOOLEAN, cancelling : BOOLEAN]

\* Who awaits the shared init promise: the request that owns the slot, or drainQueue.
Drainer == [role |-> "drain"]
Owner(c) == [role |-> "owner", call |-> c]
Waiters == {Drainer} \cup {Owner(c) : c \in Calls}

\* Messages to the worker and, further down, its responses.
Requests == [type : {"init"}] \cup [type : {"execute", "cancel"}, call : Calls]

Responses ==
    [type : {"malformed", "stale", "error"}]
    \cup [type : {"init-result"}, ok : BOOLEAN]
    \cup [type : {"execute-result"}, call : Calls, kind : Kinds \ {"cancelled"}]
    \cup [type : {"cancel-result"}, call : Calls, ok : BOOLEAN]

-----------------------------------------------------------------------------
(* Helpers on an executor state.                                           *)

\* resolve() or reject() of the promises of the calls in C.  A promise settles once; a second
\* attempt has no effect and is remembered in `again`.
Settle(s, C, kind) ==
    [s EXCEPT !.outcome = [c \in Calls |->
                              IF c \in C /\ s.outcome[c] = "pending" THEN kind ELSE s.outcome[c]],
              !.again = @ \cup {c \in C : s.outcome[c] # "pending"}]

\* Mutant: the handlers are detached but the worker is not terminated.
TeardownLeaks(s) ==
    [s EXCEPT !.worker = 0, !.outbox = <<>>, !.init = "none"]

\* teardownWorker: detach the handlers and terminate; responses under way are lost.
Teardown(s) ==
    [s EXCEPT !.live = @ \ {s.worker}, !.worker = 0, !.outbox = <<>>, !.init = "none"]

\* The request leaves the running slot and its promise settles.
FinishRun(s, kind) ==
    [Settle(s, {s.running.call}, kind) EXCEPT !.running = NoRun]

\* Mutant: the queue is dropped with its promises.
RejectAllQueuedForgets(s, kind) == [s EXCEPT !.queue = <<>>]

\* rejectAllQueued
RejectAllQueued(s, kind) ==
    [Settle(s, ToSet(s.queue), kind) EXCEPT !.queue = <<>>]

\* ensureInitialized and the synchronous part of doInit.  Creating the worker or sending it the
\* init message may throw, which rejects the init promise at once.
EnsureInitialized(s) ==
    IF s.init # "none" THEN {s}
    ELSE LET g == s.generation + 1 IN
         { [s EXCEPT !.generation = g, !.status = "initializing", !.worker = g,
                     !.live = @ \cup {g}, !.init = "loading", !.outbox = <<[type |-> "init"]>>],
           [s EXCEPT !.generation = g, !.status = "empty", !.init = "rejecting"] }

\* postExecuteMessage when postMessage succeeds: the hard-kill timer is armed.
Posted(s, c) ==
    [s EXCEPT !.running = [call |-> c, posted |-> TRUE, cancelling |-> FALSE],
              !.outbox = Append(@, [type |-> "execute", call |-> c])]

\* drainQueue on a ready worker: a request that cannot be sent is rejected and the next one is tried.
StartNext(s) ==
    { LET unsent == SubSeq(s.queue, 1, k)
          t == Settle(s, ToSet(unsent), "runtime")
      IN  IF k = Len(s.queue) THEN [t EXCEPT !.queue = <<>>]
          ELSE Posted([t EXCEPT !.queue = SubSeq(s.queue, k + 2, Len(s.queue))], s.queue[k + 1])
      : k \in 0..Len(s.queue) }

\* drainQueue up to its first await.
Drain(s) ==
    IF s.status = "disposed" \/ s.running # NoRun \/ s.queue = <<>> THEN {s}
    ELSE IF s.status = "ready" THEN StartNext(s)
    ELSE { [t EXCEPT !.waiters = Append(@, Drainer)] : t \in EnsureInitialized(s) }

\* postExecuteMessage for the request that holds the slot.
Post(s, c) ==
    {Posted(s, c)} \cup Drain(FinishRun(s, "runtime"))

\* failGeneration: settle the running request, terminate the worker, restart for the queue.
FailGeneration(s, kind) ==
    LET t == IF s.running = NoRun THEN s ELSE FinishRun(s, kind)
    IN  Drain([Teardown(t) EXCEPT !.status = "empty"])

\* The init promise settles: its waiters become continuations, in the order in which they came.
WakeWaiters(s, ok) ==
    [s EXCEPT !.jobs = @ \o [i \in 1..Len(s.waiters) |-> [waiter |-> s.waiters[i], ok |-> ok]],
              !.waiters = <<>>, !.init = "none"]

InitFails(s) ==
    WakeWaiters([Teardown(s) EXCEPT !.status = IF @ = "disposed" THEN @ ELSE "empty"], FALSE)

InitSucceeds(s) ==
    WakeWaiters([s EXCEPT !.status = "ready"], TRUE)

-----------------------------------------------------------------------------
(* What the application does.                                              *)

Init ==
    /\ exec = [status |-> "empty", generation |-> 0, worker |-> 0, live |-> {},
               running |-> NoRun, queue |-> <<>>, init |-> "none", waiters |-> <<>>,
               jobs |-> <<>>, outbox |-> <<>>,
               outcome |-> [c \in Calls |-> "idle"], again |-> {}]
    /\ aborted = {}

\* startRequest from execute(): the call takes the slot before it may have to wait for the worker.
StartRequest(s, c) ==
    LET t == [s EXCEPT !.running = [call |-> c, posted |-> FALSE, cancelling |-> FALSE]]
    IN  IF s.status = "ready" THEN Post(t, c)
        ELSE { [u EXCEPT !.waiters = Append(@, Owner(c))] : u \in EnsureInitialized(t) }

\* execute(): refused, queued, or started at once.
ExecuteCall(s, c) ==
    IF s.status = "disposed" THEN {Settle(s, {c}, "runtime")}
    ELSE IF c \in aborted THEN {Settle(s, {c}, "cancelled")}
    ELSE IF s.status # "initializing" /\ s.running = NoRun THEN StartRequest(s, c)
    ELSE IF Len(s.queue) >= MaxQueue THEN {Settle(s, {c}, "runtime")}
    ELSE {[s EXCEPT !.queue = Append(@, c)]}

Execute(c) ==
    /\ exec.outcome[c] = "idle"
    /\ exec' \in ExecuteCall([exec EXCEPT !.outcome[c] = "pending"], c)
    /\ UNCHANGED aborted

\* initiateCancel: tell the worker and arm the acknowledgement timer; if the message cannot be
\* sent, or if the worker cannot be interrupted at all, the generation is terminated.
InitiateCancel(s, c) ==
    LET t == [s EXCEPT !.running.cancelling = TRUE] IN
    FailGeneration(t, "cancelled")
    \cup (IF Cooperative
          THEN {[t EXCEPT !.outbox = Append(@, [type |-> "cancel", call |-> c])]}
          ELSE {})

\* The abort listener of a pending request.
AbortPending(s, c) ==
    IF s.running # NoRun /\ s.running.call = c
    THEN IF s.status = "ready" /\ s.running.posted THEN InitiateCancel(s, c)
         ELSE Drain(FinishRun(s, "cancelled"))
    ELSE IF c \in ToSet(s.queue)
    THEN {[Settle(s, {c}, "cancelled") EXCEPT
              !.queue = RemoveAt(@, CHOOSE i \in DOMAIN s.queue : s.queue[i] = c)]}
    ELSE {s}

Abort(c) ==
    /\ c \notin aborted
    /\ exec.outcome[c] \in {"idle", "pending"}
    /\ aborted' = aborted \cup {c}
    /\ IF exec.outcome[c] = "pending" THEN exec' \in AbortPending(exec, c) ELSE UNCHANGED exec

Dispose ==
    /\ exec.status # "disposed"
    /\ LET ended == IF exec.running = NoRun THEN exec ELSE FinishRun(exec, "runtime")
           s == [RejectAllQueued(ended, "runtime") EXCEPT !.status = "disposed"]
       IN  exec' = IF exec.init = "loading" THEN InitFails(s) ELSE
                   [Teardown(s) EXCEPT !.init = s.init]
    /\ UNCHANGED aborted

-----------------------------------------------------------------------------
(* Continuations of the init promise.                                      *)

\* No continuation is due: a timer, a message or a worker error may be dispatched.
Quiet == exec.jobs = <<>> /\ exec.init # "rejecting"

\* The init promise of a worker that could not be created is rejected.
InitRejects ==
    /\ exec.init = "rejecting"
    /\ exec' = WakeWaiters(exec, FALSE)
    /\ UNCHANGED aborted

\* Mutant: the request that began the initialisation ignores its failure.
OwnerIgnoresFailure(s, c, ok) ==
    IF s.running = NoRun \/ s.running.call # c \/ ~ok THEN {s} ELSE Post(s, c)

\* The init owner: its request is still in the slot, or it was settled meanwhile.
OwnerContinues(s, c, ok) ==
    IF s.running = NoRun \/ s.running.call # c THEN {s}
    ELSE IF ~ok THEN {RejectAllQueued(FinishRun(s, "runtime"), "runtime")}
    ELSE IF s.status # "ready" THEN {FinishRun(s, "runtime")}
    ELSE Post(s, c)

DrainContinues(s, ok) ==
    IF ok THEN Drain(s) ELSE {RejectAllQueued(s, "runtime")}

Continue ==
    /\ exec.jobs # <<>>
    /\ LET j == Head(exec.jobs)
           s == [exec EXCEPT !.jobs = Tail(@)]
       IN  exec' \in IF j.waiter.role = "owner" THEN OwnerContinues(s, j.waiter.call, j.ok)
                     ELSE DrainContinues(s, j.ok)
    /\ UNCHANGED aborted

-----------------------------------------------------------------------------
(* Timers.                                                                 *)

InitTimeout ==
    /\ Quiet
    /\ exec.init = "loading"
    /\ exec' = InitFails(exec)
    /\ UNCHANGED aborted

\* Mutant: the deadline settles the request and leaves its worker running.
HardTimeoutKeepsWorker ==
    /\ Quiet
    /\ exec.running # NoRun
    /\ exec.running.posted
    /\ exec' \in Drain(FinishRun(exec, "deadline"))
    /\ UNCHANGED aborted

\* handleHardTimeout
HardTimeout ==
    /\ Quiet
    /\ exec.running # NoRun
    /\ exec.running.posted
    /\ exec' \in FailGeneration(exec, IF exec.running.cancelling THEN "cancelled" ELSE "deadline")
    /\ UNCHANGED aborted

\* Mutant: a worker that does not acknowledge is believed to have stopped.
CancelAckBelieved ==
    /\ Quiet
    /\ exec.running # NoRun
    /\ exec.running.cancelling
    /\ exec' \in Drain(FinishRun(exec, "cancelled"))
    /\ UNCHANGED aborted

\* The timer that initiateCancel armed.
CancelAckTimeout ==
    /\ Quiet
    /\ exec.running # NoRun
    /\ exec.running.cancelling
    /\ exec' \in FailGeneration(exec, "cancelled")
    /\ UNCHANGED aborted

-----------------------------------------------------------------------------
(* Responses of the worker.                                                *)

\* The handler doInit installs.
InitMessage(s, m) ==
    IF m.type \in {"malformed", "error"} THEN {InitFails(s)}
    ELSE IF m.type # "init-result" THEN {s}
    ELSE IF m.ok THEN {InitSucceeds(s)} ELSE {InitFails(s)}

\* Mutant: a result that arrives after the cancel is committed.
HandleExecuteResultLate(s, m) ==
    IF s.running = NoRun THEN {s}
    ELSE IF m.call # s.running.call THEN FailGeneration(s, "runtime")
    ELSE Drain(FinishRun(s, m.kind))

\* handleExecuteResult: a result after a cancel is not committed.
HandleExecuteResult(s, m) ==
    IF s.running = NoRun THEN {s}
    ELSE IF m.call # s.running.call THEN FailGeneration(s, "runtime")
    ELSE Drain(FinishRun(s, IF s.running.cancelling THEN "cancelled" ELSE m.kind))

\* handleCancelResult: only the answer to a cancel that was sent is accepted.
HandleCancelResult(s, m) ==
    IF s.running = NoRun \/ m.call # s.running.call THEN {s}
    ELSE IF ~s.running.cancelling THEN FailGeneration(s, "runtime")
    ELSE IF ~m.ok THEN FailGeneration(s, "cancelled")
    ELSE Drain(FinishRun(s, "cancelled"))

\* The handlers setupMessageHandler installs.
ReadyMessage(s, m) ==
    IF m.type \in {"malformed", "error"} THEN FailGeneration(s, "runtime")
    ELSE IF m.type = "execute-result" THEN HandleExecuteResult(s, m)
    ELSE IF m.type = "cancel-result" /\ Cooperative THEN HandleCancelResult(s, m)
    ELSE {s}

\* onmessage and onerror of the attached worker.
OnMessage(m) ==
    /\ Quiet
    /\ exec.worker # 0
    /\ exec' \in IF exec.status = "initializing" THEN InitMessage(exec, m) ELSE ReadyMessage(exec, m)
    /\ UNCHANGED aborted

-----------------------------------------------------------------------------

Timers == InitTimeout \/ HardTimeout \/ CancelAckTimeout
Continuations == InitRejects \/ Continue

Next ==
    \/ \E c \in Calls : Execute(c) \/ Abort(c)
    \/ Dispose
    \/ Continuations
    \/ Timers
    \/ \E m \in Responses : OnMessage(m)

Spec == Init /\ [][Next]_vars

\* Timers fire and continuations run; nothing is assumed of the worker.
Fairness ==
    /\ WF_vars(Continuations)
    /\ WF_vars(InitTimeout)
    /\ WF_vars(HardTimeout)
    /\ WF_vars(CancelAckTimeout)

FairSpec == Spec /\ Fairness

-----------------------------------------------------------------------------
(* Properties.                                                             *)

Executors ==
    [status : Statuses, generation : Nat, worker : Nat, live : SUBSET Nat,
     running : Runs \cup {NoRun}, queue : Seq(Calls), init : {"none", "loading", "rejecting"},
     waiters : Seq(Waiters), jobs : Seq([waiter : Waiters, ok : BOOLEAN]), outbox : Seq(Requests),
     outcome : [Calls -> {"idle", "pending"} \cup Kinds], again : SUBSET Calls]

TypeOK == exec \in Executors /\ aborted \subseteq Calls

Pending == {c \in Calls : exec.outcome[c] = "pending"}
RunningCalls == IF exec.running = NoRun THEN {} ELSE {exec.running.call}

\* No call is lost and none is held twice: the calls that wait for an outcome are the one in the
\* running slot and those in the queue (an entry dropped or kept by a handler would break this), and
\* no handler settles a call again: cancel, result, timer, crash and disposal race for each.
PendingIsHeld ==
    /\ Pending = RunningCalls \cup ToSet(exec.queue)
    /\ RunningCalls \cap ToSet(exec.queue) = {}
    /\ \A i, j \in DOMAIN exec.queue : exec.queue[i] = exec.queue[j] => i = j
    /\ exec.again = {}

\* Workers do not leak: at most one is alive, the one whose handlers are attached, and only while
\* the executor initialises or is ready.
OneWorker ==
    /\ exec.live = IF exec.worker = 0 THEN {} ELSE {exec.worker}
    /\ (exec.status \in {"initializing", "ready"}) = (exec.worker # 0)

\* A disposed executor is not resurrected by a late initialisation, timer or message: it holds no
\* worker and no call.
DisposedStaysDown ==
    [][exec.status = "disposed" =>
         exec'.status = "disposed" /\ exec'.live = {} /\ exec'.running = NoRun
             /\ exec'.queue = <<>>]_vars

\* The request that holds the running slot settles, whatever the worker does.
RunningSettles ==
    \A c \in Calls : (exec.running # NoRun /\ exec.running.call = c) ~> exec.outcome[c] \in Settled

DrainerWaits ==
    \/ \E i \in DOMAIN exec.waiters : exec.waiters[i] = Drainer
    \/ \E i \in DOMAIN exec.jobs : exec.jobs[i].waiter = Drainer

\* The slot is never left to the worker alone.  Its request has been sent to a ready worker, whose
\* hard-kill timer is armed, or its owner awaits an initialisation; and an initialisation that is
\* awaited is loading, with its timer, or about to reject, or has settled.
SlotIsDriven ==
    /\ exec.running # NoRun =>
         IF exec.running.posted THEN exec.status = "ready"
         ELSE \/ \E i \in DOMAIN exec.jobs : exec.jobs[i].waiter = Owner(exec.running.call)
              \/ \E i \in DOMAIN exec.waiters : exec.waiters[i] = Owner(exec.running.call)
    /\ exec.waiters # <<>> => exec.init # "none"

\* A queued request settles if, while it is queued, some request runs or drainQueue waits for the
\* worker.
QueueDrains ==
    \A c \in Calls :
        (c \in ToSet(exec.queue) /\ (exec.running # NoRun \/ DrainerWaits))
            ~> exec.outcome[c] \in Settled

\* Timers alone bring the work to its end: a worker that never answers, or answers anything,
\* keeps no running request from settling and no queue with a drainer from being drained
\* (handleHardTimeout, drainQueue).
TimersSuffice == RunningSettles /\ QueueDrains

\* The contract of ExecuteOptions.signal (sandbox-executor.ts): a call that is pending when its
\* signal fires settles as cancelled, never as another failure, unless the executor is disposed.
\* A crash or a malformed response between the abort and its acknowledgement settles it as a
\* runtime error.
AbortSettlesCancelled ==
    [][exec'.status # "disposed" =>
         \A c \in aborted : exec.outcome[c] = "pending" /\ exec'.outcome[c] # "pending"
                              => exec'.outcome[c] = "cancelled"]_vars

\* The queue is a FIFO: a new call does not take the running slot while others are queued.
NoOvertaking ==
    [][\A c \in Calls :
         exec.outcome[c] = "idle" /\ exec.running = NoRun /\ exec'.running # NoRun
             /\ exec'.running.call = c => exec.queue = <<>>]_vars

\* The executor keeps the promise of the SandboxExecutor interface.
Contract == INSTANCE ExecutionContract WITH
    promise <- exec.outcome, Commits <- {"value", "function", "deadline"},
    Failures <- {"cancelled", "runtime"}
ImplementsContract == Contract!Spec

\* What the comments promise of every call: execute() "lets callers cancel promptly instead of
\* hanging on the init await", and a failed initialisation rejects "the init-owner and queued
\* requests".
EveryCallSettles ==
    \A c \in Calls : exec.outcome[c] = "pending" ~> exec.outcome[c] \in Settled
=============================================================================
