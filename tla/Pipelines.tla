----------------------------- MODULE Pipelines -----------------------------
(***************************************************************************)
(* Concurrent requests over one worker pool, run by the segment pipeline    *)
(* (LLM-proto/src/pipeline.ts, behind coordinator.ts) or by the span        *)
(* pipeline (span-pipeline.ts), while workers come, go and miss heartbeats. *)
(* A step runs up to the next await.  A worker that stops answering times   *)
(* out, so every execution ends; it ends well or with an error.  Invalid    *)
(* results and checkpoints that cannot be saved are errors too.             *)
(***************************************************************************)
EXTENDS SpanRouter

CONSTANTS
    Requests,
    MaxRetries,
    MaxChanges,     \* bound on the registrations, removals and missed heartbeats
    NoWorker

ASSUME NoWorkerAssumption == NoWorker \notin Workers

VARIABLES
    strategy,       \* which pipeline: "segments" or "spans"
    pool,
    ledger,         \* [Workers -> segments believed cached there]; unused by "segments"
    checkpoints,    \* CheckpointStore: [Requests -> segments that have one]
    runs,
    changes,
    lost            \* history: workers that were marked disconnected, removed or replaced

vars == <<strategy, pool, ledger, checkpoints, runs, changes, lost>>

Final == NumSegments - 1

\* worker, first, last: what is executing.  The span pipeline keeps its route and the segment it
\* resumes at, the segment pipeline routes one segment at a time.
Idle == [pc |-> "idle", attempt |-> 0, resume |-> 0, route |-> <<>>, at |-> 0,
         worker |-> NoWorker, first |-> 0, last |-> 0]

Init ==
    /\ strategy \in {"segments", "spans"}
    /\ pool \in [Workers -> {"absent", "idle"}]
    /\ ledger = [w \in Workers |-> {}]
    \* The span pipeline may be given a request some spans of which were completed before.
    /\ checkpoints \in [Requests -> {{}} \cup IF strategy = "spans" THEN {{0}} ELSE {}]
    /\ runs = [r \in Requests |-> Idle]
    /\ changes = 0
    /\ lost = {}

Ended == {"completed", "failed"}
Executing(r) == runs[r].pc = "executing"

\* Where a run resumes after the newest checkpoint before the final segment (latest, bounded).
ResumeAfter(saved) == 1 + Max({-1} \cup {s \in saved : s < Final})

-----------------------------------------------------------------------------
(* One attempt, from a pool and a run to the pools and runs it may lead to. *)

On(run, w, first, last) ==
    [run EXCEPT !.pc = "executing", !.worker = w, !.first = first, !.last = last]
\* Off the worker; a run that ended or is to be routed anew keeps nothing of its last assignment.
Off(run, pc) ==
    IF pc \in Ended THEN [Idle EXCEPT !.pc = pc]
    ELSE IF pc = "retry" THEN [Idle EXCEPT !.pc = pc, !.attempt = run.attempt, !.resume = run.resume]
    ELSE [run EXCEPT !.pc = pc, !.worker = NoWorker]

\* No worker: wait and try again, which takes an attempt, or fail.
NoneLeft(p, run) == {[pool |-> p, run |-> Off(run, IF run.attempt < MaxRetries THEN "delay" ELSE "failed")]}

TrySegment(p, run) ==
    LET fit == getAvailableWorker(p, Size[run.first])
    IN  IF fit = {} THEN NoneLeft(p, run)
        ELSE {[pool |-> markBusy(p, w), run |-> On(run, w, run.first, run.first)] : w \in fit}

\* The worker of a later span is not looked at again before it is marked busy.
StartSpan(p, run) ==
    LET span == run.route[run.at]
    IN  {[pool |-> markBusy(p, span.worker), run |-> On(run, span.worker, span.first, span.last)]}

TryRoute(p, run) ==
    LET route == computeRoute(p, ledger, run.resume)
    IN  IF route = NoRoute THEN NoneLeft(p, run)
        ELSE StartSpan(p, [run EXCEPT !.route = route, !.at = 1])

Try(p, run) == IF strategy = "segments" THEN TrySegment(p, run) ELSE TryRoute(p, run)

\* One of `nexts`; a request that ends frees its checkpoints.
Continue(r, nexts, saved) ==
    \E next \in nexts :
        /\ pool' = next.pool
        /\ runs' = [runs EXCEPT ![r] = next.run]
        /\ checkpoints' = [checkpoints EXCEPT ![r] = IF next.run.pc \in Ended THEN {} ELSE saved]

-----------------------------------------------------------------------------
(* The runs.                                                               *)

Submit(r) ==
    /\ runs[r].pc = "idle"
    /\ LET start == IF strategy = "segments" THEN 0 ELSE ResumeAfter(checkpoints[r])
       IN  Continue(r, Try(pool, [Idle EXCEPT !.resume = start, !.first = start]), checkpoints[r])
    /\ UNCHANGED <<strategy, ledger, changes, lost>>

\* A valid result is committed before its worker is free and before its cache is trusted.
Saved(run, saved) == IF run.last = Final THEN saved ELSE saved \cup {run.last}

SegmentSucceeds(r) ==
    /\ strategy = "segments" /\ Executing(r)
    /\ Continue(r,
           {[pool |-> markIdle(pool, runs[r].worker),
             run |-> Off(runs[r], IF runs[r].last = Final THEN "completed" ELSE "next")]},
           Saved(runs[r], checkpoints[r]))
    /\ UNCHANGED <<strategy, ledger, changes, lost>>

\* The continuation of executeAllSegments: the next segment, with attempts of its own, from the
\* checkpoint before it.
NextSegment(r) ==
    /\ runs[r].pc = "next"
    /\ Continue(r,
           LET run == [runs[r] EXCEPT !.first = runs[r].last + 1, !.attempt = 0]
           IN  IF runs[r].last \in checkpoints[r] THEN Try(pool, run)
               ELSE {[pool |-> pool, run |-> Off(run, "failed")]},
           checkpoints[r])
    /\ UNCHANGED <<strategy, ledger, changes, lost>>

\* Mutant: only the run learns that its worker failed.
SegmentFailsKeepsWorker(r) ==
    /\ strategy = "segments" /\ Executing(r)
    /\ Continue(r,
           IF runs[r].attempt < MaxRetries
           THEN Try(pool, [runs[r] EXCEPT !.attempt = @ + 1])
           ELSE {[pool |-> pool, run |-> Off(runs[r], "failed")]},
           checkpoints[r])
    /\ UNCHANGED <<strategy, ledger, changes, lost>>

\* The next attempt takes another worker before anything else happens.
SegmentFails(r) ==
    /\ strategy = "segments" /\ Executing(r)
    /\ LET p == markDisconnected(pool, runs[r].worker)
       IN  Continue(r,
               IF runs[r].attempt < MaxRetries
               THEN Try(p, [runs[r] EXCEPT !.attempt = @ + 1])
               ELSE {[pool |-> p, run |-> Off(runs[r], "failed")]},
               checkpoints[r])
    /\ lost' = lost \cup {runs[r].worker}
    /\ UNCHANGED <<strategy, ledger, changes>>

\* The next span of the route begins in the same step.
SpanSucceeds(r) ==
    /\ strategy = "spans" /\ Executing(r)
    /\ LET p == markIdle(pool, runs[r].worker)
       IN  Continue(r,
               IF runs[r].last = Final THEN {[pool |-> p, run |-> Off(runs[r], "completed")]}
               ELSE StartSpan(p, [runs[r] EXCEPT !.at = @ + 1]),
               Saved(runs[r], checkpoints[r]))
    /\ ledger' = [ledger EXCEPT ![runs[r].worker] = @ \cup runs[r].first..runs[r].last]
    /\ UNCHANGED <<strategy, changes, lost>>

SpanFails(r) ==
    /\ strategy = "spans" /\ Executing(r)
    /\ Continue(r,
           {[pool |-> markDisconnected(pool, runs[r].worker),
             run |-> Off(runs[r], IF runs[r].attempt < MaxRetries THEN "retry" ELSE "failed")]},
           checkpoints[r])
    /\ ledger' = [ledger EXCEPT ![runs[r].worker] = {}]
    /\ lost' = lost \cup {runs[r].worker}
    /\ UNCHANGED <<strategy, changes>>

\* Mutant: the retry forgets the spans completed since the run began.
RerouteFromStart(r) ==
    /\ runs[r].pc = "retry"
    /\ Continue(r, Try(pool, [runs[r] EXCEPT !.attempt = @ + 1]), checkpoints[r])
    /\ UNCHANGED <<strategy, ledger, changes, lost>>

\* The catch of executeWithRoute: resume after the newest checkpoint, on a new route.
Reroute(r) ==
    /\ runs[r].pc = "retry"
    /\ LET latest == ResumeAfter(checkpoints[r])
       IN  Continue(r,
               Try(pool, [runs[r] EXCEPT !.attempt = @ + 1, !.resume = IF latest > @ THEN latest ELSE @]),
               checkpoints[r])
    /\ UNCHANGED <<strategy, ledger, changes, lost>>

DelayEnds(r) ==
    /\ runs[r].pc = "delay"
    /\ Continue(r, Try(pool, [runs[r] EXCEPT !.attempt = @ + 1]), checkpoints[r])
    /\ UNCHANGED <<strategy, ledger, changes, lost>>

-----------------------------------------------------------------------------
(* The workers, as the coordinator hears of them.                          *)

PoolBecomes(p) == pool' = p /\ UNCHANGED <<strategy, ledger, checkpoints, runs>>

Change(w) == changes < MaxChanges /\ changes' = changes + 1

registerWorker(w) ==
    /\ Change(w)
    /\ PoolBecomes(register(pool, w))
    /\ lost' = IF pool[w] = "absent" THEN lost ELSE lost \cup {w}

removeWorker(w) ==
    /\ pool[w] # "absent" /\ Change(w)
    /\ PoolBecomes(unregister(pool, w))
    /\ lost' = lost \cup {w}

\* The monitor only marks the worker: nothing it executes is given to another one.
HeartbeatTimeout(w) ==
    /\ pool[w] \in {"idle", "busy"} /\ Change(w)
    /\ PoolBecomes(markDisconnected(pool, w))
    /\ lost' = lost \cup {w}

workerHeartbeat(w) ==
    /\ heartbeat(pool, w) # pool
    /\ PoolBecomes(heartbeat(pool, w))
    /\ UNCHANGED <<changes, lost>>

RunStep(r) ==
    \/ SegmentSucceeds(r) \/ NextSegment(r) \/ SegmentFails(r)
    \/ SpanSucceeds(r) \/ SpanFails(r) \/ Reroute(r) \/ DelayEnds(r)

Next ==
    \/ \E r \in Requests : Submit(r) \/ RunStep(r)
    \/ \E w \in Workers : registerWorker(w) \/ removeWorker(w) \/ HeartbeatTimeout(w) \/ workerHeartbeat(w)

Spec == Init /\ [][Next]_vars

-----------------------------------------------------------------------------
(* What the pipelines promise.                                             *)

\* The router finds a route exactly when the idle workers can cover what is left, and the route
\* covers it once with distinct workers that have the memory (span-router.ts:102-105).
RouteComplete ==
    \A start \in Segments :
        LET route == computeRoute(pool, ledger, start)
        IN  /\ route = NoRoute <=> ~Coverable(pool, start)
            /\ route # NoRoute => Covers(pool, route, start)

\* An execution starts right behind the newest checkpoint of its request, whatever failed before,
\* and a request that ended leaves no checkpoint (artifact-residency-routing.md:130-135).
ResumesAtCheckpoint ==
    \A r \in Requests :
        /\ Executing(r) => runs[r].first = ResumeAfter(checkpoints[r])
        /\ runs[r].pc \in Ended => checkpoints[r] = {}

\* A busy worker has a run that will free it: heartbeats bring back only disconnected workers, so
\* one that stays busy without a run is lost to the pool.
BusyIsServed ==
    \A w \in Workers : pool[w] = "busy" => \E r \in Requests : runs[r].worker = w

\* The segment pipeline gives a worker to two requests only after that worker was lost.
WorkerNotShared ==
    strategy = "segments" =>
        \A r, s \in Requests :
            r # s /\ Executing(r) /\ runs[r].worker = runs[s].worker => runs[r].worker \in lost

\* The same of both pipelines: the span pipeline breaks it, because a later span of a route starts
\* on a worker that may have been given to another request since the route was computed.
AssignedOnlyIdle ==
    \A r, s \in Requests :
        r # s /\ Executing(r) /\ runs[r].worker = runs[s].worker => runs[r].worker \in lost
=============================================================================
