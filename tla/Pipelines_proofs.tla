-------------------------- MODULE Pipelines_proofs --------------------------
(***************************************************************************)
(* Proofs about the worker pool and the checkpoints under concurrent runs,  *)
(* for any number of requests, workers, segments, retries and changes of    *)
(* the pool.  For the pool a route may name any worker: nothing about the   *)
(* router is used.  The checkpoints rely on what its routes cover.          *)
(*                                                                         *)
(* The router finds a route exactly where the idle workers can cover what   *)
(* is left, though it only tries the longest span of each worker: whatever  *)
(* division there is, giving its first worker all that fits it leaves less  *)
(* to the others (LongestSpan).  Sums over segments, the choice of the best *)
(* candidate and the recursion itself are inductions over sizes.            *)
(***************************************************************************)
EXTENDS Pipelines, SequenceTheorems, FiniteSetTheorems, TLAPS

Pools == [Workers -> WorkerStatus]
PCs == {"idle", "next", "delay", "retry", "executing"} \cup Ended

\* A run's record; only its place and its worker matter here.
RunShape(x) ==
    /\ x \in [pc : PCs, attempt : {x.attempt}, resume : {x.resume}, route : {x.route}, at : {x.at},
              worker : {x.worker}, first : {x.first}, last : {x.last}]
    /\ x.pc # "executing" => x.worker = NoWorker

Shapes ==
    /\ pool \in Pools
    /\ runs = [r \in Requests |-> runs[r]]
    /\ \A r \in Requests : RunShape(runs[r])

\* The segment pipeline's workers stay busy until they are lost.
WorkersHeld ==
    strategy = "segments" =>
        \A r \in Requests : Executing(r) =>
            /\ runs[r].worker \in Workers
            /\ runs[r].worker \notin lost => pool[runs[r].worker] = "busy"

\* The inductive invariant.
IInv == Shapes /\ BusyIsServed /\ WorkersHeld /\ WorkerNotShared

-----------------------------------------------------------------------------
(* The pool.                                                               *)

USE NoWorkerAssumption

\* A mark changes the status of a registered worker and of no other.
LEMMA MarkOne ==
  ASSUME NEW p \in Pools, NEW w, NEW status \in WorkerStatus
  PROVE  /\ Mark(p, w, status) \in Pools
         /\ \A v \in Workers : Mark(p, w, status)[v] = IF v = w /\ p[v] # "absent" THEN status ELSE p[v]
BY DEF Mark, Pools

\* A worker that is chosen is idle.
LEMMA ChosenIsIdle ==
  ASSUME NEW p \in Pools, NEW required, NEW w \in getAvailableWorker(p, required)
  PROVE  w \in Workers /\ p[w] = "idle"
BY DEF getAvailableWorker

-----------------------------------------------------------------------------
(* Attempts.                                                               *)

\* `next` is p with at most one more busy worker, the one that its run executes on; the segment
\* pipeline takes an idle one.
Assigns(p, next) ==
    /\ RunShape(next.run)
    /\ next.run.pc # "executing" => next.pool = p
    /\ next.run.pc = "executing" => next.pool = markBusy(p, next.run.worker)
    /\ next.run.pc = "executing" /\ strategy = "segments" =>
          next.run.worker \in Workers /\ p[next.run.worker] = "idle"

LEMMA OffShape ==
  ASSUME NEW run, RunShape(run), NEW pc \in PCs \ {"executing"}
  PROVE  RunShape(Off(run, pc)) /\ Off(run, pc).pc = pc
<1>1. CASE pc \in Ended
  BY <1>1 DEF Off, RunShape, Idle, PCs, Ended
<1>2. CASE pc = "retry"
  BY <1>2 DEF Off, RunShape, Idle, PCs, Ended
<1>3. CASE pc \notin Ended \cup {"retry"}
  BY <1>3 DEF Off, RunShape, PCs, Ended
<1> QED
  BY <1>1, <1>2, <1>3

LEMMA OnShape ==
  ASSUME NEW run, RunShape(run), NEW w, NEW first, NEW last
  PROVE  /\ RunShape(On(run, w, first, last))
         /\ On(run, w, first, last).pc = "executing" /\ On(run, w, first, last).worker = w
BY DEF On, RunShape, PCs

LEMMA OffAssigns ==
  ASSUME NEW p, NEW run, RunShape(run), NEW pc \in PCs \ {"executing"}
  PROVE  Assigns(p, [pool |-> p, run |-> Off(run, pc)])
BY OffShape DEF Assigns

LEMMA NoneLeftAssigns ==
  ASSUME NEW p, NEW run, RunShape(run), NEW next \in NoneLeft(p, run)
  PROVE  Assigns(p, next)
<1>1. next = [pool |-> p, run |-> Off(run, "delay")] \/ next = [pool |-> p, run |-> Off(run, "failed")]
  BY DEF NoneLeft
<1>2. "delay" \in PCs \ {"executing"} /\ "failed" \in PCs \ {"executing"}
  BY DEF PCs, Ended
<1> QED
  BY <1>1, <1>2, OffAssigns

LEMMA TryAssigns ==
  ASSUME NEW p \in Pools, NEW run, RunShape(run), NEW next \in Try(p, run)
  PROVE  Assigns(p, next)
<1>1. CASE strategy = "segments"
  <2> DEFINE fit == getAvailableWorker(p, Size[run.first])
  <2>1. CASE fit = {}
    BY <1>1, <2>1, NoneLeftAssigns DEF Try, TrySegment
  <2>2. CASE fit # {}
    <3>1. PICK w \in fit : next = [pool |-> markBusy(p, w), run |-> On(run, w, run.first, run.first)]
      BY <1>1, <2>2 DEF Try, TrySegment
    <3>2. w \in Workers /\ p[w] = "idle"
      BY ChosenIsIdle
    <3> QED
      BY <3>1, <3>2, OnShape DEF Assigns
  <2> QED
    BY <2>1, <2>2
<1>2. CASE strategy # "segments"
  <2> DEFINE route == computeRoute(p, ledger, run.resume)
             new == [run EXCEPT !.route = route, !.at = 1]
  <2>1. CASE route = NoRoute
    BY <1>2, <2>1, NoneLeftAssigns DEF Try, TryRoute
  <2>2. CASE route # NoRoute
    <3>1. next \in StartSpan(p, new)
      BY <1>2, <2>2 DEF Try, TryRoute
    <3>2. RunShape(new)
      BY DEF RunShape
    <3> HIDE DEF new
    <3>3. PICK w, first, last : next = [pool |-> markBusy(p, w), run |-> On(new, w, first, last)]
      BY <3>1 DEF StartSpan
    <3> QED
      BY <1>2, <3>2, <3>3, OnShape DEF Assigns
  <2> QED
    BY <2>1, <2>2
<1> QED
  BY <1>1, <1>2

LEMMA StartAssigns ==
  ASSUME NEW p, NEW run, RunShape(run), strategy # "segments", NEW next \in StartSpan(p, run)
  PROVE  Assigns(p, next)
<1>1. PICK w, first, last : next = [pool |-> markBusy(p, w), run |-> On(run, w, first, last)]
  BY DEF StartSpan
<1> QED
  BY <1>1, OnShape DEF Assigns

-----------------------------------------------------------------------------
(* One step of a run.                                                      *)

\* The pool without what r held of it.
Released(p, r) ==
    /\ p \in Pools
    /\ \A w \in Workers :
          /\ p[w] = "busy" => pool[w] = "busy" /\ w # runs[r].worker
          /\ w # runs[r].worker => p[w] = pool[w]

\* A run that gives up its worker and perhaps takes another keeps the invariant.
LEMMA StepIInv ==
  ASSUME IInv, NEW r \in Requests, NEW p, Released(p, r), NEW next, Assigns(p, next),
         pool' = next.pool, runs' = [runs EXCEPT ![r] = next.run], strategy' = strategy,
         lost \subseteq lost'
  PROVE  IInv'
<1>1. /\ runs'[r] = next.run
      /\ \A s \in Requests \ {r} : runs'[s] = runs[s]
      /\ runs' = [s \in Requests |-> runs'[s]]
  BY DEF IInv, Shapes
<1>2. /\ pool' \in Pools
      /\ \A w \in Workers : pool'[w] = IF next.run.pc = "executing" /\ w = next.run.worker /\ p[w] # "absent"
                                       THEN "busy" ELSE p[w]
  <2>1. p \in Pools /\ "busy" \in WorkerStatus
    BY DEF Released, WorkerStatus
  <2> QED
    BY <2>1, MarkOne DEF Assigns, markBusy
<1>3. Shapes'
  BY <1>1, <1>2 DEF IInv, Shapes, Assigns, RunShape
<1>4. BusyIsServed'
  <2> SUFFICES ASSUME NEW w \in Workers, pool'[w] = "busy"
               PROVE  \E s \in Requests : runs'[s].worker = w
    BY DEF BusyIsServed
  <2>1. CASE next.run.pc = "executing" /\ w = next.run.worker
    BY <1>1, <2>1
  <2>2. CASE ~(next.run.pc = "executing" /\ w = next.run.worker)
    <3>1. pool[w] = "busy" /\ w # runs[r].worker
      BY <1>2, <2>2 DEF Released
    <3>2. PICK s \in Requests : runs[s].worker = w
      BY <3>1 DEF IInv, BusyIsServed
    <3> QED
      BY <1>1, <3>1, <3>2
  <2> QED
    BY <2>1, <2>2
\* Another run's worker that is not lost is not r's, neither before nor after.
<1>5. ASSUME strategy = "segments", NEW s \in Requests \ {r}, Executing(s)', runs'[s].worker \notin lost'
      PROVE  /\ runs'[s].worker \in Workers
             /\ p[runs'[s].worker] = "busy"
  <2>1. runs'[s] = runs[s] /\ Executing(s)
    BY <1>1, <1>5 DEF Executing
  <2>2. runs[s].worker \in Workers /\ runs[s].worker \notin lost /\ pool[runs[s].worker] = "busy"
    BY <1>5, <2>1 DEF IInv, WorkersHeld
  <2>3. runs[s].worker # runs[r].worker
    <3>1. CASE Executing(r)
      BY <1>5, <2>1, <2>2, <3>1 DEF IInv, WorkerNotShared
    <3>2. CASE ~Executing(r)
      BY <2>2, <3>2 DEF IInv, Shapes, RunShape, Executing
    <3> QED
      BY <3>1, <3>2
  <2> QED
    BY <2>1, <2>2, <2>3 DEF Released
<1>6. WorkersHeld'
  <2> SUFFICES ASSUME strategy = "segments", NEW s \in Requests, Executing(s)'
               PROVE  /\ runs'[s].worker \in Workers
                      /\ runs'[s].worker \notin lost' => pool'[runs'[s].worker] = "busy"
    BY DEF WorkersHeld
  <2>1. CASE s = r
    BY <1>1, <1>2, <2>1 DEF Assigns, Executing
  <2>2. CASE s # r
    <3>1. runs'[s].worker \in Workers
      BY <1>1, <2>2 DEF IInv, WorkersHeld, Executing
    <3> QED
      BY <1>2, <1>5, <2>2, <3>1
  <2> QED
    BY <2>1, <2>2
<1>7. WorkerNotShared'
  <2> SUFFICES ASSUME strategy = "segments", NEW s \in Requests, NEW t \in Requests, s # t,
                      Executing(s)', runs'[s].worker = runs'[t].worker
               PROVE  runs'[s].worker \in lost'
    BY DEF WorkerNotShared
  <2>1. runs'[s].worker \in Workers
    BY <1>6 DEF WorkersHeld
  <2>2. Executing(t)'
    BY <1>3, <2>1 DEF Shapes, RunShape, Executing
  <2>3. CASE s = r
    BY <1>1, <1>5, <2>2, <2>3 DEF Assigns, Executing
  <2>4. CASE t = r
    BY <1>1, <1>5, <2>2, <2>4 DEF Assigns, Executing
  <2>5. CASE s # r /\ t # r
    BY <1>1, <2>5 DEF IInv, WorkerNotShared, Executing
  <2> QED
    BY <2>3, <2>4, <2>5
<1> QED
  BY <1>3, <1>4, <1>6, <1>7 DEF IInv

\* A run that is not executing holds nothing.
LEMMA NothingToRelease ==
  ASSUME IInv, NEW r \in Requests, ~Executing(r)
  PROVE  Released(pool, r)
BY DEF IInv, Shapes, RunShape, Released, Executing

LEMMA MarkReleases ==
  ASSUME IInv, NEW r \in Requests, NEW status \in WorkerStatus \ {"busy"}
  PROVE  Released(Mark(pool, runs[r].worker, status), r)
<1>1. pool \in Pools
  BY DEF IInv, Shapes
<1> QED
  BY <1>1, MarkOne DEF Released

\* Continue, with every outcome an assignment.
LEMMA ContinueIInv ==
  ASSUME IInv, NEW r \in Requests, NEW p, Released(p, r), NEW nexts, NEW saved,
         \A next \in nexts : Assigns(p, next), Continue(r, nexts, saved),
         strategy' = strategy, lost \subseteq lost'
  PROVE  IInv'
<1>1. PICK next \in nexts : pool' = next.pool /\ runs' = [runs EXCEPT ![r] = next.run]
  BY DEF Continue
<1> QED
  BY <1>1, StepIInv

-----------------------------------------------------------------------------
(* Each action keeps it.                                                   *)

LEMMA InitIInv == Init => IInv
<1> SUFFICES ASSUME Init PROVE IInv
  OBVIOUS
<1>1. Shapes
  BY DEF Init, Shapes, Pools, WorkerStatus, RunShape, Idle, PCs
<1>2. BusyIsServed /\ WorkersHeld /\ WorkerNotShared
  BY DEF Init, BusyIsServed, WorkersHeld, WorkerNotShared, Executing, Idle
<1> QED
  BY <1>1, <1>2 DEF IInv

LEMMA RunStepIInv ==
  ASSUME IInv, NEW r \in Requests, Submit(r) \/ RunStep(r)
  PROVE  IInv'
<1> DEFINE w == runs[r].worker
<1>1. RunShape(runs[r]) /\ pool \in Pools
  BY DEF IInv, Shapes
<1>2. /\ {"next", "completed", "failed", "retry"} \subseteq PCs \ {"executing"}
      /\ {"idle", "disconnected"} \subseteq WorkerStatus \ {"busy"}
  BY DEF PCs, Ended, WorkerStatus
<1>3. CASE Submit(r)
  <2> DEFINE start == IF strategy = "segments" THEN 0 ELSE ResumeAfter(checkpoints[r])
             new == [Idle EXCEPT !.resume = start, !.first = start]
  <2>1. RunShape(new)
    BY DEF RunShape, Idle, PCs
  <2>2. Released(pool, r)
    BY <1>3, NothingToRelease DEF Submit, Executing
  <2>3. Continue(r, Try(pool, new), checkpoints[r]) /\ strategy' = strategy /\ lost' = lost
    BY <1>3 DEF Submit
  <2> HIDE DEF new
  <2> QED
    BY <1>1, <2>1, <2>2, <2>3, TryAssigns, ContinueIInv
<1>4. CASE SegmentSucceeds(r)
  <2> DEFINE p == markIdle(pool, w)
             pc == IF runs[r].last = Final THEN "completed" ELSE "next"
  <2>1. Released(p, r)
    BY <1>2, MarkReleases DEF markIdle
  <2>2. Assigns(p, [pool |-> p, run |-> Off(runs[r], pc)])
    BY <1>1, <1>2, OffAssigns
  <2>3. /\ Continue(r, {[pool |-> p, run |-> Off(runs[r], pc)]}, Saved(runs[r], checkpoints[r]))
        /\ strategy' = strategy /\ lost' = lost
    BY <1>4 DEF SegmentSucceeds
  <2> HIDE DEF p, pc
  <2> QED
    BY <2>1, <2>2, <2>3, ContinueIInv
<1>5. CASE NextSegment(r)
  <2> DEFINE new == [runs[r] EXCEPT !.first = runs[r].last + 1, !.attempt = 0]
             nexts == IF runs[r].last \in checkpoints[r] THEN Try(pool, new)
                      ELSE {[pool |-> pool, run |-> Off(new, "failed")]}
  <2>1. RunShape(new)
    BY <1>1 DEF RunShape
  <2>2. Released(pool, r)
    BY <1>5, NothingToRelease DEF NextSegment, Executing
  <2>3. Continue(r, nexts, checkpoints[r]) /\ strategy' = strategy /\ lost' = lost
    BY <1>5 DEF NextSegment
  <2> HIDE DEF new
  <2>4. \A next \in nexts : Assigns(pool, next)
    BY <1>1, <1>2, <2>1, TryAssigns, OffAssigns
  <2> HIDE DEF nexts
  <2> QED
    BY <2>2, <2>3, <2>4, ContinueIInv
<1>6. CASE SegmentFails(r)
  <2> DEFINE p == markDisconnected(pool, w)
             new == [runs[r] EXCEPT !.attempt = @ + 1]
             nexts == IF runs[r].attempt < MaxRetries THEN Try(p, new)
                      ELSE {[pool |-> p, run |-> Off(runs[r], "failed")]}
  <2>1. Released(p, r) /\ p \in Pools
    BY <1>1, <1>2, MarkReleases DEF markDisconnected, Released
  <2>2. Continue(r, nexts, checkpoints[r]) /\ strategy' = strategy /\ lost \subseteq lost'
    BY <1>6 DEF SegmentFails
  <2>3. \A next \in nexts : Assigns(p, next)
    <3>1. CASE runs[r].attempt < MaxRetries
      <4>1. RunShape(new)
        BY <1>1, <1>6 DEF RunShape, SegmentFails, Executing
      <4> HIDE DEF p, new
      <4> QED
        BY <2>1, <3>1, <4>1, TryAssigns
    <3>2. CASE ~(runs[r].attempt < MaxRetries)
      <4> HIDE DEF p
      <4> QED
        BY <1>1, <1>2, <3>2, OffAssigns
    <3> QED
      BY <3>1, <3>2
  <2> HIDE DEF p, nexts
  <2> QED
    BY <2>1, <2>2, <2>3, ContinueIInv
<1>7. CASE SpanSucceeds(r)
  <2> DEFINE p == markIdle(pool, w)
             new == [runs[r] EXCEPT !.at = @ + 1]
             nexts == IF runs[r].last = Final THEN {[pool |-> p, run |-> Off(runs[r], "completed")]}
                      ELSE StartSpan(p, new)
  <2>1. Released(p, r)
    BY <1>2, MarkReleases DEF markIdle
  <2>2. /\ Continue(r, nexts, Saved(runs[r], checkpoints[r]))
        /\ strategy' = strategy /\ lost' = lost /\ strategy # "segments"
    BY <1>7 DEF SpanSucceeds
  <2>3. \A next \in nexts : Assigns(p, next)
    <3>1. RunShape(new)
      BY <1>1 DEF RunShape
    <3> HIDE DEF p, new
    <3> QED
      BY <1>1, <1>2, <2>2, <3>1, OffAssigns, StartAssigns
  <2> HIDE DEF p, nexts
  <2> QED
    BY <2>1, <2>2, <2>3, ContinueIInv
<1>8. CASE SpanFails(r)
  <2> DEFINE p == markDisconnected(pool, w)
             pc == IF runs[r].attempt < MaxRetries THEN "retry" ELSE "failed"
  <2>1. Released(p, r)
    BY <1>2, MarkReleases DEF markDisconnected
  <2>2. Assigns(p, [pool |-> p, run |-> Off(runs[r], pc)])
    BY <1>1, <1>2, OffAssigns
  <2>3. /\ Continue(r, {[pool |-> p, run |-> Off(runs[r], pc)]}, checkpoints[r])
        /\ strategy' = strategy /\ lost \subseteq lost'
    BY <1>8 DEF SpanFails
  <2> HIDE DEF p, pc
  <2> QED
    BY <2>1, <2>2, <2>3, ContinueIInv
<1>9. CASE Reroute(r)
  <2> DEFINE latest == ResumeAfter(checkpoints[r])
             new == [runs[r] EXCEPT !.attempt = @ + 1, !.resume = IF latest > @ THEN latest ELSE @]
  <2>1. RunShape(new)
    BY <1>1 DEF RunShape
  <2>2. Released(pool, r)
    BY <1>9, NothingToRelease DEF Reroute, Executing
  <2>3. Continue(r, Try(pool, new), checkpoints[r]) /\ strategy' = strategy /\ lost' = lost
    BY <1>9 DEF Reroute
  <2> HIDE DEF new
  <2> QED
    BY <1>1, <2>1, <2>2, <2>3, TryAssigns, ContinueIInv
<1>10. CASE DelayEnds(r)
  <2> DEFINE new == [runs[r] EXCEPT !.attempt = @ + 1]
  <2>1. RunShape(new)
    BY <1>1 DEF RunShape
  <2>2. Released(pool, r)
    BY <1>10, NothingToRelease DEF DelayEnds, Executing
  <2>3. Continue(r, Try(pool, new), checkpoints[r]) /\ strategy' = strategy /\ lost' = lost
    BY <1>10 DEF DelayEnds
  <2> HIDE DEF new
  <2> QED
    BY <1>1, <2>1, <2>2, <2>3, TryAssigns, ContinueIInv
<1> QED
  BY <1>3, <1>4, <1>5, <1>6, <1>7, <1>8, <1>9, <1>10 DEF RunStep

\* The workers come and go: nobody becomes busy, and a busy worker that changes is lost.
LEMMA WorkerStepIInv ==
  ASSUME IInv, NEW w \in Workers,
         registerWorker(w) \/ removeWorker(w) \/ HeartbeatTimeout(w) \/ workerHeartbeat(w)
  PROVE  IInv'
<1>1. UNCHANGED <<strategy, runs>> /\ pool \in Pools /\ lost \subseteq lost'
  BY DEF IInv, Shapes, registerWorker, removeWorker, HeartbeatTimeout, workerHeartbeat, PoolBecomes
<1>2. /\ pool' \in Pools
      /\ \A v \in Workers : pool'[v] = "busy" => pool[v] = "busy"
      /\ \A v \in Workers : pool[v] = "busy" /\ v \notin lost' => pool'[v] = "busy"
  <2>1. "idle" \in WorkerStatus /\ "disconnected" \in WorkerStatus
    BY DEF WorkerStatus
  <2>2. CASE registerWorker(w)
    BY <1>1, <2>2 DEF registerWorker, PoolBecomes, register, Pools, WorkerStatus
  <2>3. CASE removeWorker(w)
    BY <1>1, <2>3 DEF removeWorker, PoolBecomes, unregister, Pools, WorkerStatus
  <2>4. CASE HeartbeatTimeout(w)
    BY <1>1, <2>1, <2>4, MarkOne DEF HeartbeatTimeout, PoolBecomes, markDisconnected
  <2>5. CASE workerHeartbeat(w)
    BY <1>1, <2>1, <2>5, MarkOne DEF workerHeartbeat, PoolBecomes, heartbeat, markIdle
  <2> QED
    BY <2>2, <2>3, <2>4, <2>5
<1>3. Shapes'
  BY <1>1, <1>2 DEF IInv, Shapes
<1>4. BusyIsServed'
  BY <1>1, <1>2 DEF IInv, BusyIsServed
<1>5. WorkersHeld'
  BY <1>1, <1>2 DEF IInv, WorkersHeld, Executing
<1>6. WorkerNotShared'
  BY <1>1 DEF IInv, WorkerNotShared, Executing
<1> QED
  BY <1>3, <1>4, <1>5, <1>6 DEF IInv

THEOREM Invariance == Spec => []IInv
<1>1. IInv /\ [Next]_vars => IInv'
  <2> SUFFICES ASSUME IInv, [Next]_vars PROVE IInv'
    OBVIOUS
  <2>1. ASSUME NEW r \in Requests, Submit(r) \/ RunStep(r) PROVE IInv'
    BY <2>1, RunStepIInv
  <2>2. ASSUME NEW w \in Workers,
               registerWorker(w) \/ removeWorker(w) \/ HeartbeatTimeout(w) \/ workerHeartbeat(w)
        PROVE  IInv'
    BY <2>2, WorkerStepIInv
  <2>3. CASE UNCHANGED vars
    BY <2>3 DEF vars, IInv, Shapes, BusyIsServed, WorkersHeld, WorkerNotShared, Executing
  <2> QED
    BY <2>1, <2>2, <2>3 DEF Next
<1> QED
  BY <1>1, InitIInv, PTL DEF Spec

-----------------------------------------------------------------------------
(* The properties.                                                         *)

\* No worker stays busy without a run that will free it, in either pipeline.
THEOREM BusyWorkersAreServed == Spec => []BusyIsServed
<1>1. IInv => BusyIsServed
  BY DEF IInv
<1> QED
  BY <1>1, Invariance, PTL

\* The segment pipeline shares a worker only after it was lost.
THEOREM WorkersAreNotShared == Spec => []WorkerNotShared
<1>1. IInv => WorkerNotShared
  BY DEF IInv
<1> QED
  BY <1>1, Invariance, PTL


-----------------------------------------------------------------------------
(* Induction, from the size of an initial stretch.                         *)

\* A set that has 0 and the successor of each of its numbers has them all.
LEMMA Induction ==
  ASSUME NEW I, 0 \in I, \A n \in Nat : n \in I => n + 1 \in I
  PROVE  \A n \in Nat : n \in I
<1> SUFFICES ASSUME NEW m \in Nat, m \notin I PROVE FALSE
  OBVIOUS
<1> DEFINE U == {k \in 0..m : \A i \in 0..k : i \in I}
           c == Cardinality(U)
<1>1. IsFiniteSet(U) /\ c \in Nat
  <2>1. IsFiniteSet(0..m) /\ U \subseteq 0..m
    BY FS_Interval
  <2> QED
    BY <2>1, FS_Subset, FS_CardinalityType
<1>2. 0 \in U /\ m \notin U
  OBVIOUS
<1>3. ASSUME NEW k \in U PROVE k \in Nat /\ k + 1 <= c
  <2>1. 0..k \subseteq U /\ k \in Nat
    OBVIOUS
  <2>2. Cardinality(0..k) = k + 1
    BY <2>1, FS_Interval
  <2>3. Cardinality(0..k) <= c
    BY <1>1, <2>1, FS_Subset
  <2> HIDE DEF U, c
  <2> QED
    BY <2>1, <2>2, <2>3
<1>4. U = 0..(c - 1) /\ c - 1 \in Nat
  <2>1. U \subseteq 0..(c - 1) /\ c - 1 \in Nat
    <3> HIDE DEF U, c
    <3> QED
      BY <1>1, <1>2, <1>3
  <2>2. IsFiniteSet(0..(c - 1)) /\ Cardinality(0..(c - 1)) = c
    <3> HIDE DEF c
    <3> QED
      BY <1>1, <2>1, FS_Interval
  <2> HIDE DEF U
  <2> QED
    BY <1>1, <2>1, <2>2, FS_Subset
<1>5. c - 1 \in U /\ c \notin U
  <2> HIDE DEF U, c
  <2> QED
    BY <1>1, <1>4
<1>6. c \in 0..m /\ \A i \in 0..(c - 1) : i \in I
  BY <1>1, <1>2, <1>4, <1>5
<1>7. \A i \in 0..c : i \in I
  <2> HIDE DEF c
  <2> QED
    BY <1>1, <1>4, <1>6
<1> QED
  BY <1>5, <1>6, <1>7

-----------------------------------------------------------------------------
(* Sums over sets of segments.                                             *)

Pick(s) == CHOOSE x \in s : TRUE

Sums(S, f) == f = [s \in SUBSET S |-> IF s = {} THEN 0 ELSE Size[Pick(s)] + f[s \ {Pick(s)}]]

LEMMA SumChosen ==
  ASSUME NEW S, \E f : Sums(S, f)
  PROVE  \E f : Sums(S, f) /\ SizeOf(S) = f[S]
<1> DEFINE f == CHOOSE f : Sums(S, f)
<1>1. Sums(S, f)
  OBVIOUS
<1>2. SizeOf(S) = f[S]
  BY DEF SizeOf, FoldFunctionOnSet, MapThenFoldSet, Sums, Pick
<1> QED
  BY <1>1, <1>2


LEMMA Subsets ==
  ASSUME NEW S, IsFiniteSet(S), NEW s \in SUBSET S
  PROVE  /\ IsFiniteSet(s) /\ Cardinality(s) \in Nat /\ Cardinality(s) <= Cardinality(S)
         /\ Cardinality(s) = 0 <=> s = {}
BY FS_Subset, FS_CardinalityType, FS_EmptySet

LEMMA Picked ==
  ASSUME NEW S, IsFiniteSet(S), NEW s \in SUBSET S, s # {}
  PROVE  /\ Pick(s) \in s /\ s \ {Pick(s)} \in SUBSET S
         /\ Cardinality(s \ {Pick(s)}) = Cardinality(s) - 1
         /\ Cardinality(s) \in Nat \ {0} /\ Cardinality(s \ {Pick(s)}) \in Nat
<1>1. Pick(s) \in s
  BY DEF Pick
<1>2. IsFiniteSet(s) /\ Cardinality(s) \in Nat \ {0}
  BY Subsets
<1>3. Cardinality(s \ {Pick(s)}) = Cardinality(s) - 1
  BY <1>1, <1>2, FS_RemoveElement
<1> QED
  BY <1>1, <1>2, <1>3

\* The sum exists.
LEMMA SumExists ==
  ASSUME NEW S \in SUBSET Segments, IsFiniteSet(S)
  PROVE  \E f \in [SUBSET S -> Int] : Sums(S, f)
<1> DEFINE Plus(f, s) == IF s = {} THEN 0 ELSE Size[Pick(s)] + f[s \ {Pick(s)}]
           Upto(f, n) == \A s \in SUBSET S : Cardinality(s) <= n => f[s] = Plus(f, s)
           I == {n \in Nat : \E f \in [SUBSET S -> Int] : Upto(f, n)}
<1>1. 0 \in I
  <2> DEFINE f == [s \in SUBSET S |-> 0]
  <2>1. f \in [SUBSET S -> Int]
    OBVIOUS
  <2>2. Upto(f, 0)
    <3> SUFFICES ASSUME NEW s \in SUBSET S, Cardinality(s) <= 0 PROVE f[s] = Plus(f, s)
      OBVIOUS
    <3>1. s = {}
      BY Subsets
    <3> QED
      BY <3>1
  <2> QED
    BY <2>1, <2>2
<1>2. ASSUME NEW n \in Nat, n \in I PROVE n + 1 \in I
  <2>1. PICK f \in [SUBSET S -> Int] : Upto(f, n)
    BY <1>2
  <2> DEFINE g == [s \in SUBSET S |-> IF Cardinality(s) = n + 1 THEN Plus(f, s) ELSE f[s]]
  <2>2. ASSUME NEW s \in SUBSET S PROVE Plus(f, s) \in Int
    <3>1. CASE s = {}
      BY <3>1
    <3>2. CASE s # {}
      <4>1. Pick(s) \in Segments /\ s \ {Pick(s)} \in SUBSET S
        BY <3>2, Picked
      <4> QED
        BY <3>2, <4>1, SizesAssumption
    <3> QED
      BY <3>1, <3>2
  <2>3. g \in [SUBSET S -> Int]
    <3> HIDE DEF Plus
    <3> QED
      BY <2>2
  <2>4. ASSUME NEW s \in SUBSET S, Cardinality(s) <= n + 1 PROVE g[s] = Plus(f, s)
    <3>1. Cardinality(s) \in Nat
      BY Subsets
    <3>2. Cardinality(s) <= n => f[s] = Plus(f, s)
      BY <2>1
    <3> HIDE DEF Plus
    <3> QED
      BY <2>4, <3>1, <3>2
  <2>5. ASSUME NEW s \in SUBSET S, Cardinality(s) <= n + 1 PROVE Plus(g, s) = Plus(f, s)
    <3>1. CASE s = {}
      BY <3>1
    <3>2. CASE s # {}
      <4>1. /\ s \ {Pick(s)} \in SUBSET S /\ Cardinality(s \ {Pick(s)}) # n + 1
        BY <2>5, <3>2, Picked
      <4>2. g[s \ {Pick(s)}] = f[s \ {Pick(s)}]
        <5> HIDE DEF Plus
        <5> QED
          BY <4>1
      <4> HIDE DEF g
      <4> QED
        BY <3>2, <4>2
    <3> QED
      BY <3>1, <3>2
  <2>6. Upto(g, n + 1)
    <3> HIDE DEF g, Plus
    <3> QED
      BY <2>4, <2>5
  <2> HIDE DEF g, Upto
  <2> QED
    BY <2>3, <2>6
<1>3. Cardinality(S) \in I
  <2>1. Cardinality(S) \in Nat
    BY FS_CardinalityType
  <2> HIDE DEF I
  <2> QED
    BY <1>1, <1>2, <2>1, Induction
<1>4. PICK f \in [SUBSET S -> Int] : Upto(f, Cardinality(S))
  BY <1>3
<1>5. \A s \in SUBSET S : f[s] = Plus(f, s)
  BY <1>4, Subsets
<1>6. Sums(S, f)
  BY <1>4, <1>5 DEF Sums
<1> QED
  BY <1>6


\* It does not depend on the set it is taken in,
LEMMA SumUnique ==
  ASSUME NEW S, IsFiniteSet(S), NEW T \in SUBSET S, NEW f, Sums(S, f), NEW g, Sums(T, g)
  PROVE  \A s \in SUBSET T : f[s] = g[s]
<1> DEFINE I == {n \in Nat : \A s \in SUBSET T : Cardinality(s) <= n => f[s] = g[s]}
<1>1. /\ \A s \in SUBSET T : f[s] = IF s = {} THEN 0 ELSE Size[Pick(s)] + f[s \ {Pick(s)}]
      /\ \A s \in SUBSET T : g[s] = IF s = {} THEN 0 ELSE Size[Pick(s)] + g[s \ {Pick(s)}]
  BY DEF Sums
<1>2. IsFiniteSet(T)
  BY FS_Subset
<1>3. 0 \in I
  <2> SUFFICES ASSUME NEW s \in SUBSET T, Cardinality(s) <= 0 PROVE f[s] = g[s]
    OBVIOUS
  <2>1. s = {}
    BY <1>2, Subsets
  <2> QED
    BY <1>1, <2>1
<1>4. ASSUME NEW n \in Nat, n \in I PROVE n + 1 \in I
  <2> SUFFICES ASSUME NEW s \in SUBSET T, Cardinality(s) <= n + 1 PROVE f[s] = g[s]
    OBVIOUS
  <2>1. CASE s = {}
    BY <1>1, <2>1
  <2>2. CASE s # {}
    <3>1. s \ {Pick(s)} \in SUBSET T /\ Cardinality(s \ {Pick(s)}) <= n
      BY <1>2, <2>2, Picked
    <3>2. f[s \ {Pick(s)}] = g[s \ {Pick(s)}]
      BY <1>4, <3>1
    <3> QED
      BY <1>1, <2>2, <3>2
  <2> QED
    BY <2>1, <2>2
<1>5. Cardinality(T) \in I
  <2>1. Cardinality(T) \in Nat
    BY <1>2, FS_CardinalityType
  <2> HIDE DEF I
  <2> QED
    BY <1>3, <1>4, <2>1, Induction
<1> QED
  BY <1>2, <1>5, Subsets

\* nor on the order in which the hashes are picked,
LEMMA SumWithout ==
  ASSUME NEW S \in SUBSET Segments, IsFiniteSet(S), NEW f \in [SUBSET S -> Int], Sums(S, f)
  PROVE  \A s \in SUBSET S : \A x \in s : f[s] = Size[x] + f[s \ {x}]
<1> DEFINE I == {n \in Nat : \A s \in SUBSET S : \A x \in s :
                    Cardinality(s) <= n => f[s] = Size[x] + f[s \ {x}]}
<1>1. \A s \in SUBSET S : s # {} => f[s] = Size[Pick(s)] + f[s \ {Pick(s)}]
  BY DEF Sums
<1>2. \A x \in S : Size[x] \in Nat
  BY SizesAssumption
<1>3. 0 \in I
  BY Subsets
<1>4. ASSUME NEW n \in Nat, n \in I PROVE n + 1 \in I
  <2> SUFFICES ASSUME NEW s \in SUBSET S, NEW x \in s, Cardinality(s) <= n + 1
               PROVE  f[s] = Size[x] + f[s \ {x}]
    OBVIOUS
  <2> DEFINE p == Pick(s)
             a == s \ {p}
             b == s \ {x}
             both == s \ {p, x}
  <2>1. p \in s /\ a \in SUBSET S /\ Cardinality(a) <= n
    BY Picked
  <2>2. CASE p = x
    BY <1>1, <2>2
  <2>3. CASE p # x
    <3>1. x \in a /\ p \in b /\ a \ {x} = both /\ b \ {p} = both /\ b \in SUBSET S /\ both \in SUBSET S
      BY <2>1, <2>3
    <3>2. Cardinality(b) <= n
      <4>1. IsFiniteSet(s) /\ Cardinality(s) \in Nat
        BY Subsets
      <4>2. Cardinality(b) = Cardinality(s) - 1
        BY <4>1, FS_RemoveElement
      <4> HIDE DEF b
      <4> QED
        BY <4>1, <4>2
    <3> HIDE DEF p, a, b, both
    <3>3. f[a] = Size[x] + f[both]
      BY <1>4, <2>1, <3>1
    <3>4. f[b] = Size[p] + f[both]
      BY <1>4, <3>1, <3>2
    <3>5. f[s] = Size[p] + f[a]
      BY <1>1 DEF p, a
    <3>6. Size[x] \in Nat /\ Size[p] \in Nat /\ f[both] \in Int
      BY <1>2, <2>1, <3>1
    <3>7. f[s] = Size[x] + f[b]
      BY <3>3, <3>4, <3>5, <3>6
    <3> QED
      BY <3>7 DEF b
  <2> QED
    BY <2>2, <2>3
<1>5. Cardinality(S) \in I
  <2>1. Cardinality(S) \in Nat
    BY FS_CardinalityType
  <2> HIDE DEF I
  <2> QED
    BY <1>3, <1>4, <2>1, Induction
<1> QED
  BY <1>5, Subsets

\* so sizes are counted one by one.
LEMMA SizeOfWithout ==
  ASSUME NEW S \in SUBSET Segments, IsFiniteSet(S)
  PROVE  /\ SizeOf(S) \in Int
         /\ \A x \in S : SizeOf(S) = Size[x] + SizeOf(S \ {x})
         /\ S = {} => SizeOf(S) = 0
<1>1. PICK f \in [SUBSET S -> Int] : Sums(S, f)
  BY SumExists
<1>2. ASSUME NEW T \in SUBSET S PROVE SizeOf(T) = f[T]
  <2>1. IsFiniteSet(T) /\ T \in SUBSET Segments
    BY FS_Subset
  <2>2. \E g : Sums(T, g)
    BY <2>1, SumExists
  <2>3. PICK g : Sums(T, g) /\ SizeOf(T) = g[T]
    BY <2>2, SumChosen
  <2> QED
    BY <1>1, <2>3, SumUnique
<1>3. SizeOf(S) = f[S] /\ f[S] \in Int /\ \A x \in S : SizeOf(S \ {x}) = f[S \ {x}]
  BY <1>1, <1>2
<1>4. \A x \in S : f[S] = Size[x] + f[S \ {x}]
  <2>1. S \in SUBSET S
    OBVIOUS
  <2>2. \A s \in SUBSET S : \A x \in s : f[s] = Size[x] + f[s \ {x}]
    BY <1>1, SumWithout
  <2> QED
    BY <2>1, <2>2
<1>5. S = {} => f[S] = 0
  BY <1>1 DEF Sums
<1> QED
  BY <1>3, <1>4, <1>5

LEMMA SizeOfUnion ==
  ASSUME NEW A \in SUBSET Segments, IsFiniteSet(A), NEW C \in SUBSET Segments, IsFiniteSet(C),
         A \cap C = {}
  PROVE  SizeOf(A \cup C) = SizeOf(A) + SizeOf(C)
<1> DEFINE I == {n \in Nat : \A c \in SUBSET C :
                    Cardinality(c) <= n => SizeOf(A \cup c) = SizeOf(A) + SizeOf(c)}
<1>1. ASSUME NEW c \in SUBSET C
      PROVE  /\ IsFiniteSet(c) /\ IsFiniteSet(A \cup c) /\ c \in SUBSET Segments
             /\ A \cup c \in SUBSET Segments
  BY FS_Subset, FS_Union
<1>2. SizeOf(A) \in Int
  BY SizeOfWithout
<1>3. 0 \in I
  <2> SUFFICES ASSUME NEW c \in SUBSET C, Cardinality(c) <= 0
               PROVE  SizeOf(A \cup c) = SizeOf(A) + SizeOf(c)
    OBVIOUS
  <2>1. c = {} /\ A \cup c = A
    BY Subsets
  <2>2. SizeOf(c) = 0
    BY <1>1, <2>1, SizeOfWithout
  <2> QED
    BY <1>2, <2>1, <2>2
<1>4. ASSUME NEW n \in Nat, n \in I PROVE n + 1 \in I
  <2> SUFFICES ASSUME NEW c \in SUBSET C, Cardinality(c) <= n + 1
               PROVE  SizeOf(A \cup c) = SizeOf(A) + SizeOf(c)
    OBVIOUS
  <2>1. CASE c = {}
    <3>1. A \cup c = A /\ SizeOf(c) = 0
      BY <1>1, <2>1, SizeOfWithout
    <3>2. SizeOf(A \cup c) = SizeOf(A)
      BY <3>1, Zenon
    <3>3. SizeOf(A) = SizeOf(A) + 0
      BY <1>2
    <3> QED
      BY <3>1, <3>2, <3>3, Zenon
  <2>2. CASE c # {}
    <3> DEFINE p == Pick(c)
               d == c \ {p}
    <3>1. p \in c /\ d \in SUBSET C /\ Cardinality(d) <= n
      BY <2>2, Picked
    <3>2. (A \cup c) \ {p} = A \cup d /\ p \in A \cup c /\ p \in Segments
      BY <3>1
    <3> HIDE DEF p
    <3>3. SizeOf(A \cup c) = Size[p] + SizeOf((A \cup c) \ {p})
      BY <1>1, <3>2, SizeOfWithout
    <3>4. SizeOf(c) = Size[p] + SizeOf(d)
      BY <1>1, <3>1, SizeOfWithout
    <3>5. SizeOf(A \cup d) = SizeOf(A) + SizeOf(d)
      BY <1>4, <3>1
    <3>6. SizeOf(d) \in Int
      BY <1>1, <3>1, SizeOfWithout
    <3>7. Size[p] \in Int
      BY <3>2, SizesAssumption
    <3>8. SizeOf(A \cup c) = Size[p] + SizeOf(A \cup d)
      BY <3>2, <3>3, Zenon
    <3> HIDE DEF d
    <3> QED
      BY <1>2, <3>4, <3>5, <3>6, <3>7, <3>8
  <2> QED
    BY <2>1, <2>2
<1>5. Cardinality(C) \in I
  <2>1. Cardinality(C) \in Nat
    BY FS_CardinalityType
  <2> HIDE DEF I
  <2> QED
    BY <1>3, <1>4, <2>1, Induction
<1> QED
  BY <1>5, Subsets

LEMMA SizeOfNat ==
  ASSUME NEW S \in SUBSET Segments, IsFiniteSet(S)
  PROVE  SizeOf(S) \in Nat
<1> DEFINE I == {n \in Nat : \A s \in SUBSET S : Cardinality(s) <= n => SizeOf(s) \in Nat}
<1>1. \A s \in SUBSET S : IsFiniteSet(s) /\ s \in SUBSET Segments
  BY FS_Subset
<1>2. 0 \in I
  <2> SUFFICES ASSUME NEW s \in SUBSET S, Cardinality(s) <= 0 PROVE SizeOf(s) \in Nat
    OBVIOUS
  <2>1. s = {}
    BY Subsets
  <2> QED
    BY <1>1, <2>1, SizeOfWithout
<1>3. ASSUME NEW n \in Nat, n \in I PROVE n + 1 \in I
  <2> SUFFICES ASSUME NEW s \in SUBSET S, Cardinality(s) <= n + 1 PROVE SizeOf(s) \in Nat
    OBVIOUS
  <2>1. CASE s = {}
    BY <1>1, <2>1, SizeOfWithout
  <2>2. CASE s # {}
    <3>1. /\ Pick(s) \in s /\ s \ {Pick(s)} \in SUBSET S /\ Cardinality(s \ {Pick(s)}) <= n
      BY <2>2, Picked
    <3>2. SizeOf(s) = Size[Pick(s)] + SizeOf(s \ {Pick(s)})
      BY <1>1, <3>1, SizeOfWithout
    <3>3. SizeOf(s \ {Pick(s)}) \in Nat /\ Size[Pick(s)] \in Nat
      BY <1>3, <3>1, SizesAssumption
    <3> QED
      BY <3>2, <3>3
  <2> QED
    BY <2>1, <2>2
<1>4. Cardinality(S) \in I
  <2>1. Cardinality(S) \in Nat
    BY FS_CardinalityType
  <2> HIDE DEF I
  <2> QED
    BY <1>2, <1>3, <2>1, Induction
<1> QED
  BY <1>4, Subsets


-----------------------------------------------------------------------------
(* Spans.                                                                  *)

LEMMA SizesGrow ==
  ASSUME NEW S \in SUBSET Segments, NEW T \in SUBSET S
  PROVE  SizeOf(T) \in Nat /\ SizeOf(S) \in Nat /\ SizeOf(T) <= SizeOf(S)
<1> DEFINE R == S \ T
<1>1. IsFiniteSet(Segments)
  BY FS_Interval, SegmentsAssumption DEF Segments
<1>2. /\ S = T \cup R /\ T \cap R = {} /\ T \in SUBSET Segments /\ R \in SUBSET Segments
      /\ IsFiniteSet(S) /\ IsFiniteSet(T) /\ IsFiniteSet(R)
  BY <1>1, FS_Subset
<1> HIDE DEF R
<1>3. SizeOf(T \cup R) = SizeOf(T) + SizeOf(R)
  BY <1>2, SizeOfUnion
<1>4. SizeOf(S) = SizeOf(T) + SizeOf(R)
  BY <1>2, <1>3, Zenon
<1>5. SizeOf(T) \in Nat /\ SizeOf(R) \in Nat
  BY <1>2, SizeOfNat
<1> QED
  BY <1>4, <1>5

LEMMA SizeOfNone == SizeOf({}) = 0
BY FS_EmptySet, SizeOfWithout

\* What computeMaximumSpan chooses is there, and is the longest span that fits.
LEMMA MaximumSpan ==
  ASSUME NEW w \in Workers, NEW start \in Segments
  PROVE  LET max == computeMaximumSpan(w, start) IN
         /\ max \in 0..(NumSegments - start)
         /\ SizeOf(start..(start + max - 1)) <= Vram[w]
         /\ \A n \in 0..(NumSegments - start) : SizeOf(start..(start + n - 1)) <= Vram[w] => n <= max
<1> DEFINE Fits(n) == SizeOf(start..(start + n - 1)) <= Vram[w]
           P(n) == /\ SizeOf(start..(start + n - 1)) <= Vram[w]
                   /\ n < NumSegments - start => SizeOf(start..(start + n)) > Vram[w]
           room == NumSegments - start
<1>1. room \in Nat /\ start \in Nat /\ Vram[w] \in Nat
  BY SegmentsAssumption, SizesAssumption DEF Segments
<1>2. ASSUME NEW n \in 0..room
      PROVE  start..(start + n - 1) \in SUBSET Segments
  BY SegmentsAssumption DEF Segments
<1>3. \A n \in 0..room : SizeOf(start..(start + n - 1)) \in Nat
  BY <1>2, SizesGrow
<1>4. \E n \in 0..room : P(n)
  <2> SUFFICES ASSUME \A n \in 0..room : ~P(n) PROVE FALSE
    OBVIOUS
  <2> DEFINE I == {n \in Nat : n <= room => Fits(n)}
  <2>1. 0 \in I
    <3>1. start..(start + 0 - 1) = {}
      BY <1>1
    <3> QED
      BY <1>1, <3>1, SizeOfNone
  <2>2. ASSUME NEW n \in Nat, n \in I PROVE n + 1 \in I
    <3> SUFFICES ASSUME n + 1 <= room PROVE Fits(n + 1)
      OBVIOUS
    <3>1. n \in 0..room /\ n < room /\ Fits(n)
      BY <1>1, <2>2
    <3>2. ~(SizeOf(start..(start + n)) > Vram[w])
      BY <3>1
    <3>3. start + (n + 1) - 1 = start + n /\ n + 1 \in 0..room
      BY <1>1
    <3>4. SizeOf(start..(start + n)) \in Nat
      BY <1>3, <3>3
    <3> QED
      BY <1>1, <3>2, <3>3, <3>4
  <2>3. room \in I
    <3> HIDE DEF I, room
    <3> QED
      BY <1>1, <2>1, <2>2, Induction
  <2>4. P(room) /\ room \in 0..room
    BY <1>1, <2>3
  <2> QED
    BY <2>4
<1> DEFINE max == computeMaximumSpan(w, start)
<1>5. max \in 0..room /\ P(max)
  BY <1>4 DEF computeMaximumSpan
<1> HIDE DEF max
<1>6. ASSUME NEW n \in 0..room, Fits(n), ~(n <= max) PROVE FALSE
  <2>1. max < room /\ max + 1 \in 0..room /\ start + max <= start + n - 1
    BY <1>1, <1>5, <1>6
  <2>2. start..(start + max) \subseteq start..(start + n - 1)
    BY <1>1, <1>5, <2>1
  <2>3. /\ SizeOf(start..(start + max)) \in Nat /\ SizeOf(start..(start + n - 1)) \in Nat
        /\ SizeOf(start..(start + max)) <= SizeOf(start..(start + n - 1))
    BY <1>2, <2>2, SizesGrow
  <2>4. SizeOf(start..(start + max)) > Vram[w]
    BY <1>5, <2>1
  <2> QED
    BY <1>1, <1>6, <2>3, <2>4
<1> QED
  BY <1>5, <1>6 DEF max

-----------------------------------------------------------------------------
(* The order of candidates.                                                *)

Ranks == [1..7 -> Int]

LEMMA ResidentPrefix ==
  ASSUME NEW resident, NEW start \in Nat, NEW max \in Nat
  PROVE  residentPrefixLength(resident, start, max) \in 0..max
<1> DEFINE P(n) == /\ start..(start + n - 1) \subseteq resident
                   /\ n < max => start + n \notin resident
<1>1. \E n \in 0..max : P(n)
  <2> SUFFICES ASSUME \A n \in 0..max : ~P(n) PROVE FALSE
    OBVIOUS
  <2> DEFINE I == {n \in Nat : n <= max => start..(start + n - 1) \subseteq resident}
  <2>1. 0 \in I
    OBVIOUS
  <2>2. ASSUME NEW n \in Nat, n \in I PROVE n + 1 \in I
    <3> SUFFICES ASSUME n + 1 <= max PROVE start..(start + (n + 1) - 1) \subseteq resident
      OBVIOUS
    <3>1. n \in 0..max /\ n < max /\ start..(start + n - 1) \subseteq resident
      BY <2>2
    <3>2. start + n \in resident
      BY <3>1
    <3> QED
      BY <3>1, <3>2
  <2>3. max \in I
    <3> HIDE DEF I
    <3> QED
      BY <2>1, <2>2, Induction
  <2> QED
    BY <2>3
<1> QED
  BY <1>1 DEF residentPrefixLength

LEMMA RankType ==
  ASSUME NEW w \in Workers, NEW start \in Segments, NEW resident
  PROVE  RankOf(w, start, resident) \in Ranks
<1> DEFINE max == computeMaximumSpan(w, start)
           span == start..(start + max - 1)
           prefix == residentPrefixLength(resident, start, max)
<1>1. max \in 0..(NumSegments - start) /\ start \in Nat /\ NumSegments \in Nat
  BY MaximumSpan, SegmentsAssumption DEF Segments
<1> HIDE DEF max
<1>2. prefix \in Int
  BY <1>1, ResidentPrefix
<1>3. span \in SUBSET Segments
  BY <1>1 DEF Segments
<1> HIDE DEF span, prefix
<1>4. SizeOf(span \cap resident) \in Int /\ SizeOf(span \ resident) \in Int
  BY <1>3, SizesGrow
<1>5. Tier[w] \in Int /\ Vram[w] \in Int /\ Id[w] \in Int
  BY SizesAssumption
<1>6. RankOf(w, start, resident) =
        << -prefix, -SizeOf(span \cap resident), SizeOf(span \ resident), Tier[w], -max,
           -Vram[w], Id[w] >>
  BY DEF RankOf, max, span, prefix
<1> QED
  BY <1>1, <1>2, <1>4, <1>5, <1>6 DEF Ranks

LEMMA PrecedesOrder ==
  ASSUME NEW a \in Ranks, NEW b \in Ranks, NEW c \in Ranks
  PROVE  /\ ~Precedes(a, a)
         /\ Precedes(a, b) /\ Precedes(b, c) => Precedes(a, c)
<1>1. DOMAIN a = 1..7 /\ DOMAIN b = 1..7 /\ DOMAIN c = 1..7
  BY DEF Ranks
<1>2. \A i \in 1..7 : a[i] \in Int /\ b[i] \in Int /\ c[i] \in Int
  BY DEF Ranks
<1>3. ~Precedes(a, a)
  BY <1>1, <1>2 DEF Precedes
<1>4. ASSUME Precedes(a, b), Precedes(b, c) PROVE Precedes(a, c)
  <2>1. PICK i \in 1..7 : a[i] < b[i] /\ \A j \in 1..(i - 1) : a[j] = b[j]
    BY <1>1, <1>4 DEF Precedes
  <2>2. PICK k \in 1..7 : b[k] < c[k] /\ \A j \in 1..(k - 1) : b[j] = c[j]
    BY <1>1, <1>4 DEF Precedes
  <2> SUFFICES \E m \in 1..7 : a[m] < c[m] /\ \A j \in 1..(m - 1) : a[j] = c[j]
    BY <1>1 DEF Precedes
  <2>3. CASE i < k
    <3>1. b[i] = c[i] /\ a[i] < c[i]
      BY <2>1, <2>2, <2>3
    <3>2. \A j \in 1..(i - 1) : a[j] = c[j]
      BY <2>1, <2>2, <2>3
    <3> QED
      BY <3>1, <3>2
  <2>4. CASE k < i
    <3>1. a[k] = b[k] /\ a[k] < c[k]
      BY <2>1, <2>2, <2>4
    <3>2. \A j \in 1..(k - 1) : a[j] = c[j]
      BY <2>1, <2>2, <2>4
    <3> QED
      BY <3>1, <3>2
  <2>5. CASE i = k
    <3>1. a[i] < c[i]
      BY <1>2, <2>1, <2>2, <2>5
    <3>2. \A j \in 1..(i - 1) : a[j] = c[j]
      BY <2>1, <2>2, <2>5
    <3> QED
      BY <3>1, <3>2
  <2> QED
    BY <2>3, <2>4, <2>5
<1> QED
  BY <1>3, <1>4

LEMMA LeastRank ==
  ASSUME NEW S, IsFiniteSet(S), S # {}, NEW r, \A w \in S : r[w] \in Ranks
  PROVE  \E w \in S : \A v \in S : ~Precedes(r[v], r[w])
<1> DEFINE Least(s, w) == w \in s /\ \A v \in s : ~Precedes(r[v], r[w])
           I == {n \in Nat : \A s \in SUBSET S :
                    s # {} /\ Cardinality(s) <= n => \E w \in S : Least(s, w)}
<1>1. 0 \in I
  BY Subsets
<1>2. ASSUME NEW n \in Nat, n \in I PROVE n + 1 \in I
  <2> SUFFICES ASSUME NEW s \in SUBSET S, s # {}, Cardinality(s) <= n + 1
               PROVE  \E w \in S : Least(s, w)
    OBVIOUS
  <2> DEFINE p == Pick(s)
             d == s \ {p}
  <2>1. p \in s /\ d \in SUBSET S /\ Cardinality(d) <= n
    BY Picked
  <2>2. s = d \cup {p} /\ ~Precedes(r[p], r[p]) /\ p \in S
    BY <2>1, PrecedesOrder
  <2> HIDE DEF p, d
  <2>3. CASE d = {}
    BY <2>2, <2>3
  <2>4. CASE d # {}
    <3>1. PICK w \in S : Least(d, w)
      BY <1>2, <2>1, <2>4
    <3>2. CASE Precedes(r[p], r[w])
      <4>1. ASSUME NEW v \in d PROVE ~Precedes(r[v], r[p])
        <5>1. r[v] \in Ranks /\ r[p] \in Ranks /\ r[w] \in Ranks
          BY <2>1, <2>2
        <5>2. ~Precedes(r[v], r[w])
          BY <3>1
        <5> QED
          BY <3>2, <5>1, <5>2, PrecedesOrder
      <4>2. Least(s, p)
        BY <2>2, <4>1
      <4> QED
        BY <2>2, <4>2
    <3>3. CASE ~Precedes(r[p], r[w])
      <4>1. Least(s, w)
        BY <2>2, <3>1, <3>3
      <4> QED
        BY <4>1
    <3> QED
      BY <3>2, <3>3
  <2> QED
    BY <2>3, <2>4
<1>3. Cardinality(S) \in I
  <2>1. Cardinality(S) \in Nat
    BY FS_CardinalityType
  <2> HIDE DEF I
  <2> QED
    BY <1>1, <1>2, <2>1, Induction
<1> QED
  BY <1>3, Subsets

\* One of the candidates is the first.
LEMMA BestIsOne ==
  ASSUME NEW S \in SUBSET Workers, S # {}, NEW l, NEW start \in Segments
  PROVE  Best(S, l, start) \in S
<1> DEFINE r == [w \in S |-> RankOf(w, start, l[w])]
<1>1. IsFiniteSet(S)
  BY FS_Subset, SizesAssumption
<1>2. \A w \in S : r[w] \in Ranks
  BY RankType
<1>3. \E w \in S : \A v \in S : ~Precedes(r[v], r[w])
  <2> HIDE DEF r
  <2> QED
    BY <1>1, <1>2, LeastRank
<1> QED
  BY <1>3 DEF Best

-----------------------------------------------------------------------------
(* The search.                                                             *)

\* The search from a segment, given the searches from later ones.
After(f, start, used, w) == f[SpanOf(w, start).last + 1][used \cup {w}]
Viable(p, f, start, used) ==
    {w \in Candidates(p, start, used) : After(f, start, used, w) # NoRoute}
Found(p, l, f, start, used) ==
    LET viable == Viable(p, f, start, used)
        selected == Best(viable, l, start)
    IN  IF start = NumSegments THEN <<>>
        ELSE IF viable = {} THEN NoRoute
        ELSE <<SpanOf(selected, start)>> \o After(f, start, used, selected)

SearchFrom(p, l, f, start) ==
    [used \in SUBSET Workers |-> Found(p, l, f, start, used)]

Searches(p, l, f) ==
    f = [start \in 0..NumSegments |-> SearchFrom(p, l, f, start)]

LEMMA CandidateSpan ==
  ASSUME NEW p, NEW start \in Segments, NEW used, NEW w \in Candidates(p, start, used)
  PROVE  /\ w \in Workers \ used /\ p[w] = "idle"
         /\ SpanOf(w, start) \in Spans /\ SpanOf(w, start).worker = w
         /\ SpanOf(w, start).first = start
         /\ start <= SpanOf(w, start).last
         /\ SpanOf(w, start).last + 1 = start + computeMaximumSpan(w, start)
         /\ SpanOf(w, start).last + 1 \in (start + 1)..NumSegments
<1> DEFINE max == computeMaximumSpan(w, start)
<1>1. w \in Workers \ used /\ p[w] = "idle" /\ max > 0
  BY DEF Candidates
<1>2. max \in 0..(NumSegments - start) /\ start \in Nat /\ NumSegments \in Nat
  BY <1>1, MaximumSpan, SegmentsAssumption DEF Segments
<1>3. SpanOf(w, start) = [worker |-> w, first |-> start, last |-> start + max - 1]
  BY DEF SpanOf
<1> HIDE DEF max
<1>4. start + max - 1 \in Segments /\ start <= start + max - 1
      /\ (start + max - 1) + 1 = start + max /\ start + max \in (start + 1)..NumSegments
  BY <1>1, <1>2 DEF Segments
<1> QED
  BY <1>1, <1>3, <1>4 DEF max, Spans

LEMMA FoundDepends ==
  ASSUME NEW p, NEW l, NEW start \in 0..NumSegments, NEW f, NEW g,
         \A t \in (start + 1)..NumSegments : f[t] = g[t]
  PROVE  SearchFrom(p, l, f, start) = SearchFrom(p, l, g, start)
<1> SUFFICES ASSUME NEW used \in SUBSET Workers
             PROVE  Found(p, l, f, start, used) = Found(p, l, g, start, used)
  BY DEF SearchFrom
<1>1. CASE start = NumSegments
  BY <1>1 DEF Found
<1>2. CASE start # NumSegments
  <2>1. start \in Segments
    BY <1>2, SegmentsAssumption DEF Segments
  <2>2. ASSUME NEW w \in Candidates(p, start, used)
        PROVE  After(f, start, used, w) = After(g, start, used, w)
    <3> DEFINE t == SpanOf(w, start).last + 1
    <3>1. t \in (start + 1)..NumSegments
      BY <2>1, CandidateSpan
    <3> HIDE DEF t
    <3>2. f[t] = g[t]
      BY <3>1
    <3>3. After(f, start, used, w) = f[t][used \cup {w}] /\ After(g, start, used, w) = g[t][used \cup {w}]
      BY DEF After, t
    <3> QED
      BY <3>2, <3>3, Zenon
  <2>3. Viable(p, f, start, used) = Viable(p, g, start, used)
    BY <2>2 DEF Viable
  <2> DEFINE viable == Viable(p, f, start, used)
             selected == Best(viable, l, start)
  <2>4. viable # {} => selected \in Candidates(p, start, used)
    <3>1. viable \in SUBSET Workers /\ viable \subseteq Candidates(p, start, used)
      BY DEF Viable, Candidates
    <3> HIDE DEF viable
    <3> QED
      BY <2>1, <3>1, BestIsOne
  <2>5. viable # {} => After(f, start, used, selected) = After(g, start, used, selected)
    BY <2>2, <2>4
  <2>6. viable = Viable(p, g, start, used)
    BY <2>3
  <2> QED
    <3> HIDE DEF viable
    <3>1. Found(p, l, f, start, used) =
            IF viable = {} THEN NoRoute
            ELSE <<SpanOf(selected, start)>> \o After(f, start, used, selected)
      BY <1>2 DEF Found, viable
    <3>2. Found(p, l, g, start, used) =
            IF viable = {} THEN NoRoute
            ELSE <<SpanOf(selected, start)>> \o After(g, start, used, selected)
      BY <1>2, <2>6 DEF Found
    <3> HIDE DEF selected
    <3>3. CASE viable = {}
      BY <3>1, <3>2, <3>3, Zenon
    <3>4. CASE viable # {}
      <4>1. After(f, start, used, selected) = After(g, start, used, selected)
        BY <2>5, <3>4
      <4> QED
        BY <3>1, <3>2, <3>4, <4>1, Zenon
    <3> QED
      BY <3>3, <3>4
<1> QED
  BY <1>1, <1>2

\* The recursion is well founded: what is found from the last n segments on.
Upper(p, l, n, f) ==
    [start \in 0..NumSegments |->
        IF start >= NumSegments - n THEN SearchFrom(p, l, f, start) ELSE 0]

LEMMA UpperExtends ==
  ASSUME NEW p, NEW l, NEW n \in Nat, NEW f, NEW g, g = Upper(p, l, n, f),
         \A t \in 0..NumSegments : t > NumSegments - n => g[t] = f[t]
  PROVE  g = Upper(p, l, n, g)
<1>1. ASSUME NEW start \in 0..NumSegments, start >= NumSegments - n
      PROVE  SearchFrom(p, l, f, start) = SearchFrom(p, l, g, start)
  <2>1. \A t \in (start + 1)..NumSegments : f[t] = g[t]
    BY <1>1, SegmentsAssumption
  <2> QED
    BY <2>1, FoundDepends
<1> QED
  BY <1>1 DEF Upper

LEMMA SearchExists ==
  ASSUME NEW p, NEW l
  PROVE  \E f : Searches(p, l, f)
<1> DEFINE I == {n \in Nat : \E f : f = Upper(p, l, n, f)}
<1>1. NumSegments \in Nat
  BY SegmentsAssumption
<1>2. 0 \in I
  <2>1. PICK g : g = Upper(p, l, 0, 0)
    OBVIOUS
  <2>2. \A t \in 0..NumSegments : t > NumSegments - 0 => g[t] = 0[t]
    BY <1>1
  <2>3. g = Upper(p, l, 0, g)
    BY <2>1, <2>2, UpperExtends
  <2> QED
    BY <2>3
<1>3. ASSUME NEW n \in Nat, n \in I PROVE n + 1 \in I
  <2>1. PICK f : f = Upper(p, l, n, f)
    BY <1>3
  <2>2. PICK g : g = Upper(p, l, n + 1, f)
    OBVIOUS
  <2>3. ASSUME NEW t \in 0..NumSegments, t > NumSegments - (n + 1) PROVE g[t] = f[t]
    <3>1. t >= NumSegments - n /\ t >= NumSegments - (n + 1)
      BY <1>1, <2>3
    <3>2. f[t] = SearchFrom(p, l, f, t)
      BY <2>1, <3>1 DEF Upper
    <3>3. g[t] = SearchFrom(p, l, f, t)
      BY <2>2, <3>1 DEF Upper
    <3> QED
      BY <3>2, <3>3
  <2>4. g = Upper(p, l, n + 1, g)
    <3>1. n + 1 \in Nat
      OBVIOUS
    <3> QED
      BY <2>2, <2>3, <3>1, UpperExtends
  <2> QED
    BY <2>4
<1>4. NumSegments \in I
  <2> HIDE DEF I
  <2> QED
    BY <1>1, <1>2, <1>3, Induction
<1>5. PICK f : f = Upper(p, l, NumSegments, f)
  BY <1>4
<1>6. Searches(p, l, f)
  <2>1. \A start \in 0..NumSegments : start >= NumSegments - NumSegments
    BY <1>1
  <2>2. Upper(p, l, NumSegments, f) =
          [start \in 0..NumSegments |-> SearchFrom(p, l, f, start)]
    BY <2>1 DEF Upper
  <2> QED
    BY <1>5, <2>2 DEF Searches
<1> QED
  BY <1>6

LEMMA RouteIsFound ==
  ASSUME NEW p, NEW l, NEW start
  PROVE  \E f : Searches(p, l, f) /\ computeRoute(p, l, start) = f[start][{}]
<1> DEFINE f == CHOOSE f : Searches(p, l, f)
<1>1. Searches(p, l, f)
  BY SearchExists
<1>2. computeRoute(p, l, start) = f[start][{}]
  BY DEF computeRoute, Searches, SearchFrom, Found, Viable, After
<1> QED
  BY <1>1, <1>2

-----------------------------------------------------------------------------
(* What the search finds.                                                  *)

Own(pieces, w) == {s \in DOMAIN pieces : pieces[s] = w}

\* Workers of A can have the segments from `start` on between them.
Divides(A, start, pieces) ==
    /\ pieces \in [start..(NumSegments - 1) -> A]
    /\ \A w \in Workers :
          /\ SizeOf(Own(pieces, w)) <= Vram[w]
          /\ \A s, t \in Own(pieces, w) : s..t \subseteq Own(pieces, w)

Divisible(A, start) == \E pieces : Divides(A, start, pieces)

\* A span of a route over the workers of A.
SpanSound(A, span) ==
    span \in Spans /\ span.worker \in A /\ span.first <= span.last
    /\ SizeOf(span.first..span.last) <= Vram[span.worker]

RouteSound(A, route, start) ==
    /\ route \in Seq(Spans)
    /\ route = <<>> <=> start = NumSegments
    /\ route # <<>> => route[1].first = start /\ route[Len(route)].last = NumSegments - 1
    /\ \A i \in 1..Len(route) : SpanSound(A, route[i])
    /\ \A i \in 1..Len(route) : i > 1 => route[i].first = route[i - 1].last + 1
    /\ \A i, j \in 1..Len(route) : route[i].worker = route[j].worker => i = j

\* Giving the first worker all that fits it leaves less to the others.
LEMMA LongestSpan ==
  ASSUME NEW A \in SUBSET Workers, NEW start \in Segments, Divisible(A, start)
  PROVE  \E w \in A : LET max == computeMaximumSpan(w, start) IN
            max > 0 /\ Divisible(A \ {w}, start + max)
<1>1. PICK pieces : Divides(A, start, pieces)
  BY DEF Divisible
<1> DEFINE w == pieces[start]
           max == computeMaximumSpan(w, start)
           own == Own(pieces, w)
           rest == [s \in (start + max)..(NumSegments - 1) |-> pieces[s]]
<1>2. /\ DOMAIN pieces = start..(NumSegments - 1) /\ w \in A /\ start \in own
      /\ start \in Nat /\ NumSegments \in Nat
  BY <1>1, SegmentsAssumption DEF Divides, Segments, Own
<1>3. /\ max \in 0..(NumSegments - start)
      /\ \A n \in 0..(NumSegments - start) :
            SizeOf(start..(start + n - 1)) <= Vram[w] => n <= max
  BY <1>2, MaximumSpan
<1> HIDE DEF w, max
<1>4. ASSUME NEW s \in own PROVE s < start + max
  <2>1. s \in start..(NumSegments - 1)
    BY <1>2 DEF Own
  <2>2. start..s \subseteq own /\ own \in SUBSET Segments
    <3>1. own \in SUBSET Segments
      BY <1>2 DEF Own, Segments
    <3>2. \A v, t \in Own(pieces, w) : v..t \subseteq Own(pieces, w)
      BY <1>1, <1>2 DEF Divides
    <3> QED
      BY <1>2, <3>1, <3>2
  <2>3. SizeOf(own) <= Vram[w]
    BY <1>1, <1>2 DEF Divides
  <2> HIDE DEF own
  <2>4. SizeOf(start..s) <= Vram[w]
    <3>1. SizeOf(start..s) \in Nat /\ SizeOf(own) \in Nat /\ SizeOf(start..s) <= SizeOf(own)
      BY <2>2, SizesGrow
    <3>2. Vram[w] \in Nat
      BY <1>2, SizesAssumption
    <3> QED
      BY <2>3, <3>1, <3>2
  <2>5. s - start + 1 \in 0..(NumSegments - start) /\ start + (s - start + 1) - 1 = s
    BY <1>2, <2>1
  <2>6. s - start + 1 <= max
    BY <1>3, <2>4, <2>5
  <2> QED
    BY <1>2, <1>3, <2>1, <2>6
<1>5. max > 0
  BY <1>2, <1>3, <1>4
<1>6. rest \in [(start + max)..(NumSegments - 1) -> A \ {w}]
  <2>1. ASSUME NEW s \in (start + max)..(NumSegments - 1) PROVE pieces[s] \in A \ {w}
    <3>1. s \in start..(NumSegments - 1)
      BY <1>2, <1>3
    <3>2. pieces[s] \in A
      BY <1>1, <3>1 DEF Divides
    <3>3. pieces[s] # w
      BY <1>2, <1>3, <1>4, <3>1 DEF Own
    <3> QED
      BY <3>2, <3>3
  <2> QED
    BY <2>1
<1>7. ASSUME NEW v \in Workers
      PROVE  /\ SizeOf(Own(rest, v)) <= Vram[v]
             /\ \A s, t \in Own(rest, v) : s..t \subseteq Own(rest, v)
  <2>1. Own(rest, v) = Own(pieces, v) \cap (start + max)..(NumSegments - 1)
    BY <1>2, <1>3 DEF Own
  <2>2. /\ SizeOf(Own(pieces, v)) <= Vram[v]
        /\ \A s, t \in Own(pieces, v) : s..t \subseteq Own(pieces, v)
    BY <1>1 DEF Divides
  <2>3. Own(pieces, v) \in SUBSET Segments
    BY <1>2 DEF Own, Segments
  <2> HIDE DEF rest
  <2>4. /\ SizeOf(Own(rest, v)) \in Nat /\ SizeOf(Own(pieces, v)) \in Nat
        /\ SizeOf(Own(rest, v)) <= SizeOf(Own(pieces, v))
    BY <2>1, <2>3, SizesGrow
  <2>5. Vram[v] \in Nat
    BY SizesAssumption
  <2>6. SizeOf(Own(rest, v)) <= Vram[v]
    BY <2>2, <2>4, <2>5
  <2>7. ASSUME NEW s \in Own(rest, v), NEW t \in Own(rest, v) PROVE s..t \subseteq Own(rest, v)
    BY <1>2, <1>3, <2>1, <2>2
  <2> QED
    BY <2>6, <2>7
<1>8. Divides(A \ {w}, start + max, rest)
  BY <1>6, <1>7 DEF Divides
<1> QED
  BY <1>2, <1>5, <1>8 DEF max, Divisible

\* A span before what others divide.
LEMMA Joined ==
  ASSUME NEW A \in SUBSET Workers, NEW start \in Segments, NEW w \in A,
         NEW n \in 1..(NumSegments - start), SizeOf(start..(start + n - 1)) <= Vram[w],
         Divisible(A \ {w}, start + n)
  PROVE  Divisible(A, start)
<1>1. PICK rest : Divides(A \ {w}, start + n, rest)
  BY DEF Divisible
<1> DEFINE pieces == [s \in start..(NumSegments - 1) |-> IF s < start + n THEN w ELSE rest[s]]
<1>2. start \in Nat /\ NumSegments \in Nat /\ DOMAIN rest = (start + n)..(NumSegments - 1)
  BY <1>1, SegmentsAssumption DEF Segments, Divides
<1>3. \A s \in (start + n)..(NumSegments - 1) : rest[s] \in A \ {w}
  BY <1>1 DEF Divides
<1>4. pieces \in [start..(NumSegments - 1) -> A]
  BY <1>2, <1>3
<1>5. Own(pieces, w) = start..(start + n - 1)
  BY <1>2, <1>3 DEF Own
<1>6. \A v \in Workers \ {w} : Own(pieces, v) = Own(rest, v)
  BY <1>2, <1>3 DEF Own
<1> HIDE DEF pieces
<1>7. \A v \in Workers \ {w} :
          /\ SizeOf(Own(rest, v)) <= Vram[v]
          /\ \A s, t \in Own(rest, v) : s..t \subseteq Own(rest, v)
  BY <1>1 DEF Divides
<1>8. \A s, t \in start..(start + n - 1) : s..t \subseteq start..(start + n - 1)
  BY <1>2
<1>9. Divides(A, start, pieces)
  BY <1>4, <1>5, <1>6, <1>7, <1>8 DEF Divides
<1> QED
  BY <1>9 DEF Divisible

\* A span before a route.
LEMMA Prefixed ==
  ASSUME NEW A \in SUBSET Workers, NEW start \in Segments, NEW span, SpanSound(A, span),
         span.first = start, NEW suffix,
         RouteSound(A \ {span.worker}, suffix, span.last + 1)
  PROVE  RouteSound(A, <<span>> \o suffix, start)
<1> DEFINE route == <<span>> \o suffix
<1>1. /\ suffix \in Seq(Spans) /\ Len(suffix) \in Nat /\ span \in Spans
      /\ start \in Nat /\ start # NumSegments
  BY SegmentsAssumption DEF RouteSound, SpanSound, Segments
<1>2. /\ route \in Seq(Spans) /\ Len(route) = Len(suffix) + 1 /\ route[1] = span
      /\ \A i \in 1..Len(suffix) : route[i + 1] = suffix[i]
  <2>1. <<span>> \in Seq(Spans) /\ Len(<<span>>) = 1
    BY <1>1
  <2> QED
    BY <1>1, <2>1, ConcatProperties
<1> HIDE DEF route
<1>3. route # <<>>
  BY <1>1, <1>2
<1>4. ASSUME NEW i \in 1..Len(route), i # 1
      PROVE  i - 1 \in 1..Len(suffix) /\ route[i] = suffix[i - 1]
  <2>1. i - 1 \in 1..Len(suffix) /\ (i - 1) + 1 = i
    BY <1>1, <1>2, <1>4
  <2> QED
    BY <1>2, <2>1
<1>5. \A i \in 1..Len(suffix) : SpanSound(A, suffix[i]) /\ suffix[i].worker # span.worker
  BY DEF RouteSound, SpanSound
<1>6. \A i \in 1..Len(route) : SpanSound(A, route[i])
  BY <1>2, <1>4, <1>5
<1>7. Len(route) \in 1..Len(route)
  BY <1>1, <1>2
<1>8. route[Len(route)].last = NumSegments - 1
  <2>1. CASE suffix = <<>>
    <3>1. span.last + 1 = NumSegments /\ Len(route) = 1
      BY <1>1, <1>2, <2>1 DEF RouteSound
    <3>2. span.last \in Int
      BY <1>1, SegmentsAssumption DEF Spans, Segments
    <3>3. span.last = NumSegments - 1
      BY <3>1, <3>2, SegmentsAssumption
    <3>4. route[Len(route)] = span
      BY <1>2, <3>1, Zenon
    <3> QED
      BY <3>3, <3>4, Zenon
  <2>2. CASE suffix # <<>>
    <3>1. Len(route) # 1 /\ Len(route) - 1 = Len(suffix)
      BY <1>1, <1>2, <2>2
    <3>2. suffix[Len(suffix)].last = NumSegments - 1
      BY <2>2 DEF RouteSound
    <3> QED
      BY <1>4, <1>7, <3>1, <3>2
  <2> QED
    BY <2>1, <2>2
<1>9. ASSUME NEW i \in 1..Len(route), i > 1 PROVE route[i].first = route[i - 1].last + 1
  <2>1. i - 1 \in 1..Len(suffix) /\ route[i] = suffix[i - 1] /\ suffix # <<>>
    BY <1>1, <1>4, <1>9
  <2>2. CASE i - 1 = 1
    BY <1>2, <2>1, <2>2 DEF RouteSound
  <2>3. CASE i - 1 > 1
    <3>1. i - 1 \in 1..Len(route) /\ i - 1 # 1
      BY <1>1, <1>2, <2>1, <2>3
    <3>2. route[i - 1] = suffix[(i - 1) - 1]
      BY <1>4, <3>1
    <3>3. suffix[i - 1].first = suffix[(i - 1) - 1].last + 1
      BY <2>1, <2>3 DEF RouteSound
    <3> QED
      BY <2>1, <3>2, <3>3
  <2> QED
    BY <2>1, <2>2, <2>3
<1>10. ASSUME NEW i \in 1..Len(route), NEW j \in 1..Len(route), route[i].worker = route[j].worker
       PROVE  i = j
  <2>1. CASE i = 1
    BY <1>2, <1>4, <1>5, <1>10, <2>1
  <2>2. CASE j = 1
    BY <1>2, <1>4, <1>5, <1>10, <2>2
  <2>3. CASE i # 1 /\ j # 1
    <3>1. /\ i - 1 \in 1..Len(suffix) /\ j - 1 \in 1..Len(suffix)
          /\ suffix[i - 1].worker = suffix[j - 1].worker
      BY <1>4, <1>10, <2>3
    <3>2. i - 1 = j - 1
      BY <3>1 DEF RouteSound
    <3> QED
      BY <3>2
  <2> QED
    BY <2>1, <2>2, <2>3
<1> QED
  BY <1>1, <1>2, <1>3, <1>6, <1>8, <1>9, <1>10 DEF RouteSound, route

\* Workers that a search may use.
Free(p, used) == {w \in Workers \ used : p[w] = "idle"}

\* What a candidate can take is a span of its own.
LEMMA CandidateSound ==
  ASSUME NEW p, NEW start \in Segments, NEW used, NEW w \in Candidates(p, start, used)
  PROVE  LET A == Free(p, used)
             span == SpanOf(w, start)
             max == computeMaximumSpan(w, start)
         IN  /\ w \in A /\ SpanSound(A, span) /\ span.worker = w /\ span.first = start
             /\ max \in 1..(NumSegments - start) /\ span.last + 1 = start + max
             /\ SizeOf(start..(start + max - 1)) <= Vram[w]
<1> DEFINE A == Free(p, used)
           max == computeMaximumSpan(w, start)
<1>1. /\ w \in Workers \ used /\ p[w] = "idle"
      /\ SpanOf(w, start) \in Spans /\ SpanOf(w, start).worker = w
      /\ SpanOf(w, start).first = start /\ start <= SpanOf(w, start).last
      /\ SpanOf(w, start).last + 1 = start + max
  BY CandidateSpan
<1>2. w \in A
  BY <1>1 DEF Free
<1>3. max > 0 /\ SpanOf(w, start).last = start + max - 1
  BY DEF Candidates, SpanOf
<1>4. max \in 0..(NumSegments - start) /\ SizeOf(start..(start + max - 1)) <= Vram[w]
  BY <1>1, MaximumSpan
<1> HIDE DEF max
<1>5. SpanSound(A, SpanOf(w, start))
  BY <1>1, <1>2, <1>3, <1>4 DEF SpanSound
<1>6. max \in 1..(NumSegments - start)
  BY <1>3, <1>4, SegmentsAssumption DEF Segments
<1> QED
  BY <1>1, <1>2, <1>4, <1>5, <1>6 DEF max

LEMMA NoRouteIsNone == \A route \in Seq(Spans) : route # NoRoute
BY NoRouteAssumption

\* What a search has to find.
Complete(p, f, start, used) ==
    LET route == f[start][used] IN
    /\ route # NoRoute <=> Divisible(Free(p, used), start)
    /\ route # NoRoute => RouteSound(Free(p, used), route, start)

LEMMA SearchAtEnd ==
  ASSUME NEW p, NEW l, NEW f, Searches(p, l, f), NEW used \in SUBSET Workers
  PROVE  Complete(p, f, NumSegments, used)
<1> DEFINE A == Free(p, used)
           pieces == [s \in NumSegments..(NumSegments - 1) |-> 0]
<1>1. NumSegments \in Nat /\ NumSegments \in 0..NumSegments /\ NumSegments..(NumSegments - 1) = {}
  BY SegmentsAssumption
<1>2. f[NumSegments][used] = <<>>
  BY <1>1 DEF Searches, SearchFrom, Found
<1>3. pieces \in [NumSegments..(NumSegments - 1) -> A] /\ \A w : Own(pieces, w) = {}
  BY <1>1 DEF Own
<1> HIDE DEF pieces
<1>4. Divides(A, NumSegments, pieces)
  <2>1. \A w \in Workers : 0 <= Vram[w]
    BY SizesAssumption
  <2>2. \A w \in Workers : SizeOf(Own(pieces, w)) <= Vram[w]
    BY <1>3, <2>1, SizeOfNone, Zenon
  <2>3. \A w \in Workers : \A s, t \in Own(pieces, w) : s..t \subseteq Own(pieces, w)
    BY <1>3
  <2> QED
    BY <1>3, <2>2, <2>3 DEF Divides
<1>5. RouteSound(A, <<>>, NumSegments)
  BY DEF RouteSound
<1>6. <<>> # NoRoute
  <2>1. <<>> \in Seq(Spans)
    OBVIOUS
  <2> QED
    BY <2>1, NoRouteIsNone, Zenon
<1> QED
  BY <1>2, <1>4, <1>5, <1>6 DEF Complete, Divisible

LEMMA SearchStep ==
  ASSUME NEW p, NEW l, NEW f, Searches(p, l, f), NEW used \in SUBSET Workers,
         NEW start \in Segments,
         \A t \in (start + 1)..NumSegments : \A u \in SUBSET Workers : Complete(p, f, t, u)
  PROVE  Complete(p, f, start, used)
<1> DEFINE A == Free(p, used)
           viable == Viable(p, f, start, used)
           selected == Best(viable, l, start)
<1>1. start \in Nat /\ start \in 0..NumSegments /\ start # NumSegments /\ A \in SUBSET Workers
  BY SegmentsAssumption DEF Segments, Free
<1>2. f[start][used] = IF viable = {} THEN NoRoute
                       ELSE <<SpanOf(selected, start)>> \o After(f, start, used, selected)
  <2>1. f[start] = SearchFrom(p, l, f, start)
    BY <1>1 DEF Searches
  <2>2. f[start][used] = Found(p, l, f, start, used)
    BY <2>1 DEF SearchFrom
  <2> QED
    BY <1>1, <2>2, Zenon DEF Found
<1>3. ASSUME NEW w \in Candidates(p, start, used)
      PROVE  LET route == After(f, start, used, w)
                 next == SpanOf(w, start).last + 1
             IN  /\ route # NoRoute <=> Divisible(A \ {w}, next)
                 /\ route # NoRoute => RouteSound(A \ {w}, route, next)
  <2> DEFINE next == SpanOf(w, start).last + 1
             u == used \cup {w}
  <2>1. next \in (start + 1)..NumSegments /\ w \in Workers
    BY CandidateSpan
  <2>2. u \in SUBSET Workers /\ Free(p, u) = A \ {w}
    BY <2>1 DEF Free
  <2> HIDE DEF next, u, A
  <2>3. Complete(p, f, next, u)
    BY <2>1, <2>2
  <2>4. After(f, start, used, w) = f[next][u]
    BY DEF After, next, u
  <2>5. /\ f[next][u] # NoRoute <=> Divisible(A \ {w}, next)
        /\ f[next][u] # NoRoute => RouteSound(A \ {w}, f[next][u], next)
    BY <2>2, <2>3, Zenon DEF Complete
  <2> QED
    BY <2>4, <2>5, Zenon DEF next
<1>4. ASSUME NEW w \in Candidates(p, start, used)
      PROVE  /\ w \in A /\ SpanSound(A, SpanOf(w, start)) /\ SpanOf(w, start).worker = w
             /\ SpanOf(w, start).first = start
             /\ computeMaximumSpan(w, start) \in 1..(NumSegments - start)
             /\ SpanOf(w, start).last + 1 = start + computeMaximumSpan(w, start)
             /\ SizeOf(start..(start + computeMaximumSpan(w, start) - 1)) <= Vram[w]
  BY CandidateSound
<1>5. viable # {} => Divisible(A, start)
  <2> SUFFICES ASSUME NEW w \in viable PROVE Divisible(A, start)
    OBVIOUS
  <2>1. w \in Candidates(p, start, used) /\ After(f, start, used, w) # NoRoute
    BY DEF Viable
  <2> DEFINE max == computeMaximumSpan(w, start)
  <2>2. /\ w \in A /\ max \in 1..(NumSegments - start)
        /\ SpanOf(w, start).last + 1 = start + max
        /\ SizeOf(start..(start + max - 1)) <= Vram[w]
    BY <1>4, <2>1
  <2>3. Divisible(A \ {w}, start + max)
    BY <1>3, <2>1, <2>2
  <2> HIDE DEF max, A
  <2> QED
    BY <1>1, <2>2, <2>3, Joined
<1>6. Divisible(A, start) => viable # {}
  <2> SUFFICES ASSUME Divisible(A, start) PROVE viable # {}
    OBVIOUS
  <2>1. PICK w \in A : computeMaximumSpan(w, start) > 0
                       /\ Divisible(A \ {w}, start + computeMaximumSpan(w, start))
    BY <1>1, LongestSpan
  <2>2. w \in Candidates(p, start, used)
    BY <2>1 DEF Free, Candidates
  <2>3. After(f, start, used, w) # NoRoute
    BY <1>3, <1>4, <2>1, <2>2
  <2> QED
    BY <2>2, <2>3 DEF Viable
<1>7. viable # {} => f[start][used] # NoRoute /\ RouteSound(A, f[start][used], start)
  <2> SUFFICES ASSUME viable # {}
               PROVE  f[start][used] # NoRoute /\ RouteSound(A, f[start][used], start)
    OBVIOUS
  <2>1. selected \in viable
    <3>1. viable \in SUBSET Workers
      BY DEF Viable, Candidates
    <3> HIDE DEF viable
    <3> QED
      BY <3>1, BestIsOne
  <2>2. selected \in Candidates(p, start, used) /\ After(f, start, used, selected) # NoRoute
    BY <2>1 DEF Viable
  <2> HIDE DEF selected
  <2> DEFINE span == SpanOf(selected, start)
             suffix == After(f, start, used, selected)
  <2>3. SpanSound(A, span) /\ span.worker = selected /\ span.first = start
    BY <1>4, <2>2
  <2>4. RouteSound(A \ {selected}, suffix, span.last + 1)
    BY <1>3, <2>2
  <2>5. f[start][used] = <<span>> \o suffix
    BY <1>2
  <2> HIDE DEF span, suffix, A
  <2>6. RouteSound(A, <<span>> \o suffix, start)
    BY <1>1, <2>3, <2>4, Prefixed
  <2>7. <<span>> \o suffix # NoRoute
    BY <2>6, NoRouteIsNone DEF RouteSound
  <2> QED
    BY <2>5, <2>6, <2>7, Zenon
<1>8. viable = {} => f[start][used] = NoRoute
  BY <1>2
<1> HIDE DEF viable
<1> QED
  BY <1>5, <1>6, <1>7, <1>8 DEF Complete

LEMMA SearchComplete ==
  ASSUME NEW p, NEW l, NEW f, Searches(p, l, f)
  PROVE  \A start \in 0..NumSegments : \A used \in SUBSET Workers : Complete(p, f, start, used)
<1> DEFINE I == {n \in Nat : \A start \in 0..NumSegments : start >= NumSegments - n =>
                    \A used \in SUBSET Workers : Complete(p, f, start, used)}
<1>1. NumSegments \in Nat
  BY SegmentsAssumption
<1>2. 0 \in I
  <2> SUFFICES ASSUME NEW start \in 0..NumSegments, start >= NumSegments - 0,
                      NEW used \in SUBSET Workers
               PROVE  Complete(p, f, start, used)
    OBVIOUS
  <2>1. start = NumSegments
    BY <1>1
  <2> QED
    BY <2>1, SearchAtEnd
<1>3. ASSUME NEW n \in Nat, n \in I PROVE n + 1 \in I
  <2> SUFFICES ASSUME NEW start \in 0..NumSegments, start >= NumSegments - (n + 1),
                      NEW used \in SUBSET Workers
               PROVE  Complete(p, f, start, used)
    OBVIOUS
  <2>1. CASE start = NumSegments
    BY <2>1, SearchAtEnd
  <2>2. CASE start # NumSegments
    <3>1. start \in Segments
      BY <1>1, <2>2 DEF Segments
    <3>2. ASSUME NEW t \in (start + 1)..NumSegments, NEW u \in SUBSET Workers
          PROVE  Complete(p, f, t, u)
      <4>1. t \in 0..NumSegments /\ t >= NumSegments - n
        BY <1>1
      <4> QED
        BY <1>3, <4>1
    <3> QED
      BY <3>1, <3>2, SearchStep
  <2> QED
    BY <2>1, <2>2
<1>4. NumSegments \in I
  <2> HIDE DEF I
  <2> QED
    BY <1>1, <1>2, <1>3, Induction
<1>5. \A start \in 0..NumSegments : start >= NumSegments - NumSegments
  BY <1>1
<1> QED
  BY <1>4, <1>5

\* computeRoute() finds a route exactly where there is one.
LEMMA RouterComplete ==
  ASSUME NEW p, NEW l, NEW start \in Segments
  PROVE  LET route == computeRoute(p, l, start) IN
         /\ route = NoRoute <=> ~Coverable(p, start)
         /\ route # NoRoute => Covers(p, route, start)
<1> DEFINE route == computeRoute(p, l, start)
           A == Free(p, {})
<1>1. PICK f : Searches(p, l, f) /\ route = f[start][{}]
  BY RouteIsFound
<1>2. start \in 0..NumSegments /\ start # NumSegments /\ {} \in SUBSET Workers
  BY SegmentsAssumption DEF Segments
<1>3. Complete(p, f, start, {})
  BY <1>1, <1>2, SearchComplete
<1> HIDE DEF route
<1>4. /\ route # NoRoute <=> Divisible(A, start)
      /\ route # NoRoute => RouteSound(A, route, start)
  BY <1>1, <1>3 DEF Complete
<1>5. A = {w \in Workers : p[w] = "idle"}
  BY DEF Free
<1>6. Divisible(A, start) <=> Coverable(p, start)
  BY <1>5 DEF Divisible, Divides, Own, Coverable
<1>7. ASSUME RouteSound(A, route, start) PROVE Covers(p, route, start)
  <2>1. /\ route \in Seq(Spans) /\ route # <<>> /\ DOMAIN route = 1..Len(route)
        /\ Head(route) = route[1] /\ Last(route) = route[Len(route)]
    BY <1>2, <1>7 DEF RouteSound, Last
  <2>2. Head(route).first = start /\ Last(route).last = NumSegments - 1
    BY <1>7, <2>1 DEF RouteSound
  <2>3. ASSUME NEW i \in DOMAIN route
        PROVE  /\ route[i].first <= route[i].last
               /\ p[route[i].worker] = "idle"
               /\ SizeOf(route[i].first..route[i].last) <= Vram[route[i].worker]
               /\ i > 1 => route[i].first = route[i - 1].last + 1
               /\ \A j \in DOMAIN route : route[i].worker = route[j].worker => i = j
    <3>1. SpanSound(A, route[i])
      BY <1>7, <2>1 DEF RouteSound
    <3>2. i > 1 => route[i].first = route[i - 1].last + 1
      BY <1>7, <2>1 DEF RouteSound
    <3>3. \A j \in DOMAIN route : route[i].worker = route[j].worker => i = j
      BY <1>7, <2>1 DEF RouteSound
    <3> QED
      BY <1>5, <3>1, <3>2, <3>3 DEF SpanSound
  <2> QED
    BY <2>1, <2>2, <2>3 DEF Covers
<1> QED
  BY <1>4, <1>6, <1>7 DEF route

-----------------------------------------------------------------------------
(* Where a run stands, from which ResumesAtCheckpoint follows.  The routes  *)
(* that a span pipeline follows are those of RouteComplete.                 *)

USE SegmentsAssumption

\* k is behind the newest checkpoint in saved, the final segment's aside.
Newest(saved, k) ==
    /\ saved \subseteq Segments /\ k \in Segments
    /\ \A s \in saved : s < Final => s < k
    /\ k = 0 \/ k - 1 \in saved

\* What executes is a span of a route that leads to the end without a gap.
OnRoute(x) ==
    /\ x.route \in Seq(Spans) /\ x.at \in DOMAIN x.route
    /\ x.first = x.route[x.at].first /\ x.last = x.route[x.at].last
    /\ \A i \in DOMAIN x.route :
          /\ x.route[i].first <= x.route[i].last
          /\ i > 1 => x.route[i].first = x.route[i - 1].last + 1
    /\ x.route[Len(x.route)].last = Final

\* The segment pipeline looks at the segment it is at, the span pipeline at the one it resumes at.
SegmentStands(x, saved) ==
    /\ x.pc # "retry"
    /\ x.pc = "idle" => saved = {}
    /\ x.pc \in {"executing", "delay"} => Newest(saved, x.first)
    /\ x.pc = "executing" => x.last = x.first
    /\ x.pc = "next" => x.last \in saved /\ Newest(saved, x.last + 1)

SpanStands(x, saved) ==
    /\ x.pc # "next"
    /\ x.pc = "idle" => saved \in {{}, {0}}
    /\ x.pc = "delay" => Newest(saved, x.resume)
    /\ x.pc = "executing" => OnRoute(x) /\ x.resume <= x.first /\ Newest(saved, x.first)
    /\ x.pc = "retry" => \E k \in Segments : Newest(saved, k) /\ x.resume <= k
    /\ x.pc \in {"executing", "retry"} => x.resume \in Segments

Stands(x, saved) ==
    /\ x.pc \in Ended => saved = {}
    /\ strategy = "segments" => SegmentStands(x, saved)
    /\ strategy = "spans" => SpanStands(x, saved)

ResumeInv ==
    /\ strategy \in {"segments", "spans"}
    /\ checkpoints = [r \in Requests |-> checkpoints[r]]
    /\ \A r \in Requests : Stands(runs[r], checkpoints[r])

LEMMA SegmentRange == /\ Final \in Segments /\ Final \in Nat
                      /\ \A k \in Segments : k \in Nat /\ k <= Final
                      /\ \A k \in Nat : k <= Final => k \in Segments
BY DEF Final, Segments

\* ResumeAfter finds it.
LEMMA NewestResumes ==
  ASSUME NEW saved, NEW k, Newest(saved, k)
  PROVE  ResumeAfter(saved) = k
<1> DEFINE S == {-1} \cup {s \in saved : s < Final}
<1>1. k \in Nat /\ k <= Final /\ Final \in Nat /\ saved \subseteq Nat
  BY SegmentRange DEF Newest
<1>2. k - 1 \in S
  BY <1>1 DEF Newest
<1>3. \A y \in S : y \in Int /\ y <= k - 1
  BY <1>1 DEF Newest
<1>4. \E x \in S : \A y \in S : x >= y
  BY <1>1, <1>2, <1>3
<1> HIDE DEF S
<1>5. Max(S) \in S /\ \A y \in S : Max(S) >= y
  BY <1>4, Zenon DEF Max
<1>6. Max(S) = k - 1
  BY <1>1, <1>2, <1>3, <1>5
<1> QED
  BY <1>1, <1>6 DEF ResumeAfter, S

LEMMA SegmentOrder ==
  ASSUME NEW k \in Segments
  PROVE  k <= k
BY SegmentRange

LEMMA NothingSaved == Newest({}, 0)
BY SegmentRange DEF Newest

\* What a request may have been given with.
LEMMA GivenNewest ==
  ASSUME NEW saved \in {{}, {0}}
  PROVE  \E k \in Segments : Newest(saved, k)
<1>1. CASE saved = {} \/ Final = 0
  <2>1. Newest(saved, 0)
    BY <1>1, SegmentRange DEF Newest
  <2> QED
    BY <2>1 DEF Newest
<1>2. CASE saved = {0} /\ Final # 0
  <2>1. Newest(saved, 1)
    BY <1>2, SegmentRange DEF Newest
  <2> QED
    BY <2>1 DEF Newest
<1> QED
  BY <1>1, <1>2

\* A commit before the final segment moves it behind what was executed.
LEMMA AddedNewest ==
  ASSUME NEW saved, NEW first, NEW last \in Segments, Newest(saved, first), first <= last, last # Final
  PROVE  Newest(saved \cup {last}, last + 1)
<1> DEFINE new == saved \cup {last}
<1>1. first \in Nat /\ last \in Nat /\ last + 1 \in Segments
  BY SegmentRange DEF Newest
<1>2. ASSUME NEW s \in new, s < Final PROVE s < last + 1
  <2>1. s \in Nat
    BY <1>1, SegmentRange DEF Newest
  <2> QED
    BY <1>1, <1>2, <2>1 DEF Newest
<1>3. (last + 1) - 1 = last /\ new \subseteq Segments
  BY <1>1 DEF Newest
<1> QED
  BY <1>1, <1>2, <1>3 DEF Newest

LEMMA SavedNewest ==
  ASSUME NEW saved, NEW run, Newest(saved, run.first), run.last \in Segments,
         run.first <= run.last, run.last # Final
  PROVE  Newest(Saved(run, saved), run.last + 1) /\ run.last \in Saved(run, saved)
<1>1. Saved(run, saved) = saved \cup {run.last}
  BY DEF Saved
<1> QED
  BY <1>1, AddedNewest

-----------------------------------------------------------------------------
(* Where an attempt leads.                                                 *)

\* Continue leaves the run and its checkpoints so.
Lands(next, saved) == Stands(next.run, IF next.run.pc \in Ended THEN {} ELSE saved)

\* Where an attempt begins.
Ready(run, saved) ==
    /\ strategy = "segments" => Newest(saved, run.first)
    /\ strategy = "spans" => Newest(saved, run.resume)

LEMMA OffLands ==
  ASSUME NEW p, NEW run, RunShape(run), NEW saved,
         NEW pc \in Ended \cup {"delay"}, pc = "delay" => Ready(run, saved)
  PROVE  Lands([pool |-> p, run |-> Off(run, pc)], saved)
<1>1. CASE pc \in Ended
  <2>1. Off(run, pc).pc = pc
    BY <1>1 DEF Off, Idle
  <2> QED
    BY <1>1, <2>1 DEF Lands, Stands, SegmentStands, SpanStands, Ended
<1>2. CASE pc = "delay"
  <2>1. /\ Off(run, pc).pc = "delay" /\ Off(run, pc).first = run.first
        /\ Off(run, pc).resume = run.resume
    BY <1>2 DEF Off, RunShape, Ended
  <2> QED
    BY <1>2, <2>1 DEF Lands, Stands, SegmentStands, SpanStands, Ended, Ready
<1> QED
  BY <1>1, <1>2

LEMMA NoneLeftLands ==
  ASSUME NEW p, NEW run, RunShape(run), NEW saved, Ready(run, saved), NEW next \in NoneLeft(p, run)
  PROVE  Lands(next, saved)
<1>1. PICK pc \in Ended \cup {"delay"} : next = [pool |-> p, run |-> Off(run, pc)]
  BY DEF NoneLeft, Ended
<1> QED
  BY <1>1, OffLands

LEMMA OnFields ==
  ASSUME NEW run, RunShape(run), NEW w, NEW first, NEW last
  PROVE  /\ On(run, w, first, last).pc = "executing"
         /\ On(run, w, first, last).first = first /\ On(run, w, first, last).last = last
         /\ On(run, w, first, last).resume = run.resume
         /\ On(run, w, first, last).route = run.route /\ On(run, w, first, last).at = run.at
BY DEF On, RunShape

\* The worker of the next attempt executes where the run is to go on.
LEMMA TryLands ==
  ASSUME RouteComplete, strategy \in {"segments", "spans"}, NEW p, strategy = "spans" => p = pool,
         NEW run, RunShape(run), NEW saved, Ready(run, saved), NEW next \in Try(p, run)
  PROVE  Lands(next, saved)
<1>1. CASE strategy = "segments"
  <2> DEFINE fit == getAvailableWorker(p, Size[run.first])
  <2>1. CASE fit = {}
    BY <1>1, <2>1, NoneLeftLands DEF Try, TrySegment
  <2>2. CASE fit # {}
    <3>1. PICK w \in fit : next = [pool |-> markBusy(p, w), run |-> On(run, w, run.first, run.first)]
      BY <1>1, <2>2 DEF Try, TrySegment
    <3> QED
      BY <1>1, <3>1, OnFields DEF Lands, Stands, SegmentStands, Ready, Ended
  <2> QED
    BY <2>1, <2>2
<1>2. CASE strategy = "spans"
  <2> DEFINE route == computeRoute(pool, ledger, run.resume)
             new == [run EXCEPT !.route = route, !.at = 1]
  <2>1. CASE route = NoRoute
    BY <1>2, <2>1, NoneLeftLands DEF Try, TryRoute
  <2>2. CASE route # NoRoute
    <3>1. Newest(saved, run.resume) /\ run.resume \in Segments
      BY <1>2 DEF Ready, Newest
    <3>2. Covers(pool, route, run.resume)
      BY <2>2, <3>1 DEF RouteComplete
    <3>3. /\ route \in Seq(Spans) /\ 1 \in DOMAIN route /\ route[1].first = run.resume
          /\ route[Len(route)].last = Final
      BY <3>2 DEF Covers, Last, Final
    <3>4. RunShape(new) /\ new.route = route /\ new.at = 1 /\ new.resume = run.resume
      BY DEF RunShape
    <3>5. next = [pool |-> markBusy(p, route[1].worker),
                  run |-> On(new, route[1].worker, route[1].first, route[1].last)]
      BY <1>2, <2>2, <3>4 DEF Try, TryRoute, StartSpan
    <3> HIDE DEF new, route
    <3>6. /\ next.run.pc = "executing" /\ next.run.first = run.resume /\ next.run.resume = run.resume
          /\ next.run.route = route /\ next.run.at = 1 /\ next.run.last = route[1].last
      BY <3>3, <3>4, <3>5, OnFields
    <3>7. OnRoute(next.run)
      <4>1. \A i \in DOMAIN route :
              /\ route[i].first <= route[i].last
              /\ i > 1 => route[i].first = route[i - 1].last + 1
        BY <3>2 DEF Covers
      <4> QED
        BY <3>3, <3>6, <4>1 DEF OnRoute
    <3>8. run.resume <= run.resume
      BY <3>1, SegmentOrder
    <3> QED
      BY <1>2, <3>1, <3>6, <3>7, <3>8 DEF Lands, Stands, SpanStands, Ended
  <2> QED
    BY <2>1, <2>2
<1> QED
  BY <1>1, <1>2

\* The next span of the route, when this one was not the last.
LEMMA NextSpanLands ==
  ASSUME strategy = "spans", NEW p, NEW run, RunShape(run), NEW saved, OnRoute(run),
         run.resume \in Segments, run.resume <= run.first, Newest(saved, run.first),
         run.last # Final,
         NEW next \in StartSpan(p, [run EXCEPT !.at = @ + 1])
  PROVE  Lands(next, Saved(run, saved))
<1> DEFINE new == [run EXCEPT !.at = @ + 1]
           i == run.at
           span == run.route[i + 1]
<1>1. /\ run.route \in Seq(Spans) /\ i \in 1 .. Len(run.route) /\ Len(run.route) \in Nat
      /\ i # Len(run.route)
  BY DEF OnRoute
<1>2. i + 1 \in DOMAIN run.route /\ i + 1 > 1 /\ i \in DOMAIN run.route /\ (i + 1) - 1 = i
  BY <1>1
<1>3. span.first = run.last + 1 /\ span \in Spans /\ run.route[i] \in Spans
  BY <1>1, <1>2 DEF OnRoute
<1>4. run.last \in Segments /\ run.first \in Segments /\ run.first <= run.last
  BY <1>1, <1>3 DEF OnRoute, Spans
<1>5. Newest(Saved(run, saved), run.last + 1)
  BY <1>4, SavedNewest
<1>6. RunShape(new) /\ new.route = run.route /\ new.at = i + 1 /\ new.resume = run.resume
  BY DEF RunShape
<1>7. next = [pool |-> markBusy(p, span.worker), run |-> On(new, span.worker, span.first, span.last)]
  BY <1>6 DEF StartSpan
<1> HIDE DEF new
<1>8. /\ next.run.pc = "executing" /\ next.run.first = run.last + 1 /\ next.run.resume = run.resume
      /\ next.run.route = run.route /\ next.run.at = i + 1
      /\ next.run.first = span.first /\ next.run.last = span.last
  BY <1>3, <1>6, <1>7, OnFields
<1>9. OnRoute(next.run)
  BY <1>2, <1>8 DEF OnRoute
<1>10. run.resume <= run.last + 1
  BY <1>4, SegmentRange
<1> QED
  BY <1>5, <1>8, <1>9, <1>10 DEF Lands, Stands, SpanStands, Ended

-----------------------------------------------------------------------------
(* Each action leaves every run where it should stand.                     *)

LEMMA ContinueStands ==
  ASSUME Shapes, ResumeInv, NEW r \in Requests, NEW nexts, NEW saved,
         \A next \in nexts : Lands(next, saved), Continue(r, nexts, saved), strategy' = strategy
  PROVE  ResumeInv'
<1>1. PICK next \in nexts :
        /\ runs' = [runs EXCEPT ![r] = next.run]
        /\ checkpoints' = [checkpoints EXCEPT ![r] = IF next.run.pc \in Ended THEN {} ELSE saved]
  BY DEF Continue
<1>2. /\ runs'[r] = next.run /\ checkpoints'[r] = IF next.run.pc \in Ended THEN {} ELSE saved
      /\ \A s \in Requests \ {r} : runs'[s] = runs[s] /\ checkpoints'[s] = checkpoints[s]
      /\ checkpoints' = [s \in Requests |-> checkpoints'[s]]
  BY <1>1 DEF Shapes, ResumeInv
<1>3. ASSUME NEW s \in Requests PROVE Stands(runs[s], checkpoints[s])'
  <2>1. CASE s = r
    <3>1. Stands(next.run, IF next.run.pc \in Ended THEN {} ELSE saved)
      BY <1>1 DEF Lands
    <3> QED
      BY <1>2, <2>1, <3>1 DEF Stands
  <2>2. CASE s # r
    BY <1>2, <2>2 DEF Stands, ResumeInv
  <2> QED
    BY <2>1, <2>2
<1> QED
  BY <1>2, <1>3 DEF ResumeInv

LEMMA RunStepStands ==
  ASSUME Shapes, ResumeInv, RouteComplete, NEW r \in Requests, Submit(r) \/ RunStep(r)
  PROVE  ResumeInv'
<1> DEFINE run == runs[r]
           saved == checkpoints[r]
<1>1. RunShape(run) /\ Stands(run, saved) /\ strategy \in {"segments", "spans"}
  BY DEF Shapes, ResumeInv
<1>2. strategy' = strategy
  BY DEF Submit, RunStep, SegmentSucceeds, NextSegment, SegmentFails, SpanSucceeds, SpanFails,
         Reroute, DelayEnds
<1>3. CASE Submit(r)
  <2> DEFINE start == IF strategy = "segments" THEN 0 ELSE ResumeAfter(saved)
             new == [Idle EXCEPT !.resume = start, !.first = start]
  <2>1. RunShape(new) /\ new.resume = start /\ new.first = start
    BY DEF RunShape, Idle, PCs
  <2>2. Newest(saved, start)
    <3>1. CASE strategy = "segments"
      BY <1>1, <1>3, <3>1, NothingSaved DEF Stands, SegmentStands, Submit
    <3>2. CASE strategy = "spans"
      <4>1. PICK k \in Segments : Newest(saved, k)
        BY <1>1, <1>3, <3>2, GivenNewest DEF Stands, SpanStands, Submit
      <4> QED
        BY <3>2, <4>1, NewestResumes
    <3> QED
      BY <1>1, <3>1, <3>2
  <2>3. Continue(r, Try(pool, new), saved)
    BY <1>3 DEF Submit
  <2> HIDE DEF new, start, saved
  <2>4. Ready(new, saved)
    BY <2>1, <2>2 DEF Ready
  <2>5. \A next \in Try(pool, new) : Lands(next, saved)
    BY <1>1, <2>1, <2>4, TryLands
  <2> QED
    BY <1>2, <2>3, <2>5, ContinueStands
<1>4. CASE SegmentSucceeds(r)
  <2> DEFINE p == markIdle(pool, run.worker)
             pc == IF run.last = Final THEN "completed" ELSE "next"
             next == [pool |-> p, run |-> Off(run, pc)]
  <2>1. /\ Continue(r, {next}, Saved(run, saved))
        /\ strategy = "segments" /\ run.pc = "executing"
    BY <1>4 DEF SegmentSucceeds, Executing
  <2>2. Newest(saved, run.first) /\ run.last = run.first
    BY <1>1, <2>1 DEF Stands, SegmentStands
  <2>3. Lands(next, Saved(run, saved))
    <3>1. CASE run.last = Final
      <4> HIDE DEF p
      <4> QED
        BY <1>1, <3>1, OffLands DEF Ended
    <3>2. CASE run.last # Final
      <4>1. Off(run, "next").pc = "next" /\ Off(run, "next").last = run.last
        BY <1>1 DEF Off, RunShape, Ended
      <4>2. run.last \in Segments /\ run.first <= run.last
        BY <2>2, SegmentOrder DEF Newest
      <4>3. Newest(Saved(run, saved), run.last + 1) /\ run.last \in Saved(run, saved)
        BY <2>2, <3>2, <4>2, SavedNewest
      <4> QED
        BY <2>1, <3>2, <4>1, <4>3 DEF Lands, Stands, SegmentStands, Ended
    <3> QED
      BY <3>1, <3>2
  <2> HIDE DEF next
  <2> QED
    BY <1>2, <2>1, <2>3, ContinueStands
<1>5. CASE NextSegment(r)
  <2> DEFINE new == [run EXCEPT !.first = run.last + 1, !.attempt = 0]
             nexts == IF run.last \in saved THEN Try(pool, new)
                      ELSE {[pool |-> pool, run |-> Off(new, "failed")]}
  <2>1. Continue(r, nexts, saved) /\ run.pc = "next"
    BY <1>5 DEF NextSegment
  <2>2. strategy = "segments" /\ run.last \in saved /\ Newest(saved, run.last + 1)
    BY <1>1, <2>1 DEF Stands, SegmentStands, SpanStands
  <2>3. RunShape(new) /\ new.first = run.last + 1
    BY <1>1 DEF RunShape
  <2> HIDE DEF new, saved
  <2>4. Ready(new, saved)
    BY <2>2, <2>3 DEF Ready
  <2>5. \A next \in nexts : Lands(next, saved)
    BY <1>1, <2>2, <2>3, <2>4, TryLands
  <2> HIDE DEF nexts
  <2> QED
    BY <1>2, <2>1, <2>5, ContinueStands
<1>6. CASE SegmentFails(r)
  <2> DEFINE p == markDisconnected(pool, run.worker)
             new == [run EXCEPT !.attempt = @ + 1]
             nexts == IF run.attempt < MaxRetries THEN Try(p, new)
                      ELSE {[pool |-> p, run |-> Off(run, "failed")]}
  <2>1. Continue(r, nexts, saved) /\ run.pc = "executing" /\ strategy = "segments"
    BY <1>6 DEF SegmentFails, Executing
  <2>2. RunShape(new) /\ new.first = run.first
    BY <1>1 DEF RunShape
  <2>3. Ready(new, saved)
    BY <1>1, <2>1, <2>2 DEF Ready, Stands, SegmentStands
  <2> HIDE DEF new, p, saved
  <2>4. \A next \in nexts : Lands(next, saved)
    BY <1>1, <2>1, <2>2, <2>3, TryLands, OffLands DEF Ended
  <2> HIDE DEF nexts
  <2> QED
    BY <1>2, <2>1, <2>4, ContinueStands
<1>7. CASE SpanSucceeds(r)
  <2> DEFINE p == markIdle(pool, run.worker)
             nexts == IF run.last = Final THEN {[pool |-> p, run |-> Off(run, "completed")]}
                      ELSE StartSpan(p, [run EXCEPT !.at = @ + 1])
  <2>1. Continue(r, nexts, Saved(run, saved)) /\ run.pc = "executing" /\ strategy = "spans"
    BY <1>7 DEF SpanSucceeds, Executing
  <2>2. /\ OnRoute(run) /\ run.resume <= run.first /\ Newest(saved, run.first)
        /\ run.resume \in Segments
    BY <1>1, <2>1 DEF Stands, SpanStands
  <2> HIDE DEF p, run, saved
  <2>3. \A next \in nexts : Lands(next, Saved(run, saved))
    BY <1>1, <2>1, <2>2, NextSpanLands, OffLands DEF Ended
  <2> HIDE DEF nexts
  <2> QED
    BY <1>2, <2>1, <2>3, ContinueStands
<1>8. CASE SpanFails(r)
  <2> DEFINE p == markDisconnected(pool, run.worker)
             pc == IF run.attempt < MaxRetries THEN "retry" ELSE "failed"
             next == [pool |-> p, run |-> Off(run, pc)]
  <2>1. Continue(r, {next}, saved) /\ run.pc = "executing" /\ strategy = "spans"
    BY <1>8 DEF SpanFails, Executing
  <2>2. run.resume <= run.first /\ Newest(saved, run.first) /\ run.resume \in Segments
    BY <1>1, <2>1 DEF Stands, SpanStands
  <2>3. Lands(next, saved)
    <3>1. CASE pc = "retry"
      <4>1. Off(run, "retry").pc = "retry" /\ Off(run, "retry").resume = run.resume
        BY DEF Off, Idle, Ended
      <4>2. \E k \in Segments : Newest(saved, k) /\ run.resume <= k
        BY <2>2 DEF Newest
      <4> QED
        BY <2>1, <2>2, <3>1, <4>1, <4>2 DEF Lands, Stands, SpanStands, Ended
    <3>2. CASE pc = "failed"
      <4> HIDE DEF p
      <4> QED
        BY <1>1, <3>2, OffLands DEF Ended
    <3> QED
      BY <3>1, <3>2
  <2> HIDE DEF next
  <2> QED
    BY <1>2, <2>1, <2>3, ContinueStands
<1>9. CASE Reroute(r)
  <2> DEFINE latest == ResumeAfter(saved)
             new == [run EXCEPT !.attempt = @ + 1, !.resume = IF latest > @ THEN latest ELSE @]
  <2>1. Continue(r, Try(pool, new), saved) /\ run.pc = "retry"
    BY <1>9 DEF Reroute
  <2>2. strategy = "spans" /\ run.resume \in Segments
    BY <1>1, <2>1 DEF Stands, SegmentStands, SpanStands
  <2>3. PICK k \in Segments : Newest(saved, k) /\ run.resume <= k
    BY <1>1, <2>1, <2>2 DEF Stands, SpanStands
  <2>4. latest = k
    BY <2>3, NewestResumes
  <2>5. RunShape(new) /\ new.resume = IF latest > run.resume THEN latest ELSE run.resume
    BY <1>1 DEF RunShape
  <2> HIDE DEF new, latest, saved
  <2>6. new.resume = k
    <3>1. run.resume \in Nat /\ k \in Nat
      BY <2>2, <2>3, SegmentRange
    <3> HIDE DEF run
    <3> QED
      BY <2>3, <2>4, <2>5, <3>1
  <2>7. Ready(new, saved)
    BY <2>2, <2>3, <2>6 DEF Ready
  <2>8. \A next \in Try(pool, new) : Lands(next, saved)
    BY <1>1, <2>5, <2>7, TryLands
  <2> QED
    BY <1>2, <2>1, <2>8, ContinueStands
<1>10. CASE DelayEnds(r)
  <2> DEFINE new == [run EXCEPT !.attempt = @ + 1]
  <2>1. Continue(r, Try(pool, new), saved) /\ run.pc = "delay"
    BY <1>10 DEF DelayEnds
  <2>2. RunShape(new) /\ new.first = run.first /\ new.resume = run.resume
    BY <1>1 DEF RunShape
  <2> HIDE DEF new, saved
  <2>3. Ready(new, saved)
    BY <1>1, <2>1, <2>2 DEF Ready, Stands, SegmentStands, SpanStands
  <2>4. \A next \in Try(pool, new) : Lands(next, saved)
    BY <1>1, <2>2, <2>3, TryLands
  <2> QED
    BY <1>2, <2>1, <2>4, ContinueStands
<1> QED
  BY <1>3, <1>4, <1>5, <1>6, <1>7, <1>8, <1>9, <1>10 DEF RunStep

LEMMA ResumeInit == Init => ResumeInv
<1> SUFFICES ASSUME Init PROVE ResumeInv
  OBVIOUS
<1>1. ASSUME NEW r \in Requests PROVE Stands(runs[r], checkpoints[r])
  BY DEF Init, Stands, SegmentStands, SpanStands, Idle, Ended
<1> QED
  BY <1>1 DEF Init, ResumeInv

LEMMA ResumeStep ==
  ASSUME Shapes, ResumeInv, RouteComplete, [Next]_vars
  PROVE  ResumeInv'
<1>1. ASSUME NEW r \in Requests, Submit(r) \/ RunStep(r) PROVE ResumeInv'
  BY <1>1, RunStepStands
<1>2. ASSUME NEW w \in Workers,
             registerWorker(w) \/ removeWorker(w) \/ HeartbeatTimeout(w) \/ workerHeartbeat(w)
      PROVE  ResumeInv'
  <2>1. UNCHANGED <<strategy, checkpoints, runs>>
    BY <1>2 DEF registerWorker, removeWorker, HeartbeatTimeout, workerHeartbeat, PoolBecomes
  <2> QED
    BY <2>1 DEF ResumeInv, Stands
<1>3. CASE UNCHANGED vars
  BY <1>3 DEF vars, ResumeInv, Stands
<1> QED
  BY <1>1, <1>2, <1>3 DEF Next

LEMMA ResumeInvIsEnough == ResumeInv => ResumesAtCheckpoint
<1> SUFFICES ASSUME ResumeInv, NEW r \in Requests
             PROVE  /\ Executing(r) => runs[r].first = ResumeAfter(checkpoints[r])
                    /\ runs[r].pc \in Ended => checkpoints[r] = {}
  BY DEF ResumesAtCheckpoint
<1>1. Stands(runs[r], checkpoints[r]) /\ strategy \in {"segments", "spans"}
  BY DEF ResumeInv
<1>2. ASSUME Executing(r) PROVE Newest(checkpoints[r], runs[r].first)
  BY <1>1, <1>2 DEF Executing, Stands, SegmentStands, SpanStands
<1> QED
  BY <1>1, <1>2, NewestResumes DEF Stands

LEMMA RouterIsComplete == RouteComplete
BY RouterComplete DEF RouteComplete

\* computeRoute finds a route exactly when the idle workers can cover what is
\* left of the model between them, in whatever pieces, and the route it finds
\* covers that once, with distinct idle workers that have the memory.
THEOREM RoutesAreFound == Spec => []RouteComplete
BY RouterIsComplete, PTL

\* Retries, reroutes and the spans of one route all start right behind the
\* newest checkpoint (executeAllSegments, executeWithRoute).
THEOREM WorkResumes == Spec => []ResumesAtCheckpoint
<1>1. IInv => Shapes
  BY DEF IInv
<1>2. Shapes /\ ResumeInv /\ RouteComplete /\ [Next]_vars => ResumeInv'
  BY ResumeStep
<1> QED
  BY <1>1, <1>2, Invariance, RouterIsComplete, ResumeInit, ResumeInvIsEnough, PTL DEF Spec
=============================================================================
