----------------------------- MODULE WorkerPool -----------------------------
(***************************************************************************)
(* The pool of browser workers behind the earlier pipelines                *)
(* (LLM-proto/src/worker-pool.ts), as operators from one pool to the next.  *)
(* A pool maps each worker to its status; a worker that is not registered   *)
(* is absent and every mark of it is ignored.  The pool knows no generation *)
(* of a worker: a mark meant for an earlier registration hits the new one.  *)
(***************************************************************************)
EXTENDS Naturals

CONSTANTS
    Workers,
    Tier,           \* by worker: 1, 2 or 3
    Vram            \* by worker: vramMB

WorkerStatus == {"absent", "idle", "busy", "disconnected"}

Mark(pool, w, status) == IF pool[w] = "absent" THEN pool ELSE [pool EXCEPT ![w] = status]

\* A worker that registers again replaces its record, whatever it is doing.
register(pool, w) == [pool EXCEPT ![w] = "idle"]
unregister(pool, w) == [pool EXCEPT ![w] = "absent"]

markBusy(pool, w) == Mark(pool, w, "busy")
markIdle(pool, w) == Mark(pool, w, "idle")
markDisconnected(pool, w) == Mark(pool, w, "disconnected")

\* A heartbeat brings a disconnected worker back.
heartbeat(pool, w) == IF pool[w] = "disconnected" THEN markIdle(pool, w) ELSE pool

\* Mutant: only disconnected workers are passed over.
getAvailableWorkerBusy(pool, required) ==
    LET fit == {w \in Workers : pool[w] \in {"idle", "busy"} /\ Vram[w] >= required}
    IN  {w \in fit : \A v \in fit : Tier[w] < Tier[v] \/ (Tier[w] = Tier[v] /\ Vram[w] >= Vram[v])}

\* The workers getAvailableWorker may return, among which registration order decides: the lowest
\* tier, then the most memory.
getAvailableWorker(pool, required) ==
    LET fit == {w \in Workers : pool[w] = "idle" /\ Vram[w] >= required}
    IN  {w \in fit : \A v \in fit : Tier[w] < Tier[v] \/ (Tier[w] = Tier[v] /\ Vram[w] >= Vram[v])}
=============================================================================
