--------------------------- MODULE WorkerRegistry ---------------------------
(***************************************************************************)
(* Worker records and connection generations (worker-registry.ts).         *)
(*                                                                         *)
(* A worker map sends each worker to its latest generation and stage.  The *)
(* stage "absent" says the repository has no record under the worker's     *)
(* key: it never registered or its last generation was revoked, which      *)
(* deletes the record.  Tier and VRAM are abstracted: which idle worker is *)
(* preferred is left open.                                                 *)
(***************************************************************************)
EXTENDS Naturals

WorkerStages == {"absent", "idle", "busy", "disconnected"}

\* The generation is the one the stored record carries.
isCurrent(ws, w, g) == ws[w].stage # "absent" /\ ws[w].gen = g

\* Mutant: a stale generation marks the connection that replaced it.
markStageAnyGeneration(ws, w, g, stage) == [ws EXCEPT ![w].stage = stage]

\* markBusy, markIdle and markDisconnected: no effect on a stale generation.
markStage(ws, w, g, stage) ==
  IF isCurrent(ws, w, g) THEN [ws EXCEPT ![w].stage = stage] ELSE ws

\* revokeGeneration: the stored record of that generation disappears.
revokeGeneration(ws, w, g) == markStage(ws, w, g, "absent")

\* register on a new connection: a new generation, idle.
connect(ws, w) == [ws EXCEPT ![w] = [gen |-> @.gen + 1, stage |-> "idle"]]

\* heartbeat of the current generation brings a disconnected worker back.
heartbeat(ws, w) ==
  IF ws[w].stage = "disconnected" THEN [ws EXCEPT ![w].stage = "idle"] ELSE ws

\* getAvailableWorker: the workers it may return.
availableWorkers(ws) == {w \in DOMAIN ws : ws[w].stage = "idle"}
=============================================================================
