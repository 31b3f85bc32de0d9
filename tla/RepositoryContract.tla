-------------------------- MODULE RepositoryContract --------------------------
(***************************************************************************)
(* What a DurableRepository promises to the coordinator about the records  *)
(* it hands out (durable-repository.ts, as InMemoryRepository keeps it): a  *)
(* record that was read stays connected to the stored one.  Whatever else  *)
(* happened since, an assignment to one of its fields changes that field   *)
(* of the stored record and nothing else, unless the record belongs to a   *)
(* worker generation that is gone; then it changes nothing.                *)
(***************************************************************************)
CONSTANTS
    RequestIds, WorkerIds, LeaseIds,
    Generations,    \* worker generations
    Handles,        \* records the coordinator holds at one time
    None            \* no record, no lease

VARIABLES
    requests,       \* the request records
    results,        \* requests with a committed result
    leases,         \* the active lease of each request
    workers,        \* the worker records
    held            \* which record each handle stands for

vars == <<requests, results, leases, workers, held>>

Stages == {"queued", "running", "completed", "failed"}
Open == {"queued", "running"}
RequestRecords == [stage : Stages, segment : {0, 1}, failure : BOOLEAN]
WorkerRecords == [generation : Generations, stage : {"idle", "busy", "disconnected"}, tier : {1, 2}]

\* What may be assigned to a field of a record: stages of requests go through transitionStage.
RequestWrites == {<<"segment", 1>>, <<"failure", TRUE>>}
WorkerWrites == {<<"stage", s>> : s \in {"idle", "busy", "disconnected"}}

Init ==
    /\ requests = [r \in RequestIds |-> None]
    /\ results = {}
    /\ leases = [r \in RequestIds |-> None]
    /\ workers = [w \in WorkerIds |-> None]
    /\ held = [h \in Handles |-> None]

createRequest(r) ==
    /\ requests[r] = None
    /\ requests' = [requests EXCEPT ![r] = [stage |-> "queued", segment |-> 0, failure |-> FALSE]]
    /\ UNCHANGED <<results, leases, workers, held>>

\* Compare-and-set of the stage.
transitionStage(r, expected, next) ==
    /\ requests[r] # None
    /\ requests[r].stage = expected
    /\ requests' = [requests EXCEPT ![r].stage = next]
    /\ UNCHANGED <<results, leases, workers, held>>

\* The result and the stage change together, once.
commitCompletion(r, expected) ==
    /\ r \notin results
    /\ requests[r] # None
    /\ requests[r].stage = expected
    /\ results' = results \cup {r}
    /\ requests' = [requests EXCEPT ![r].stage = "completed"]
    /\ UNCHANGED <<leases, workers, held>>

\* The lease replaces the one the request had.
putLease(r, l) ==
    /\ leases' = [leases EXCEPT ![r] = l]
    /\ UNCHANGED <<requests, results, workers, held>>

\* A lease is deleted by its own id, from whichever request has it.
deleteLease(l) ==
    /\ leases' = [r \in RequestIds |-> IF leases[r] = l THEN None ELSE leases[r]]
    /\ UNCHANGED <<requests, results, workers, held>>

\* A registration stores a record.
putWorker(w) ==
    /\ workers'[w] \in WorkerRecords
    /\ workers' = [workers EXCEPT ![w] = workers'[w]]
    /\ UNCHANGED <<requests, results, leases, held>>

deleteWorker(w) ==
    /\ workers' = [workers EXCEPT ![w] = None]
    /\ UNCHANGED <<requests, results, leases, held>>

getRequest(h, r) ==
    /\ requests[r] # None
    /\ held' = [held EXCEPT ![h] = [request |-> r]]
    /\ UNCHANGED <<requests, results, leases, workers>>

getWorker(h, w) ==
    /\ workers[w] # None
    /\ held' = [held EXCEPT ![h] = [worker |-> w, generation |-> workers[w].generation]]
    /\ UNCHANGED <<requests, results, leases, workers>>

\* A field of a request that was read earlier is assigned.
assignRequest(r, field, value) ==
    /\ \E h \in Handles : held[h] = [request |-> r]
    /\ requests' = [requests EXCEPT ![r][field] = value]
    /\ UNCHANGED <<results, leases, workers, held>>

\* A field of a worker that was read earlier is assigned, while its generation is the stored one.
assignWorker(w, field, value) ==
    /\ workers[w] # None
    /\ \E h \in Handles : held[h] = [worker |-> w, generation |-> workers[w].generation]
    /\ workers' = [workers EXCEPT ![w][field] = value]
    /\ UNCHANGED <<requests, results, leases, held>>

Next ==
    \/ \E r \in RequestIds :
          \/ createRequest(r)
          \/ \E expected \in Open, next \in Stages \ {"completed"} : transitionStage(r, expected, next)
          \/ commitCompletion(r, "running")
          \/ \E l \in LeaseIds : putLease(r, l)
          \/ \E h \in Handles : getRequest(h, r)
          \/ \E write \in RequestWrites : assignRequest(r, write[1], write[2])
    \/ \E l \in LeaseIds : deleteLease(l)
    \/ \E w \in WorkerIds :
          \/ putWorker(w)
          \/ deleteWorker(w)
          \/ \E h \in Handles : getWorker(h, w)
          \/ \E write \in WorkerWrites : assignWorker(w, write[1], write[2])

Spec == Init /\ [][Next]_vars
=============================================================================
