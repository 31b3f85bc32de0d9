----------------------- MODULE DurableObjectRepository -----------------------
(***************************************************************************)
(* The repository over the key-value storage of a Durable Object           *)
(* (durable-object-repository.ts).  The storage hands out clones, so a      *)
(* record that is read is a proxy over a copy: an assignment goes to the   *)
(* copy and, merged into what is stored by then, to the storage.  Leases   *)
(* are found by their id through an index kept beside them.                *)
(*                                                                         *)
(* Every operation is synchronous and hence one action.  What is kept under *)
(* a key of its own and only put, read and deleted as a whole (attempts,    *)
(* checkpoints, cancellations, claims, cursors, the idempotency map) is     *)
(* left out.                                                               *)
(***************************************************************************)
EXTENDS Naturals

CONSTANTS
    RequestIds, WorkerIds, LeaseIds,
    MaxGenerations, \* bound: worker generations
    Handles,        \* records the coordinator holds at one time
    None            \* no value under a key

\* None is not mistaken for an id.
ASSUME RepositoryAssumption == MaxGenerations \in Nat /\ None \notin RequestIds \cup LeaseIds

VARIABLES
    requestKv,      \* request:<id>
    resultKv,       \* the requests with a value under result:<id>
    leaseKv,        \* lease:<request id>
    leaseIndexKv,   \* lease-index:<lease id>
    workerKv,       \* worker:<id>
    proxies,        \* the records handed out: their key and the copy behind the proxy
    leasesIssued,   \* lease ids are fresh when a lease is put
    generations     \* generations issued so far

repositoryVars == <<requestKv, resultKv, leaseKv, leaseIndexKv, workerKv, proxies, leasesIssued,
                    generations>>

Generations == 1..MaxGenerations
Stages == {"queued", "running", "completed", "failed"}
Open == {"queued", "running"}
WorkerStages == {"idle", "busy", "disconnected"}
RequestRecords == [stage : Stages, segment : {0, 1}, failure : BOOLEAN]
WorkerRecords == [generation : Generations, stage : WorkerStages, tier : {1, 2}]

NoProxy == [kind |-> "none"]
RequestProxies == [kind : {"request"}, key : RequestIds, target : RequestRecords]
WorkerProxies == [kind : {"worker"}, key : WorkerIds, target : WorkerRecords]

RequestWrites == {<<"segment", 1>>, <<"failure", TRUE>>}
WorkerWrites == {<<"stage", s>> : s \in WorkerStages}

workerVars == <<workerKv, generations>>
leaseVars == <<leaseKv, leaseIndexKv, leasesIssued>>
requestVars == <<requestKv, resultKv>>

RepositoryInit ==
    /\ requestKv = [r \in RequestIds |-> None]
    /\ resultKv = {}
    /\ leaseKv = [r \in RequestIds |-> None]
    /\ leaseIndexKv = [l \in LeaseIds |-> None]
    /\ workerKv = [w \in WorkerIds |-> None]
    /\ proxies = [h \in Handles |-> NoProxy]
    /\ leasesIssued = {}
    /\ generations = 0

-----------------------------------------------------------------------------
(* Requests and results.                                                   *)

createRequest(r) ==
    /\ requestKv[r] = None
    /\ requestKv' = [requestKv EXCEPT ![r] = [stage |-> "queued", segment |-> 0, failure |-> FALSE]]
    /\ UNCHANGED <<resultKv, proxies, leaseVars, workerVars>>

\* A refused transition changes nothing.
transitionStage(r, expected, next) ==
    /\ requestKv[r] # None
    /\ requestKv[r].stage = expected
    /\ requestKv' = [requestKv EXCEPT ![r].stage = next]
    /\ UNCHANGED <<resultKv, proxies, leaseVars, workerVars>>

\* Duplicates and conflicts change nothing.
commitCompletion(r, expected) ==
    /\ r \notin resultKv
    /\ requestKv[r] # None
    /\ requestKv[r].stage = expected
    /\ resultKv' = resultKv \cup {r}
    /\ requestKv' = [requestKv EXCEPT ![r].stage = "completed"]
    /\ UNCHANGED <<proxies, leaseVars, workerVars>>

-----------------------------------------------------------------------------
(* Leases.                                                                 *)

putLease(r, l) ==
    /\ l \notin leasesIssued
    /\ leasesIssued' = leasesIssued \cup {l}
    /\ leaseKv' = [leaseKv EXCEPT ![r] = l]
    /\ leaseIndexKv' = [k \in LeaseIds |-> IF k = l THEN r
                                           ELSE IF k = leaseKv[r] THEN None
                                           ELSE leaseIndexKv[k]]
    /\ UNCHANGED <<proxies, requestVars, workerVars>>

\* The id may be that of a lease which was replaced or deleted long ago.
deleteLease(l) ==
    /\ l \in leasesIssued
    /\ leaseIndexKv[l] # None
    /\ leaseKv' = IF leaseKv[leaseIndexKv[l]] = l
                  THEN [leaseKv EXCEPT ![leaseIndexKv[l]] = None] ELSE leaseKv
    /\ leaseIndexKv' = [leaseIndexKv EXCEPT ![l] = None]
    /\ UNCHANGED <<leasesIssued, proxies, requestVars, workerVars>>

-----------------------------------------------------------------------------
(* Workers, as the registry stores them.                                   *)

\* putWorker of a new generation, under a key that is free.
putWorker(w) ==
    /\ workerKv[w] = None
    /\ generations < MaxGenerations
    /\ generations' = generations + 1
    /\ \E t \in {1, 2} :
          workerKv' = [workerKv EXCEPT ![w] =
                          [generation |-> generations + 1, stage |-> "idle", tier |-> t]]
    /\ UNCHANGED <<proxies, requestVars, leaseVars>>

\* putWorker of the same generation with refreshed capabilities.
refreshWorker(w) ==
    /\ workerKv[w] # None
    /\ \E t \in {1, 2} : workerKv' = [workerKv EXCEPT ![w].tier = t]
    /\ UNCHANGED <<generations, proxies, requestVars, leaseVars>>

deleteWorker(w) ==
    /\ workerKv[w] # None
    /\ workerKv' = [workerKv EXCEPT ![w] = None]
    /\ UNCHANGED <<generations, proxies, requestVars, leaseVars>>

-----------------------------------------------------------------------------
(* Proxies.                                                                *)

\* getRequest and listRequests: a proxy over a clone of what is stored.
getRequest(h, r) ==
    /\ requestKv[r] # None
    /\ proxies' = [proxies EXCEPT ![h] =
                      [kind |-> "request", key |-> r, target |-> requestKv[r]]]
    /\ UNCHANGED <<requestVars, leaseVars, workerVars>>

\* getWorker and listWorkers
getWorker(h, w) ==
    /\ workerKv[w] # None
    /\ proxies' = [proxies EXCEPT ![h] =
                      [kind |-> "worker", key |-> w, target |-> workerKv[w]]]
    /\ UNCHANGED <<requestVars, leaseVars, workerVars>>

\* Mutant: the copy behind the proxy is stored as a whole.
PersistedWhole(latest, target, field, value) == [target EXCEPT ![field] = value]

\* What the set trap stores: the latest record with the one field replaced.
Persisted(latest, target, field, value) == [latest EXCEPT ![field] = value]

\* A request is never deleted, so there is a latest record to merge into.
setRequest(h, field, value) ==
    /\ proxies[h].kind = "request"
    /\ LET r == proxies[h].key IN
       requestKv' = [requestKv EXCEPT ![r] = Persisted(@, proxies[h].target, field, value)]
    /\ proxies' = [proxies EXCEPT ![h].target[field] = value]
    /\ UNCHANGED <<resultKv, leaseVars, workerVars>>

\* canPersist of worker records: the stored generation is the one that was read.
canPersist(latest, target) == latest # None /\ latest.generation = target.generation

setWorker(h, field, value) ==
    /\ proxies[h].kind = "worker"
    /\ LET w == proxies[h].key IN
       workerKv' = IF canPersist(workerKv[w], proxies[h].target)
                   THEN [workerKv EXCEPT ![w] = Persisted(@, proxies[h].target, field, value)]
                   ELSE workerKv
    /\ proxies' = [proxies EXCEPT ![h].target[field] = value]
    /\ UNCHANGED <<generations, requestVars, leaseVars>>

-----------------------------------------------------------------------------

RepositoryNext ==
    \/ \E r \in RequestIds :
          \/ createRequest(r)
          \/ \E expected \in Open, next \in Stages \ {"completed"} :
                transitionStage(r, expected, next)
          \/ commitCompletion(r, "running")
          \/ \E l \in LeaseIds : putLease(r, l)
    \/ \E l \in LeaseIds : deleteLease(l)
    \/ \E w \in WorkerIds : putWorker(w) \/ refreshWorker(w) \/ deleteWorker(w)
    \/ \E h \in Handles :
          \/ \E r \in RequestIds : getRequest(h, r)
          \/ \E w \in WorkerIds : getWorker(h, w)
          \/ \E write \in RequestWrites : setRequest(h, write[1], write[2])
          \/ \E write \in WorkerWrites : setWorker(h, write[1], write[2])

RepositorySpec == RepositoryInit /\ [][RepositoryNext]_repositoryVars

-----------------------------------------------------------------------------
(* Properties.                                                             *)

TypeOK ==
    /\ requestKv \in [RequestIds -> RequestRecords \cup {None}]
    /\ resultKv \subseteq RequestIds
    /\ leaseKv \in [RequestIds -> LeaseIds \cup {None}]
    /\ leaseIndexKv \in [LeaseIds -> RequestIds \cup {None}]
    /\ workerKv \in [WorkerIds -> WorkerRecords \cup {None}]
    /\ proxies \in [Handles -> {NoProxy} \cup RequestProxies \cup WorkerProxies]
    /\ leasesIssued \subseteq LeaseIds
    /\ generations \in 0..MaxGenerations

\* The index and the leases agree in both directions, whatever leases were replaced and whichever
\* old ids were deleted: no lease is unreachable by its id, and no entry is left behind.
LeaseIndexAgrees ==
    /\ TypeOK
    /\ \A r \in RequestIds, l \in LeaseIds : leaseKv[r] = l <=> leaseIndexKv[l] = r

HeldBy(proxy) ==
    IF proxy.kind = "request" THEN [request |-> proxy.key]
    ELSE IF proxy.kind = "worker"
    THEN [worker |-> proxy.key, generation |-> proxy.target.generation]
    ELSE None

\* The copies and the index are invisible: an assignment to an old copy of a record changes that
\* field of the stored record and nothing else, so it undoes no later transition of its stage, and
\* it neither touches nor revives the record of another worker generation.
Repository == INSTANCE RepositoryContract WITH
    requests <- requestKv, results <- resultKv, leases <- leaseKv, workers <- workerKv,
    held <- [h \in Handles |-> HeldBy(proxies[h])]
ImplementsRepository == Repository!Spec
=============================================================================
