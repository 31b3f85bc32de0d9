-------------------- MODULE DurableObjectRepository_proofs --------------------
(***************************************************************************)
(* Theorems about DurableObjectRepository, for any sets of requests,        *)
(* workers, leases and handles and any bound of generations: the lease     *)
(* index agrees with the leases, and the repository over cloned records     *)
(* implements the one of live records.                                     *)
(***************************************************************************)
EXTENDS DurableObjectRepository, TLAPS

USE RepositoryAssumption

\* The index leads from a lease to its request, and only to a request that has it.
IndexSound ==
    \A r \in RequestIds, l \in LeaseIds : leaseKv[r] = l <=> leaseIndexKv[l] = r

\* Only leases that were put are in the index: a new lease finds its entry free.
IndexIssued == \A l \in LeaseIds : leaseIndexKv[l] # None => l \in leasesIssued

\* Behind a proxy over a request there is a stored record to merge into.
ProxiesSound ==
    \A h \in Handles : proxies[h].kind = "request" => requestKv[proxies[h].key] \in RequestRecords

\* The inductive invariant.
IInv == TypeOK /\ IndexSound /\ IndexIssued /\ ProxiesSound

-----------------------------------------------------------------------------
(* Records.                                                                *)

\* A write replaces one field by a value of its type.
LEMMA RequestWritten ==
  ASSUME NEW record \in RequestRecords, NEW write \in RequestWrites
  PROVE  [record EXCEPT ![write[1]] = write[2]] \in RequestRecords
<1>1. CASE write = <<"segment", 1>>
  <2>1. write[1] = "segment" /\ write[2] = 1
    BY <1>1
  <2> QED
    BY <2>1 DEF RequestRecords
<1>2. CASE write = <<"failure", TRUE>>
  <2>1. write[1] = "failure" /\ write[2] = TRUE
    BY <1>2, Zenon
  <2>2. [record EXCEPT !.failure = TRUE] \in RequestRecords
    BY DEF RequestRecords
  <2> QED
    BY <2>1, <2>2
<1> QED
  BY <1>1, <1>2 DEF RequestWrites

\* A write to a worker keeps its generation.
LEMMA WorkerWritten ==
  ASSUME NEW record \in WorkerRecords, NEW write \in WorkerWrites
  PROVE  /\ [record EXCEPT ![write[1]] = write[2]] \in WorkerRecords
         /\ [record EXCEPT ![write[1]] = write[2]].generation = record.generation
<1>1. PICK s \in WorkerStages : write = <<"stage", s>>
  BY DEF WorkerWrites
<1>2. write[1] = "stage" /\ write[2] = s
  BY <1>1
<1> QED
  BY <1>2 DEF WorkerRecords, WorkerStages

\* What kind of proxy a handle has says what is behind it.
LEMMA ProxyShape ==
  ASSUME NEW p \in {NoProxy} \cup RequestProxies \cup WorkerProxies
  PROVE  /\ p.kind = "request" => p \in RequestProxies /\ p.key \in RequestIds
                                    /\ p.target \in RequestRecords
         /\ p.kind = "worker" => p \in WorkerProxies /\ p.key \in WorkerIds
                                    /\ p.target \in WorkerRecords
BY DEF NoProxy, RequestProxies, WorkerProxies

\* Assigning through a proxy leaves its kind, its key and the generation behind it.
LEMMA TargetWritten ==
  ASSUME NEW p \in {NoProxy} \cup RequestProxies \cup WorkerProxies, NEW write,
         \/ p.kind = "request" /\ write \in RequestWrites
         \/ p.kind = "worker" /\ write \in WorkerWrites
  PROVE  /\ [p EXCEPT !.target[write[1]] = write[2]] \in RequestProxies \cup WorkerProxies
         /\ [p EXCEPT !.target[write[1]] = write[2]].kind = p.kind
         /\ [p EXCEPT !.target[write[1]] = write[2]].key = p.key
         /\ HeldBy([p EXCEPT !.target[write[1]] = write[2]]) = HeldBy(p)
<1> DEFINE t == [p.target EXCEPT ![write[1]] = write[2]]
           q == [p EXCEPT !.target[write[1]] = write[2]]
<1>1. CASE p.kind = "request" /\ write \in RequestWrites
  <2>1. p \in RequestProxies /\ t \in RequestRecords
    BY <1>1, ProxyShape, RequestWritten
  <2>2. q = [p EXCEPT !.target = t]
    BY <2>1 DEF RequestProxies
  <2> HIDE DEF t, q
  <2>3. q \in RequestProxies /\ q.kind = p.kind /\ q.key = p.key
    BY <2>1, <2>2 DEF RequestProxies
  <2>4. HeldBy(q) = HeldBy(p)
    BY <1>1, <2>3 DEF HeldBy
  <2> QED
    BY <2>3, <2>4 DEF q
<1>2. CASE p.kind = "worker" /\ write \in WorkerWrites
  <2>1. p \in WorkerProxies /\ t \in WorkerRecords /\ t.generation = p.target.generation
    BY <1>2, ProxyShape, WorkerWritten
  <2>2. q = [p EXCEPT !.target = t]
    BY <2>1 DEF WorkerProxies
  <2> HIDE DEF t, q
  <2>3. q \in WorkerProxies /\ q.kind = p.kind /\ q.key = p.key /\ q.target = t
    BY <2>1, <2>2 DEF WorkerProxies
  <2>4. HeldBy(q) = HeldBy(p)
    BY <1>2, <2>1, <2>3 DEF HeldBy
  <2> QED
    BY <2>3, <2>4 DEF q
<1> QED
  BY <1>1, <1>2

-----------------------------------------------------------------------------
(* One lemma per group of actions.                                         *)

LEMMA InitIInv ==
  ASSUME RepositoryInit PROVE IInv
BY DEF RepositoryInit, IInv, TypeOK, IndexSound, IndexIssued, ProxiesSound, NoProxy

\* A step that changes one stored request keeps it a record.
LEMMA RequestIInv ==
  ASSUME IInv, NEW r \in RequestIds, NEW record \in RequestRecords,
         requestKv' = [requestKv EXCEPT ![r] = record], resultKv' \subseteq RequestIds,
         UNCHANGED <<proxies, leaseVars, workerVars>>
  PROVE  IInv'
<1>1. TypeOK'
  BY DEF IInv, TypeOK, leaseVars, workerVars
<1>2. IndexSound' /\ IndexIssued'
  BY DEF IInv, IndexSound, IndexIssued, leaseVars
<1>3. ASSUME NEW h \in Handles, proxies'[h].kind = "request"
      PROVE  requestKv'[proxies'[h].key] \in RequestRecords
  <2>1. proxies[h].key \in RequestIds /\ requestKv[proxies[h].key] \in RequestRecords
    BY <1>3, ProxyShape DEF IInv, TypeOK, ProxiesSound
  <2> QED
    BY <2>1 DEF IInv, TypeOK
<1> QED
  BY <1>1, <1>2, <1>3 DEF IInv, ProxiesSound

LEMMA CreateRequestIInv ==
  ASSUME IInv, NEW r \in RequestIds, createRequest(r) PROVE IInv'
<1> DEFINE record == [stage |-> "queued", segment |-> 0, failure |-> FALSE]
<1>1. record \in RequestRecords
  BY DEF RequestRecords, Stages
<1> QED
  BY <1>1, RequestIInv DEF createRequest, IInv, TypeOK

LEMMA StageIInv ==
  ASSUME IInv, NEW r \in RequestIds, NEW next \in Stages,
         \/ \E expected \in Open : transitionStage(r, expected, next)
         \/ next = "completed" /\ commitCompletion(r, "running")
  PROVE  IInv'
<1> DEFINE record == [requestKv[r] EXCEPT !.stage = next]
<1>1. requestKv[r] \in RequestRecords
  BY DEF IInv, TypeOK, transitionStage, commitCompletion
<1>2. record \in RequestRecords
  BY <1>1 DEF RequestRecords
<1>3. /\ requestKv' = [requestKv EXCEPT ![r] = record]
      /\ resultKv' \subseteq RequestIds
      /\ UNCHANGED <<proxies, leaseVars, workerVars>>
  BY DEF IInv, TypeOK, transitionStage, commitCompletion
<1> HIDE DEF record
<1> QED
  BY <1>2, <1>3, RequestIInv

\* A fresh lease takes the place of the one the request had, in the index as well.
LEMMA PutLeaseIInv ==
  ASSUME IInv, NEW r \in RequestIds, NEW l \in LeaseIds, putLease(r, l)
  PROVE  IInv'
<1>1. leaseIndexKv[l] = None /\ \A q \in RequestIds : leaseKv[q] # l
  BY DEF IInv, IndexSound, IndexIssued, putLease
<1>2. /\ leaseKv' = [leaseKv EXCEPT ![r] = l]
      /\ leaseIndexKv' = [k \in LeaseIds |-> IF k = l THEN r
                                             ELSE IF k = leaseKv[r] THEN None ELSE leaseIndexKv[k]]
      /\ leasesIssued' = leasesIssued \cup {l}
  BY DEF putLease
<1>3. TypeOK'
  BY <1>2 DEF IInv, TypeOK, putLease, requestVars, workerVars
<1>4. ASSUME NEW q \in RequestIds, NEW k \in LeaseIds
      PROVE  leaseKv'[q] = k <=> leaseIndexKv'[k] = q
  <2>1. (leaseKv[q] = k <=> leaseIndexKv[k] = q) /\ (leaseKv[r] = k <=> leaseIndexKv[k] = r)
    BY DEF IInv, IndexSound
  <2>2. leaseKv'[q] = IF q = r THEN l ELSE leaseKv[q]
    BY <1>2 DEF IInv, TypeOK
  <2>3. leaseIndexKv'[k] = IF k = l THEN r ELSE IF k = leaseKv[r] THEN None ELSE leaseIndexKv[k]
    BY <1>2
  <2> QED
    BY <1>1, <2>1, <2>2, <2>3
<1>5. IndexIssued'
  BY <1>2 DEF IInv, IndexIssued
<1>6. ProxiesSound'
  BY DEF IInv, ProxiesSound, putLease, requestVars
<1> QED
  BY <1>3, <1>4, <1>5, <1>6 DEF IInv, IndexSound

LEMMA DeleteLeaseIInv ==
  ASSUME IInv, NEW l \in LeaseIds, deleteLease(l)
  PROVE  IInv'
<1> DEFINE r == leaseIndexKv[l]
<1>1. r \in RequestIds /\ leaseKv[r] = l
  BY DEF IInv, TypeOK, IndexSound, deleteLease
<1>2. /\ leaseKv' = [leaseKv EXCEPT ![r] = None]
      /\ leaseIndexKv' = [leaseIndexKv EXCEPT ![l] = None]
      /\ UNCHANGED leasesIssued
  BY <1>1 DEF deleteLease
<1> HIDE DEF r
<1>3. TypeOK'
  BY <1>1, <1>2 DEF IInv, TypeOK, deleteLease, requestVars, workerVars
<1>4. ASSUME NEW q \in RequestIds, NEW k \in LeaseIds
      PROVE  leaseKv'[q] = k <=> leaseIndexKv'[k] = q
  <2>1. /\ leaseKv[q] = k <=> leaseIndexKv[k] = q
        /\ leaseKv[r] = k <=> leaseIndexKv[k] = r
        /\ leaseKv[q] = l <=> leaseIndexKv[l] = q
    BY <1>1 DEF IInv, IndexSound
  <2>2. leaseIndexKv[l] = r
    BY DEF r
  <2>3. leaseKv'[q] = (IF q = r THEN None ELSE leaseKv[q])
        /\ leaseIndexKv'[k] = (IF k = l THEN None ELSE leaseIndexKv[k])
    BY <1>1, <1>2 DEF IInv, TypeOK
  <2> QED
    BY <1>1, <2>1, <2>2, <2>3
<1>5. IndexIssued'
  BY <1>2 DEF IInv, IndexIssued, TypeOK
<1>6. ProxiesSound'
  BY DEF IInv, ProxiesSound, deleteLease, requestVars
<1> QED
  BY <1>3, <1>4, <1>5, <1>6 DEF IInv, IndexSound

\* A step that changes one stored worker keeps the rest.
LEMMA WorkerIInv ==
  ASSUME IInv, NEW w \in WorkerIds, NEW record \in WorkerRecords \cup {None},
         workerKv' = [workerKv EXCEPT ![w] = record], generations' \in 0..MaxGenerations,
         UNCHANGED <<proxies, requestVars, leaseVars>>
  PROVE  IInv'
BY DEF IInv, TypeOK, IndexSound, IndexIssued, ProxiesSound, requestVars, leaseVars

LEMMA StoreWorkerIInv ==
  ASSUME IInv, NEW w \in WorkerIds,
         putWorker(w) \/ refreshWorker(w) \/ deleteWorker(w)
  PROVE  IInv'
<1>1. CASE putWorker(w)
  <2>1. PICK t \in {1, 2} : workerKv' = [workerKv EXCEPT ![w] =
                               [generation |-> generations + 1, stage |-> "idle", tier |-> t]]
    BY <1>1 DEF putWorker
  <2> DEFINE record == [generation |-> generations + 1, stage |-> "idle", tier |-> t]
  <2>2. generations + 1 \in Generations /\ generations' \in 0..MaxGenerations
    BY <1>1 DEF putWorker, IInv, TypeOK, Generations
  <2>3. record \in WorkerRecords
    BY <2>2 DEF WorkerRecords, WorkerStages
  <2> QED
    BY <1>1, <2>1, <2>2, <2>3, WorkerIInv DEF putWorker
<1>2. CASE refreshWorker(w)
  <2>1. PICK t \in {1, 2} : workerKv' = [workerKv EXCEPT ![w].tier = t]
    BY <1>2 DEF refreshWorker
  <2>2. workerKv[w] \in WorkerRecords
    BY <1>2 DEF refreshWorker, IInv, TypeOK
  <2>3. [workerKv[w] EXCEPT !.tier = t] \in WorkerRecords
    BY <2>2 DEF WorkerRecords
  <2> QED
    BY <1>2, <2>1, <2>3, WorkerIInv DEF refreshWorker, IInv, TypeOK
<1>3. CASE deleteWorker(w)
  BY <1>3, WorkerIInv DEF deleteWorker, IInv, TypeOK
<1> QED
  BY <1>1, <1>2, <1>3

LEMMA GetIInv ==
  ASSUME IInv, NEW h \in Handles,
         \/ \E r \in RequestIds : getRequest(h, r)
         \/ \E w \in WorkerIds : getWorker(h, w)
  PROVE  IInv'
<1>1. /\ UNCHANGED <<requestVars, leaseVars, workerVars>>
      /\ proxies' = [proxies EXCEPT ![h] = proxies'[h]]
      /\ proxies'[h] \in RequestProxies \cup WorkerProxies
      /\ proxies'[h].kind = "request" => requestKv[proxies'[h].key] \in RequestRecords
  <2>1. CASE \E r \in RequestIds : getRequest(h, r)
    <3>1. PICK r \in RequestIds : getRequest(h, r)
      BY <2>1
    <3>2. requestKv[r] \in RequestRecords
      BY <3>1 DEF getRequest, IInv, TypeOK
    <3> QED
      BY <3>1, <3>2 DEF getRequest, IInv, TypeOK, RequestProxies
  <2>2. CASE \E w \in WorkerIds : getWorker(h, w)
    <3>1. PICK w \in WorkerIds : getWorker(h, w)
      BY <2>2
    <3>2. workerKv[w] \in WorkerRecords
      BY <3>1 DEF getWorker, IInv, TypeOK
    <3> QED
      BY <3>1, <3>2 DEF getWorker, IInv, TypeOK, WorkerProxies
  <2> QED
    BY <2>1, <2>2
<1>2. TypeOK'
  BY <1>1 DEF IInv, TypeOK, requestVars, leaseVars, workerVars
<1>3. IndexSound' /\ IndexIssued'
  BY <1>1 DEF IInv, IndexSound, IndexIssued, leaseVars
<1>4. ProxiesSound'
  BY <1>1 DEF IInv, TypeOK, ProxiesSound, requestVars
<1> QED
  BY <1>2, <1>3, <1>4 DEF IInv

\* An assignment through a proxy changes the copy and keeps what the handle stands for.
LEMMA CopyWritten ==
  ASSUME IInv, NEW h \in Handles, NEW write,
         \/ proxies[h].kind = "request" /\ write \in RequestWrites
         \/ proxies[h].kind = "worker" /\ write \in WorkerWrites,
         proxies' = [proxies EXCEPT ![h].target[write[1]] = write[2]]
  PROVE  /\ proxies' \in [Handles -> {NoProxy} \cup RequestProxies \cup WorkerProxies]
         /\ \A g \in Handles : /\ proxies'[g].kind = proxies[g].kind
                               /\ proxies'[g].kind = "request" => proxies'[g].key = proxies[g].key
                               /\ HeldBy(proxies'[g]) = HeldBy(proxies[g])
<1> DEFINE q == [proxies[h] EXCEPT !.target[write[1]] = write[2]]
<1>1. /\ q \in RequestProxies \cup WorkerProxies
      /\ q.kind = proxies[h].kind /\ q.key = proxies[h].key /\ HeldBy(q) = HeldBy(proxies[h])
  BY TargetWritten DEF IInv, TypeOK
<1>2. proxies' = [proxies EXCEPT ![h] = q]
  OBVIOUS
<1> HIDE DEF q
<1> QED
  BY <1>1, <1>2 DEF IInv, TypeOK

LEMMA SetRequestIInv ==
  ASSUME IInv, NEW h \in Handles, NEW write \in RequestWrites, setRequest(h, write[1], write[2])
  PROVE  IInv'
<1> DEFINE r == proxies[h].key
           record == [requestKv[r] EXCEPT ![write[1]] = write[2]]
<1>1. proxies[h].kind = "request" /\ r \in RequestIds /\ requestKv[r] \in RequestRecords
  BY ProxyShape DEF setRequest, IInv, TypeOK, ProxiesSound
<1>2. record \in RequestRecords
  BY <1>1, RequestWritten
<1>3. /\ requestKv' = [requestKv EXCEPT ![r] = record]
      /\ proxies' = [proxies EXCEPT ![h].target[write[1]] = write[2]]
      /\ UNCHANGED <<resultKv, leaseVars, workerVars>>
  BY DEF setRequest, Persisted
<1>4. /\ proxies' \in [Handles -> {NoProxy} \cup RequestProxies \cup WorkerProxies]
      /\ \A g \in Handles : /\ proxies'[g].kind = proxies[g].kind
                            /\ proxies'[g].kind = "request" => proxies'[g].key = proxies[g].key
  BY <1>1, <1>3, CopyWritten
<1> HIDE DEF r, record
<1>5. TypeOK'
  BY <1>1, <1>2, <1>3, <1>4 DEF IInv, TypeOK, leaseVars, workerVars
<1>6. IndexSound' /\ IndexIssued'
  BY <1>3 DEF IInv, IndexSound, IndexIssued, leaseVars
<1>7. ASSUME NEW g \in Handles, proxies'[g].kind = "request"
      PROVE  requestKv'[proxies'[g].key] \in RequestRecords
  <2>1. /\ proxies'[g].key = proxies[g].key /\ proxies[g].key \in RequestIds
        /\ requestKv[proxies[g].key] \in RequestRecords
    BY <1>4, <1>7, ProxyShape DEF IInv, TypeOK, ProxiesSound
  <2> QED
    BY <1>2, <1>3, <2>1 DEF IInv, TypeOK
<1> QED
  BY <1>5, <1>6, <1>7 DEF IInv, ProxiesSound

\* What a write through a worker's proxy stores.
LEMMA WorkerMerged ==
  ASSUME IInv, NEW h \in Handles, NEW write \in WorkerWrites, setWorker(h, write[1], write[2])
  PROVE  LET w == proxies[h].key IN
         /\ proxies[h].kind = "worker" /\ w \in WorkerIds
         /\ \/ /\ canPersist(workerKv[w], proxies[h].target)
               /\ workerKv[w] \in WorkerRecords
               /\ workerKv' = [workerKv EXCEPT ![w] = [workerKv[w] EXCEPT ![write[1]] = write[2]]]
            \/ workerKv' = workerKv
<1>1. proxies[h].kind = "worker" /\ proxies[h].key \in WorkerIds
  BY ProxyShape DEF setWorker, IInv, TypeOK
<1>2. canPersist(workerKv[proxies[h].key], proxies[h].target)
        => workerKv[proxies[h].key] \in WorkerRecords
  BY <1>1 DEF canPersist, IInv, TypeOK
<1> QED
  BY <1>1, <1>2 DEF setWorker, Persisted

LEMMA SetWorkerIInv ==
  ASSUME IInv, NEW h \in Handles, NEW write \in WorkerWrites, setWorker(h, write[1], write[2])
  PROVE  IInv'
<1> DEFINE w == proxies[h].key
<1>1. /\ proxies' = [proxies EXCEPT ![h].target[write[1]] = write[2]]
      /\ UNCHANGED <<generations, requestVars, leaseVars>>
  BY DEF setWorker
<1>2. workerKv' \in [WorkerIds -> WorkerRecords \cup {None}]
  <2> DEFINE record == [workerKv[w] EXCEPT ![write[1]] = write[2]]
  <2>1. CASE workerKv' = workerKv
    BY <2>1 DEF IInv, TypeOK
  <2>2. CASE workerKv[w] \in WorkerRecords /\ workerKv' = [workerKv EXCEPT ![w] = record]
    <3>1. record \in WorkerRecords
      BY <2>2, WorkerWritten
    <3> HIDE DEF record
    <3> QED
      BY <2>2, <3>1 DEF IInv, TypeOK
  <2> QED
    BY <2>1, <2>2, WorkerMerged
<1>3. /\ proxies' \in [Handles -> {NoProxy} \cup RequestProxies \cup WorkerProxies]
      /\ \A g \in Handles : /\ proxies'[g].kind = proxies[g].kind
                            /\ proxies'[g].kind = "request" => proxies'[g].key = proxies[g].key
  BY <1>1, WorkerMerged, CopyWritten
<1>4. TypeOK'
  BY <1>1, <1>2, <1>3 DEF IInv, TypeOK, requestVars, leaseVars
<1>5. IndexSound' /\ IndexIssued'
  BY <1>1 DEF IInv, IndexSound, IndexIssued, leaseVars
<1>6. ProxiesSound'
  BY <1>1, <1>3 DEF IInv, ProxiesSound, requestVars
<1> QED
  BY <1>4, <1>5, <1>6 DEF IInv

LEMMA NextIInv ==
  ASSUME IInv, [RepositoryNext]_repositoryVars PROVE IInv'
<1>1. CASE \E r \in RequestIds : createRequest(r)
  BY <1>1, CreateRequestIInv
<1>2. CASE \E r \in RequestIds, expected \in Open, next \in Stages \ {"completed"} :
              transitionStage(r, expected, next)
  BY <1>2, StageIInv
<1>3. CASE \E r \in RequestIds : commitCompletion(r, "running")
  <2>1. "completed" \in Stages
    BY DEF Stages
  <2> QED
    BY <1>3, <2>1, StageIInv
<1>4. CASE \E r \in RequestIds, l \in LeaseIds : putLease(r, l)
  BY <1>4, PutLeaseIInv
<1>5. CASE \E l \in LeaseIds : deleteLease(l)
  BY <1>5, DeleteLeaseIInv
<1>6. CASE \E w \in WorkerIds : putWorker(w) \/ refreshWorker(w) \/ deleteWorker(w)
  BY <1>6, StoreWorkerIInv
<1>7. CASE \E h \in Handles : \/ \E r \in RequestIds : getRequest(h, r)
                             \/ \E w \in WorkerIds : getWorker(h, w)
  BY <1>7, GetIInv
<1>8. CASE \E h \in Handles, write \in RequestWrites : setRequest(h, write[1], write[2])
  BY <1>8, SetRequestIInv
<1>9. CASE \E h \in Handles, write \in WorkerWrites : setWorker(h, write[1], write[2])
  BY <1>9, SetWorkerIInv
<1>10. CASE UNCHANGED repositoryVars
  BY <1>10 DEF repositoryVars, IInv, TypeOK, IndexSound, IndexIssued, ProxiesSound
<1> QED
  BY <1>1, <1>2, <1>3, <1>4, <1>5, <1>6, <1>7, <1>8, <1>9, <1>10 DEF RepositoryNext

\* The inductive invariant holds in every reachable state.
THEOREM Invariance == RepositorySpec => []IInv
<1>1. RepositoryInit => IInv
  BY InitIInv
<1>2. IInv /\ [RepositoryNext]_repositoryVars => IInv'
  BY NextIInv
<1> QED
  BY <1>1, <1>2, PTL DEF RepositorySpec

\* Whatever leases are put, replaced and deleted by old ids, the lease of a request is the one its
\* index entry leads to, and no entry leads to a request whose lease is another.
THEOREM LeaseIndexSound == RepositorySpec => []LeaseIndexAgrees
<1>1. IInv => LeaseIndexAgrees
  BY DEF IInv, IndexSound, LeaseIndexAgrees
<1> QED
  BY <1>1, Invariance, PTL

-----------------------------------------------------------------------------
(* Every step of the stored records is a step of the live ones.            *)

\* What the handles stand for in the contract.
Held == [h \in Handles |-> HeldBy(proxies[h])]

LEMMA InitRefines ==
  ASSUME RepositoryInit PROVE Repository!Init
BY DEF RepositoryInit, Repository!Init, HeldBy, NoProxy

\* Stored requests, results and leases change as the contract says.
LEMMA RequestRefines ==
  ASSUME NEW r \in RequestIds,
         \/ createRequest(r)
         \/ \E expected \in Open, next \in Stages \ {"completed"} :
               transitionStage(r, expected, next)
         \/ commitCompletion(r, "running")
         \/ \E l \in LeaseIds : putLease(r, l)
  PROVE  Repository!Next
<1>1. CASE createRequest(r)
  <2>1. Repository!createRequest(r)
    BY <1>1 DEF createRequest, Repository!createRequest, leaseVars, workerVars
  <2> QED
    BY <2>1 DEF Repository!Next
<1>2. CASE \E expected \in Open, next \in Stages \ {"completed"} :
              transitionStage(r, expected, next)
  <2>1. PICK expected \in Open, next \in Stages \ {"completed"} : transitionStage(r, expected, next)
    BY <1>2
  <2>2. Repository!transitionStage(r, expected, next)
    BY <2>1 DEF transitionStage, Repository!transitionStage, leaseVars, workerVars
  <2> QED
    BY <2>2 DEF Repository!Next, Open, Stages, Repository!Open, Repository!Stages
<1>3. CASE commitCompletion(r, "running")
  <2>1. Repository!commitCompletion(r, "running")
    BY <1>3 DEF commitCompletion, Repository!commitCompletion, leaseVars, workerVars
  <2> QED
    BY <2>1 DEF Repository!Next
<1>4. CASE \E l \in LeaseIds : putLease(r, l)
  <2>1. PICK l \in LeaseIds : putLease(r, l)
    BY <1>4
  <2>2. Repository!putLease(r, l)
    BY <2>1 DEF putLease, Repository!putLease, requestVars, workerVars
  <2> QED
    BY <2>2 DEF Repository!Next
<1> QED
  BY <1>1, <1>2, <1>3, <1>4

\* The index finds the only request that may have the lease.
LEMMA DeleteLeaseRefines ==
  ASSUME IInv, NEW l \in LeaseIds, deleteLease(l)
  PROVE  Repository!Next
<1> DEFINE r == leaseIndexKv[l]
<1>1. r \in RequestIds /\ \A q \in RequestIds : leaseKv[q] = l <=> q = r
  BY DEF IInv, TypeOK, IndexSound, deleteLease
<1>2. leaseKv' = [leaseKv EXCEPT ![r] = None]
  BY <1>1 DEF deleteLease
<1> HIDE DEF r
<1>3. leaseKv' = [q \in RequestIds |-> IF leaseKv[q] = l THEN None ELSE leaseKv[q]]
  BY <1>1, <1>2 DEF IInv, TypeOK
<1>4. Repository!deleteLease(l)
  BY <1>3 DEF deleteLease, Repository!deleteLease, requestVars, workerVars
<1> QED
  BY <1>4 DEF Repository!Next

LEMMA StoreWorkerRefines ==
  ASSUME IInv, NEW w \in WorkerIds,
         putWorker(w) \/ refreshWorker(w) \/ deleteWorker(w)
  PROVE  Repository!Next
<1>1. UNCHANGED <<proxies, requestVars, leaseKv>>
  BY DEF putWorker, refreshWorker, deleteWorker, leaseVars
<1>2. CASE putWorker(w) \/ refreshWorker(w)
  <2>1. /\ workerKv' = [workerKv EXCEPT ![w] = workerKv'[w]]
        /\ workerKv'[w] \in WorkerRecords
    <3>1. CASE putWorker(w)
      <4>1. PICK t \in {1, 2} : workerKv' = [workerKv EXCEPT ![w] =
                                   [generation |-> generations + 1, stage |-> "idle", tier |-> t]]
        BY <3>1 DEF putWorker
      <4>2. generations + 1 \in Generations
        BY <3>1 DEF putWorker, IInv, TypeOK, Generations
      <4>3. [generation |-> generations + 1, stage |-> "idle", tier |-> t] \in WorkerRecords
        BY <4>2 DEF WorkerRecords, WorkerStages
      <4> QED
        BY <4>1, <4>3 DEF IInv, TypeOK
    <3>2. CASE refreshWorker(w)
      <4>1. PICK t \in {1, 2} : workerKv' = [workerKv EXCEPT ![w].tier = t]
        BY <3>2 DEF refreshWorker
      <4>2. workerKv[w] \in WorkerRecords
        BY <3>2 DEF refreshWorker, IInv, TypeOK
      <4>3. [workerKv[w] EXCEPT !.tier = t] \in WorkerRecords
        BY <4>2 DEF WorkerRecords
      <4> QED
        BY <4>1, <4>3 DEF IInv, TypeOK
    <3> QED
      BY <1>2, <3>1, <3>2
  <2>2. workerKv'[w] \in Repository!WorkerRecords
    BY <2>1 DEF WorkerRecords, WorkerStages, Repository!WorkerRecords
  <2>3. Repository!putWorker(w)
    BY <1>1, <2>1, <2>2 DEF Repository!putWorker, requestVars
  <2> QED
    BY <2>3 DEF Repository!Next
<1>3. CASE deleteWorker(w)
  <2>1. Repository!deleteWorker(w)
    BY <1>1, <1>3 DEF deleteWorker, Repository!deleteWorker, requestVars
  <2> QED
    BY <2>1 DEF Repository!Next
<1> QED
  BY <1>2, <1>3

LEMMA GetRefines ==
  ASSUME IInv, NEW h \in Handles,
         \/ \E r \in RequestIds : getRequest(h, r)
         \/ \E w \in WorkerIds : getWorker(h, w)
  PROVE  Repository!Next
<1>1. CASE \E r \in RequestIds : getRequest(h, r)
  <2>1. PICK r \in RequestIds : getRequest(h, r)
    BY <1>1
  <2>2. Held' = [Held EXCEPT ![h] = [request |-> r]]
    BY <2>1 DEF getRequest, IInv, TypeOK, Held, HeldBy
  <2>3. Repository!getRequest(h, r)
    BY <2>1, <2>2 DEF getRequest, Repository!getRequest, requestVars, leaseVars, workerVars, Held
  <2> QED
    BY <2>3 DEF Repository!Next
<1>2. CASE \E w \in WorkerIds : getWorker(h, w)
  <2>1. PICK w \in WorkerIds : getWorker(h, w)
    BY <1>2
  <2>2. Held' = [Held EXCEPT ![h] = [worker |-> w, generation |-> workerKv[w].generation]]
    BY <2>1 DEF getWorker, IInv, TypeOK, Held, HeldBy
  <2>3. Repository!getWorker(h, w)
    BY <2>1, <2>2 DEF getWorker, Repository!getWorker, requestVars, leaseVars, workerVars, Held
  <2> QED
    BY <2>3 DEF Repository!Next
<1> QED
  BY <1>1, <1>2

\* The merge makes an assignment through an old copy one to the stored record.
LEMMA SetRequestRefines ==
  ASSUME IInv, NEW h \in Handles, NEW write \in RequestWrites, setRequest(h, write[1], write[2])
  PROVE  Repository!Next
<1> DEFINE r == proxies[h].key
<1>1. proxies[h].kind = "request" /\ r \in RequestIds
  BY ProxyShape DEF setRequest, IInv, TypeOK
<1>2. requestKv' = [requestKv EXCEPT ![r][write[1]] = write[2]]
  BY DEF setRequest, Persisted
<1>3. proxies' = [proxies EXCEPT ![h].target[write[1]] = write[2]]
  BY DEF setRequest
<1>4. Held' = Held
  BY <1>1, <1>3, CopyWritten DEF Held
<1>5. Held[h] = [request |-> r]
  BY <1>1 DEF Held, HeldBy
<1>6. Repository!assignRequest(r, write[1], write[2])
  BY <1>2, <1>4, <1>5 DEF setRequest, Repository!assignRequest, leaseVars, workerVars, Held
<1>7. write \in Repository!RequestWrites
  BY DEF RequestWrites, Repository!RequestWrites
<1> QED
  BY <1>1, <1>6, <1>7 DEF Repository!Next

\* With the generation fence it is one to the record that was read, or to none.
LEMMA SetWorkerRefines ==
  ASSUME IInv, NEW h \in Handles, NEW write \in WorkerWrites,
         setWorker(h, write[1], write[2])
  PROVE  [Repository!Next]_(Repository!vars)
<1> DEFINE w == proxies[h].key
<1>1. proxies[h].kind = "worker" /\ w \in WorkerIds
  BY WorkerMerged
<1>2. /\ proxies' = [proxies EXCEPT ![h].target[write[1]] = write[2]]
      /\ UNCHANGED <<generations, requestVars, leaseVars>>
  BY DEF setWorker
<1>3. Held' = Held
  BY <1>1, <1>2, CopyWritten DEF Held
<1>4. CASE canPersist(workerKv[w], proxies[h].target)
  <2>1. workerKv' = [workerKv EXCEPT ![w][write[1]] = write[2]]
    BY <1>4 DEF setWorker, Persisted
  <2>2. workerKv[w] # None /\ workerKv[w].generation = proxies[h].target.generation
    BY <1>4 DEF canPersist
  <2>3. Held[h] = [worker |-> w, generation |-> workerKv[w].generation]
    BY <1>1, <2>2 DEF Held, HeldBy
  <2>4. Repository!assignWorker(w, write[1], write[2])
    BY <1>2, <1>3, <2>1, <2>2, <2>3 DEF Repository!assignWorker, requestVars, leaseVars, Held
  <2>5. write \in Repository!WorkerWrites
    BY DEF WorkerWrites, WorkerStages, Repository!WorkerWrites
  <2> QED
    BY <1>1, <2>4, <2>5 DEF Repository!Next
<1>5. CASE ~canPersist(workerKv[w], proxies[h].target)
  <2>1. workerKv' = workerKv
    BY <1>5 DEF setWorker
  <2> QED
    BY <1>2, <1>3, <2>1 DEF Repository!vars, requestVars, leaseVars, Held
<1> QED
  BY <1>4, <1>5

LEMMA NextRefines ==
  ASSUME IInv, [RepositoryNext]_repositoryVars PROVE [Repository!Next]_(Repository!vars)
<1>1. CASE \E r \in RequestIds :
              \/ createRequest(r)
              \/ \E expected \in Open, next \in Stages \ {"completed"} :
                    transitionStage(r, expected, next)
              \/ commitCompletion(r, "running")
              \/ \E l \in LeaseIds : putLease(r, l)
  BY <1>1, RequestRefines
<1>2. CASE \E l \in LeaseIds : deleteLease(l)
  BY <1>2, DeleteLeaseRefines
<1>3. CASE \E w \in WorkerIds : putWorker(w) \/ refreshWorker(w) \/ deleteWorker(w)
  BY <1>3, StoreWorkerRefines
<1>4. CASE \E h \in Handles : \/ \E r \in RequestIds : getRequest(h, r)
                             \/ \E w \in WorkerIds : getWorker(h, w)
  BY <1>4, GetRefines
<1>5. CASE \E h \in Handles, write \in RequestWrites : setRequest(h, write[1], write[2])
  BY <1>5, SetRequestRefines
<1>6. CASE \E h \in Handles, write \in WorkerWrites : setWorker(h, write[1], write[2])
  BY <1>6, SetWorkerRefines
<1>7. CASE UNCHANGED repositoryVars
  BY <1>7 DEF repositoryVars, Repository!vars
<1> QED
  BY <1>1, <1>2, <1>3, <1>4, <1>5, <1>6, <1>7 DEF RepositoryNext

\* Records that are read as copies behave as the live records of the contract do: a write through an
\* old copy reaches the stored record, only in its field and only in its own generation.
THEOREM ImplementsLiveRecords == RepositorySpec => ImplementsRepository
<1>1. RepositoryInit => Repository!Init
  BY InitRefines
<1>2. IInv /\ [RepositoryNext]_repositoryVars => [Repository!Next]_(Repository!vars)
  BY NextRefines
<1> QED
  BY <1>1, <1>2, Invariance, PTL DEF RepositorySpec, ImplementsRepository, Repository!Spec
=============================================================================
