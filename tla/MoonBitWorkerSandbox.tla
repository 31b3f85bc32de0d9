------------------------ MODULE MoonBitWorkerSandbox ------------------------
(***************************************************************************)
(* The executor of MoonBit modules (core/packages/client/src/               *)
(* moonbit-worker-sandbox.ts).  Its worker generations, queue and handlers  *)
(* are those of WebWorkerSandbox for a worker that cannot be interrupted.   *)
(* Before a call enters them its module is fetched: concurrent calls for    *)
(* one module share a fetch, each may be aborted on its own, the last one   *)
(* to leave aborts the fetch, and fetched bytes stay in a bounded cache.    *)
(***************************************************************************)
EXTENDS Naturals, FiniteSets, SequencesExt

CONSTANTS
    Executes, MaxQueue, NoRun,
    Modules,        \* module URL and content hash: the keys of bytesCache
    MaxCached,      \* maxCachedModules
    Stored          \* marks a cache entry that holds bytes

VARIABLES
    exec, aborted,  \* the executor, as in WebWorkerSandbox
    bytesCache,     \* in insertion order: the key and Stored or the fetch it waits for
    fetch,          \* the fetches, each named by the call that began it
    prep            \* where each call is on its way to the executor

moonBitVars == <<exec, aborted, bytesCache, fetch, prep>>

S == INSTANCE WebWorkerSandbox WITH Calls <- Executes, Cooperative <- FALSE

\* The executor's own assumptions, and that no call is taken for the mark of stored bytes.
ASSUME ModulesAssumption ==
    /\ MaxQueue \in Nat /\ NoRun \notin S!Runs /\ NoRun \notin S!Requests
    /\ MaxCached \in Nat /\ Stored \notin Executes

Stages == {"none", "await", "loaded", "failed", "cancelled", "entered"}
NoFetch == [stage |-> "none", fetch |-> Stored]

Keys == {bytesCache[i].key : i \in DOMAIN bytesCache}
Entry(k) == CHOOSE e \in ToSet(bytesCache) : e.key = k
Without(k) == RemoveFirstMatch(bytesCache, LAMBDA e : e.key = k)
IsCurrent(f) == \E e \in ToSet(bytesCache) : e.holds = f

\* pending.waiters: the calls that have joined and whose `finally` has not run.
ModuleWaiters(f) == {c \in Executes : prep[c].fetch = f /\ prep[c].stage # "entered"}

MoonBitInit ==
    /\ S!Init
    /\ bytesCache = <<>>
    /\ fetch = [c \in Executes |-> "none"]
    /\ prep = [c \in Executes |-> NoFetch]

-----------------------------------------------------------------------------

Settle(c, kind) ==
    /\ exec' = S!Settle([exec EXCEPT !.outcome[c] = "pending"], {c}, kind)
    /\ prep' = [prep EXCEPT ![c].stage = "entered"]

\* execute() of a call that is refused before anything is fetched.
Refuse(c) ==
    /\ prep[c].stage = "none"
    /\ \/ c \in aborted /\ Settle(c, "cancelled")
       \/ c \notin aborted /\ exec.status = "disposed" /\ Settle(c, "runtime")
    /\ UNCHANGED <<aborted, bytesCache, fetch>>

\* prepare(): use the stored bytes, join the fetch under way or begin one.
Prepare(c, k) ==
    /\ prep[c].stage = "none"
    /\ c \notin aborted
    /\ exec.status # "disposed"
    /\ UNCHANGED <<exec, aborted>>
    /\ \/ /\ k \in Keys /\ Entry(k).holds = Stored
          /\ bytesCache' = Append(Without(k), Entry(k))
          /\ prep' = [prep EXCEPT ![c].stage = "loaded"]
          /\ UNCHANGED fetch
       \/ /\ k \in Keys /\ Entry(k).holds # Stored
          /\ prep' = [prep EXCEPT ![c] = [stage |-> "await", fetch |-> Entry(k).holds]]
          /\ UNCHANGED <<bytesCache, fetch>>
       \/ /\ k \notin Keys
          /\ bytesCache' = Append(bytesCache, [key |-> k, holds |-> c])
          /\ fetch' = [fetch EXCEPT ![c] = "loading"]
          /\ prep' = [prep EXCEPT ![c] = [stage |-> "await", fetch |-> c]]

Settled(cache) == {e \in ToSet(cache) : e.holds = Stored}

\* publishBytes: the bytes replace the fetch at the end of the map and the oldest stored entry
\* beyond the limit goes.  There is one at most, the loop of the code ends after its first round.
Published(k) ==
    LET entries == Append(Without(k), [key |-> k, holds |-> Stored])
    IN  IF MaxCached = 0 THEN Without(k)
        ELSE IF Cardinality(Settled(entries)) > MaxCached
        THEN RemoveFirstMatch(entries, LAMBDA e : e.holds = Stored) ELSE entries

\* fetchBytes ends; the reactions to the promise run before its waiters go on.
FetchSettles(f, ok) ==
    /\ S!Quiet
    /\ fetch[f] = "loading"
    /\ fetch' = [fetch EXCEPT ![f] = "settled"]
    /\ prep' = [c \in Executes |->
                  IF prep[c].fetch = f /\ prep[c].stage = "await"
                  THEN [prep[c] EXCEPT !.stage = IF ok THEN "loaded" ELSE "failed"] ELSE prep[c]]
    /\ \E k \in Keys :
          /\ Entry(k).holds = f
          /\ bytesCache' = IF ok THEN Published(k) ELSE Without(k)
    /\ UNCHANGED <<exec, aborted>>

\* Mutant: any waiter that leaves aborts the fetch.
LeaveAborts(c) ==
    LET f == prep[c].fetch IN
    IF f # Stored /\ IsCurrent(f)
    THEN /\ bytesCache' = RemoveFirstMatch(bytesCache, LAMBDA e : e.holds = f)
         /\ fetch' = [fetch EXCEPT ![f] = "aborted"]
    ELSE UNCHANGED <<bytesCache, fetch>>

\* What the `finally` of prepare() does when c goes on: the last waiter of a fetch that is still
\* in the cache drops and aborts it.
Leave(c) ==
    LET f == prep[c].fetch IN
    IF f # Stored /\ ModuleWaiters(f) = {c} /\ IsCurrent(f)
    THEN /\ bytesCache' = RemoveFirstMatch(bytesCache, LAMBDA e : e.holds = f)
         /\ fetch' = [fetch EXCEPT ![f] = "aborted"]
    ELSE UNCHANGED <<bytesCache, fetch>>

\* execute() goes on after prepare(): the abort is looked at again, a disposal by startRequest.
ExecuteCall(s, c) == S!ExecuteCall(s, c)

MoonBitResume(c) ==
    /\ prep[c].stage \in {"loaded", "failed", "cancelled"}
    /\ Leave(c)
    /\ UNCHANGED aborted
    /\ \/ prep[c].stage = "failed" /\ Settle(c, "runtime")
       \/ prep[c].stage = "cancelled" /\ Settle(c, "cancelled")
       \/ prep[c].stage = "loaded" /\ c \in aborted /\ Settle(c, "cancelled")
       \/ /\ prep[c].stage = "loaded" /\ c \notin aborted
          /\ exec' \in ExecuteCall([exec EXCEPT !.outcome[c] = "pending"], c)
          /\ prep' = [prep EXCEPT ![c].stage = "entered"]

\* Mutant: the executor does not listen to the signal.
AbortPendingIgnored(s, c) == {s}

\* The signal fires: the race with the fetch is lost at once, or the executor's listener runs.  A
\* posted request terminates its worker.
AbortPending(s, c) == S!AbortPending(s, c)

MoonBitAbort(c) ==
    /\ c \notin aborted
    /\ exec.outcome[c] \in {"idle", "pending"}
    /\ aborted' = aborted \cup {c}
    /\ IF exec.outcome[c] = "pending" THEN exec' \in AbortPending(exec, c) ELSE UNCHANGED exec
    /\ prep' = IF prep[c].stage = "await" THEN [prep EXCEPT ![c].stage = "cancelled"] ELSE prep
    /\ UNCHANGED <<bytesCache, fetch>>

\* dispose(): every fetch under way is aborted, so its waiters fail.
MoonBitDispose ==
    /\ S!Dispose
    /\ bytesCache' = <<>>
    /\ fetch' = [f \in Executes |-> IF IsCurrent(f) THEN "aborted" ELSE fetch[f]]
    /\ prep' = [c \in Executes |->
                  IF prep[c].stage = "await" THEN [prep[c] EXCEPT !.stage = "failed"] ELSE prep[c]]

-----------------------------------------------------------------------------
(* The worker generations.                                                 *)

\* The continuations of the init promise in startRequest and drainQueue.
InitContinues == S!InitRejects \/ S!Continue

InitTimeout == S!InitTimeout

\* handleHardTimeout and failGeneration
HardTimeout == S!HardTimeout

\* MoonBit has no deadline of its own inside the worker.
MoonBitResponses == {m \in S!Responses : m.type = "execute-result" => m.kind # "deadline"}

\* The handlers of doInit.
InitAnswer(m) == exec.status = "initializing" /\ S!OnMessage(m)

\* The handlers of setupMessageHandler and handleExecuteResult; acknowledgements are ignored.
WorkerAnswer(m) == exec.status # "initializing" /\ S!OnMessage(m)

Executor ==
    \/ InitContinues
    \/ InitTimeout
    \/ HardTimeout
    \/ \E m \in MoonBitResponses : InitAnswer(m) \/ WorkerAnswer(m)

MoonBitNext ==
    \/ \E c \in Executes, k \in Modules : Prepare(c, k)
    \/ \E c \in Executes : Refuse(c) \/ MoonBitResume(c) \/ MoonBitAbort(c)
    \/ \E f \in Executes, ok \in BOOLEAN : FetchSettles(f, ok)
    \/ MoonBitDispose
    \/ Executor /\ UNCHANGED <<bytesCache, fetch, prep>>

MoonBitSpec == MoonBitInit /\ [][MoonBitNext]_moonBitVars

-----------------------------------------------------------------------------
(* Properties.                                                             *)

MoonBitTypeOK ==
    /\ S!TypeOK
    /\ bytesCache \in Seq([key : Modules, holds : Executes \cup {Stored}])
    /\ fetch \in [Executes -> {"none", "loading", "settled", "aborted"}]
    /\ prep \in [Executes -> [stage : Stages, fetch : Executes \cup {Stored}]]

\* The fetches under way are exactly those in the cache, one per module, and each is wanted: an
\* abort does not leak a request, a second call does not start a second download, and an abort of
\* one caller never takes the fetch away from another, even if that joined while the last waiter
\* before it was leaving.
FetchesAreShared ==
    /\ MoonBitTypeOK
    /\ \A f \in Executes : (fetch[f] = "loading") = IsCurrent(f)
    /\ \A f \in Executes : fetch[f] = "loading" => ModuleWaiters(f) # {}
    /\ \A i, j \in DOMAIN bytesCache : bytesCache[i].key = bytesCache[j].key => i = j
    /\ \A c \in Executes : prep[c].stage = "await" => fetch[prep[c].fetch] = "loading"

\* The cache keeps at most MaxCached modules and nothing once the executor is disposed, also when
\* a fetch ends afterwards.
CacheBounded ==
    /\ Cardinality(Settled(bytesCache)) <= MaxCached
    /\ exec.status = "disposed" => bytesCache = <<>>

\* The shared cache keeps both promises in whatever order fetches end, fail, join and are left.
CacheSound == FetchesAreShared /\ CacheBounded

\* What a caller sees of its call.
Promise(c) ==
    IF exec.outcome[c] = "idle" /\ prep[c].stage # "none" THEN "pending" ELSE exec.outcome[c]

\* Fetching included, the executor keeps the promise of the SandboxExecutor interface.
Contract == INSTANCE ExecutionContract WITH Calls <- Executes,
    promise <- [c \in Executes |-> Promise(c)], Commits <- {"value", "function", "deadline"},
    Failures <- {"cancelled", "runtime"}
ImplementsContract == Contract!Spec

=============================================================================
