--------------------- MODULE MoonBitWorkerSandbox_proofs ---------------------
(***************************************************************************)
(* Proofs about the MoonBit executor, for any set of calls and modules and  *)
(* any size of its queue and cache.  Its worker generations are those of    *)
(* WebWorkerSandbox with Cooperative = FALSE, so the lemmas about them are  *)
(* taken from WebWorkerSandbox_proofs through an instance; what is added is *)
(* a call that waits for its module: it is idle in the executor, and its    *)
(* caller already sees it pending.                                         *)
(***************************************************************************)
EXTENDS MoonBitWorkerSandbox, SequenceTheorems, FiniteSetTheorems, TLAPS

\* The worker is outside: whatever it sends, and it is never the composed one of QuickJsSystem.
W == INSTANCE WebWorkerSandbox_proofs WITH
    Calls <- Executes, Cooperative <- FALSE, genuine <- FALSE, busy <- NoRun, replies <- <<>>

USE ModulesAssumption

\* The assumptions under which those lemmas hold.
LEMMA InstanceSound ==
  /\ MaxQueue \in Nat
  /\ FALSE \in BOOLEAN
  /\ NoRun \notin [call : Executes, posted : BOOLEAN, cancelling : BOOLEAN]
  /\ NoRun \notin W!Requests
BY DEF S!Runs, S!Requests, W!Requests

-----------------------------------------------------------------------------
(* The handlers, by either name.                                           *)

LEMMA SameHandlers ==
  /\ \A s, C, kind : S!Settle(s, C, kind) = W!Settle(s, C, kind)
  /\ \A s, c : S!ExecuteCall(s, c) = W!ExecuteCall(s, c)
  /\ \A s, c : S!AbortPending(s, c) = W!AbortPending(s, c)
  /\ S!Dispose => W!Dispose
  /\ InitContinues => W!Continuations
  /\ S!InitTimeout \/ S!HardTimeout => W!Timers
  /\ \A m : S!OnMessage(m) => W!OnMessage(m)
<1>1. \A s, C, kind : S!Settle(s, C, kind) = W!Settle(s, C, kind)
  BY DEF S!Settle, W!Settle
<1>2. \A s : S!Teardown(s) = W!Teardown(s)
  BY DEF S!Teardown, W!Teardown
<1>3. \A s, kind : S!FinishRun(s, kind) = W!FinishRun(s, kind)
  BY <1>1 DEF S!FinishRun, W!FinishRun
<1>4. \A s, kind : S!RejectAllQueued(s, kind) = W!RejectAllQueued(s, kind)
  BY <1>1 DEF S!RejectAllQueued, W!RejectAllQueued, S!ToSet, W!ToSet
<1>5. \A s : S!EnsureInitialized(s) = W!EnsureInitialized(s)
  BY DEF S!EnsureInitialized, W!EnsureInitialized
<1>6. \A s, c : S!Posted(s, c) = W!Posted(s, c)
  BY DEF S!Posted, W!Posted
<1>7. \A s : S!StartNext(s) = W!StartNext(s)
  BY DEF S!StartNext, W!StartNext, S!Settle, W!Settle, S!Posted, W!Posted, S!ToSet, W!ToSet
<1>8. \A s : S!Drain(s) = W!Drain(s)
  BY <1>5, <1>7 DEF S!Drain, W!Drain, S!Drainer, W!Drainer
<1>9. \A s, c : S!Post(s, c) = W!Post(s, c)
  BY <1>3, <1>6, <1>8 DEF S!Post, W!Post
<1>10. \A s, kind : S!FailGeneration(s, kind) = W!FailGeneration(s, kind)
  BY <1>2, <1>3, <1>8 DEF S!FailGeneration, W!FailGeneration
<1>11. \A s, ok : S!WakeWaiters(s, ok) = W!WakeWaiters(s, ok)
  BY DEF S!WakeWaiters, W!WakeWaiters
<1>12. \A s : S!InitFails(s) = W!InitFails(s)
  BY <1>2, <1>11 DEF S!InitFails, W!InitFails
<1>13. \A s, c : S!StartRequest(s, c) = W!StartRequest(s, c)
  BY <1>5, <1>9 DEF S!StartRequest, W!StartRequest, S!Owner, W!Owner
<1>14. \A s, c : S!ExecuteCall(s, c) = W!ExecuteCall(s, c)
  BY <1>1, <1>13 DEF S!ExecuteCall, W!ExecuteCall
<1>15. \A s, c : S!InitiateCancel(s, c) = W!InitiateCancel(s, c)
  BY <1>10 DEF S!InitiateCancel, W!InitiateCancel
<1>16. \A s, c : S!AbortPending(s, c) = W!AbortPending(s, c)
  <2>1. /\ \A q : S!ToSet(q) = W!ToSet(q)
        /\ \A q, i : S!RemoveAt(q, i) = W!RemoveAt(q, i)
    BY DEF S!ToSet, W!ToSet, S!RemoveAt, W!RemoveAt
  <2> QED
    BY <1>1, <1>3, <1>8, <1>15, <2>1, Zenon DEF S!AbortPending, W!AbortPending
<1>17. S!Dispose => W!Dispose
  BY <1>2, <1>3, <1>4, <1>12 DEF S!Dispose, W!Dispose
<1>18. InitContinues => W!Continuations
  <2>1. \A s, c, ok : S!OwnerContinues(s, c, ok) = W!OwnerContinues(s, c, ok)
    BY <1>3, <1>4, <1>9 DEF S!OwnerContinues, W!OwnerContinues
  <2>2. \A s, ok : S!DrainContinues(s, ok) = W!DrainContinues(s, ok)
    BY <1>4, <1>8 DEF S!DrainContinues, W!DrainContinues
  <2>3. S!Continue => W!Continue
    BY <2>1, <2>2 DEF S!Continue, W!Continue
  <2>4. S!InitRejects => W!InitRejects
    BY <1>11 DEF S!InitRejects, W!InitRejects
  <2> QED
    BY <2>3, <2>4 DEF InitContinues, W!Continuations
<1>19. S!InitTimeout \/ S!HardTimeout => W!Timers
  BY <1>10, <1>12
  DEF S!InitTimeout, W!InitTimeout, S!HardTimeout, W!HardTimeout, S!Quiet, W!Quiet, W!Timers
<1>20. \A m : S!OnMessage(m) => W!OnMessage(m)
  <2>1. \A s : S!InitSucceeds(s) = W!InitSucceeds(s)
    BY <1>11 DEF S!InitSucceeds, W!InitSucceeds
  <2>2. \A s, m : S!InitMessage(s, m) = W!InitMessage(s, m)
    BY <1>12, <2>1 DEF S!InitMessage, W!InitMessage
  <2>3. \A s, m : S!HandleExecuteResult(s, m) = W!HandleExecuteResult(s, m)
    BY <1>3, <1>8, <1>10 DEF S!HandleExecuteResult, W!HandleExecuteResult
  <2>4. \A s, m : S!ReadyMessage(s, m) = W!ReadyMessage(s, m)
    BY <1>10, <2>3 DEF S!ReadyMessage, W!ReadyMessage
  <2> QED
    BY <2>2, <2>4 DEF S!OnMessage, W!OnMessage, S!Quiet, W!Quiet
<1> QED
  BY <1>1, <1>14, <1>16, <1>17, <1>18, <1>19, <1>20

-----------------------------------------------------------------------------
(* A call on its way to the executor.                                      *)

\* A call enters the executor when its fetch is over, and is idle there until it does.
Prepared ==
    /\ prep \in [Executes -> [stage : Stages, fetch : Executes \cup {Stored}]]
    /\ \A c \in Executes : exec.outcome[c] = "idle" <=> prep[c].stage # "entered"

\* A caller whose call is being prepared has it pending; it sees nothing of what goes on.
SameView ==
    \A c \in Executes : exec'.outcome[c] = "idle" =>
        exec.outcome[c] = "idle" /\ (prep'[c].stage = "none" <=> prep[c].stage = "none")

Obeys == Contract!Next \/ UNCHANGED Contract!vars

Outcomes == {"idle", "pending"} \cup {"value", "function", "deadline"} \cup {"cancelled", "runtime"}

LEMMA OutcomesKnown ==
  ASSUME NEW A, NEW s, W!Sound(s, A)
  PROVE  s.outcome \in [Executes -> Outcomes]
BY DEF W!Sound, W!Executors, W!Kinds, Outcomes

\* What the executor does for a call that has entered, its caller may see.
LEMMA Lifted ==
  ASSUME W!IInv, W!IInv', W!Obeys, SameView
  PROVE  Obeys
<1> DEFINE p == [c \in Executes |-> Promise(c)]
           n == [c \in Executes |-> IF exec'.outcome[c] = "idle" /\ prep'[c].stage # "none"
                                 THEN "pending" ELSE exec'.outcome[c]]
<1>1. exec.outcome \in [Executes -> Outcomes] /\ exec'.outcome \in [Executes -> Outcomes]
  BY OutcomesKnown DEF W!IInv
<1>2. p' = n /\ p' \in [Executes -> Outcomes]
  BY <1>1 DEF Promise, Outcomes
<1>3. CASE W!Contract!Step
  <2>1. ASSUME NEW c \in Executes, p'[c] # p[c]
        PROVE  /\ p[c] \in {"idle", "pending"} /\ p'[c] # "idle"
               /\ p'[c] \in {"value", "function", "deadline"} => c \notin aborted
    <3>1. exec'.outcome[c] # exec.outcome[c]
      BY <1>2, <2>1 DEF SameView, Promise
    <3>2. /\ exec.outcome[c] \in {"idle", "pending"} /\ exec'.outcome[c] # "idle"
          /\ exec'.outcome[c] \in {"value", "function", "deadline"} => c \notin aborted
      BY <1>3, <3>1 DEF W!Contract!Step
    <3> QED
      BY <1>2, <3>2 DEF Promise
  <2>2. UNCHANGED aborted
    BY <1>3 DEF W!Contract!Step
  <2> QED
    BY <1>2, <2>1, <2>2 DEF Obeys, Contract!Next, Contract!Step, Outcomes
<1>4. ASSUME NEW c \in Executes, W!Contract!Abort(c)
      PROVE  Contract!Abort(c)
  <2>1. ASSUME NEW d \in Executes, p'[d] # p[d]
        PROVE  p[d] = "pending" /\ p'[d] \in {"cancelled", "runtime"}
    <3>1. exec'.outcome[d] # exec.outcome[d]
      BY <1>2, <2>1 DEF SameView, Promise
    <3>2. exec.outcome[d] = "pending" /\ exec'.outcome[d] \in {"cancelled", "runtime"}
      BY <1>4, <3>1 DEF W!Contract!Abort
    <3> QED
      BY <1>2, <3>2 DEF Promise
  <2>2. aborted' = aborted \cup {c}
    BY <1>4 DEF W!Contract!Abort
  <2> QED
    BY <1>2, <2>1, <2>2 DEF Contract!Abort, Outcomes
<1>5. CASE UNCHANGED W!Contract!vars
  BY <1>2, <1>5 DEF W!Contract!vars, Contract!vars, SameView, Promise, Obeys
<1> QED
  BY <1>3, <1>4, <1>5 DEF W!Obeys, W!Contract!Next, Obeys, Contract!Next

\* A call enters.
LEMMA EnteredStep ==
  ASSUME W!IInv, W!IInv', W!Obeys, Prepared, NEW c \in Executes,
         \A d \in Executes : exec'.outcome[d] = "idle" <=> exec.outcome[d] = "idle" /\ d # c,
         prep' = [prep EXCEPT ![c].stage = "entered"]
  PROVE  Prepared' /\ Obeys
<1>1. prep' \in [Executes -> [stage : Stages, fetch : Executes \cup {Stored}]]
  BY DEF Prepared, Stages
<1>2. \A d \in Executes : prep'[d].stage = IF d = c THEN "entered" ELSE prep[d].stage
  BY DEF Prepared
<1>3. Prepared' /\ SameView
  BY <1>1, <1>2 DEF Prepared, SameView
<1> QED
  BY <1>3, Lifted

\* execute() ends without the executor, or takes the call to it.
LEMMA SettleStep ==
  ASSUME W!IInv, Prepared, NEW c \in Executes, prep[c].stage # "entered",
         NEW kind \in {"cancelled", "runtime"}, Settle(c, kind), UNCHANGED aborted
  PROVE  W!IInv' /\ Prepared' /\ Obeys /\ W!Stands(exec, exec')
<1>1. exec.outcome[c] = "idle"
  BY DEF Prepared
<1>2. exec' = W!Settle([exec EXCEPT !.outcome[c] = "pending"], {c}, kind)
  BY SameHandlers DEF Settle
<1>3. W!Sound(exec', aborted) /\ W!Fails([exec EXCEPT !.outcome[c] = "pending"], exec')
  <2>1. aborted \in SUBSET Executes /\ W!Sound(exec, aborted) /\ kind \in W!Kinds
    BY DEF W!IInv, W!Kinds
  <2> QED
    BY <1>1, <1>2, <2>1, InstanceSound, W!RefusedSound
<1>4. /\ W!IInv' /\ W!Obeys /\ W!Stands(exec, exec')
      /\ \A d \in Executes : exec'.outcome[d] = "idle" <=> exec.outcome[d] = "idle" /\ d # c
  BY <1>1, <1>3, InstanceSound, W!TakenStep
<1> QED
  BY <1>4, EnteredStep DEF Settle

-----------------------------------------------------------------------------
(* The executor and the callers.                                           *)

Entries == [key : Modules, holds : Executes \cup {Stored}]

\* What a step owes to the executor and to the callers.
Kept == W!IInv' /\ Prepared' /\ Obeys /\ W!Stands(exec, exec')

\* The executor does not move, and no caller's view changes.
LEMMA StillStep ==
  ASSUME W!IInv, UNCHANGED <<exec, aborted>>, Prepared', SameView
  PROVE  Kept
<1>1. W!IInv'
  BY DEF W!IInv
<1>2. W!Obeys
  BY DEF W!Obeys, W!Contract!vars
<1> QED
  BY <1>1, <1>2, Lifted DEF Kept, W!Stands

LEMMA RefuseStep ==
  ASSUME W!IInv, Prepared, NEW c \in Executes, Refuse(c)
  PROVE  Kept
<1>1. UNCHANGED aborted /\ prep[c].stage # "entered"
  BY DEF Refuse
<1>2. \E kind \in {"cancelled", "runtime"} : Settle(c, kind)
  BY DEF Refuse
<1> QED
  BY <1>1, <1>2, SettleStep DEF Kept

LEMMA EntryKnown ==
  ASSUME bytesCache \in Seq(Entries), NEW k \in Keys
  PROVE  /\ Entry(k) \in ToSet(bytesCache) /\ Entry(k) \in Entries /\ Entry(k).key = k
<1>1. /\ DOMAIN bytesCache = 1..Len(bytesCache)
      /\ \A i \in DOMAIN bytesCache : bytesCache[i] \in Entries
  OBVIOUS
<1>2. \E e \in ToSet(bytesCache) : e.key = k
  BY DEF Keys, ToSet
<1> QED
  BY <1>1, <1>2 DEF Entry, ToSet

LEMMA PrepareStep ==
  ASSUME W!IInv, Prepared, bytesCache \in Seq(Entries),
         NEW c \in Executes, NEW k \in Modules, Prepare(c, k)
  PROVE  Kept
<1>1. prep[c].stage = "none" /\ UNCHANGED <<exec, aborted>> /\ exec.outcome[c] = "idle"
  BY DEF Prepare, Prepared
<1>2. PICK stage \in {"loaded", "await"}, f \in Executes \cup {Stored} :
        prep' = [prep EXCEPT ![c] = [stage |-> stage, fetch |-> f]]
  <2>1. CASE k \in Keys /\ Entry(k).holds = Stored
    <3>1. prep' = [prep EXCEPT ![c].stage = "loaded"]
      BY <2>1 DEF Prepare
    <3>2. /\ prep[c] = [stage |-> "none", fetch |-> prep[c].fetch]
          /\ prep[c].fetch \in Executes \cup {Stored}
      BY <1>1 DEF Prepared
    <3>3. [prep[c] EXCEPT !.stage = "loaded"] = [stage |-> "loaded", fetch |-> prep[c].fetch]
      BY <3>2
    <3>4. prep' = [prep EXCEPT ![c] = [stage |-> "loaded", fetch |-> prep[c].fetch]]
      BY <3>1, <3>3
    <3> QED
      BY <3>2, <3>4
  <2>2. CASE k \in Keys /\ Entry(k).holds # Stored
    <3>1. prep' = [prep EXCEPT ![c] = [stage |-> "await", fetch |-> Entry(k).holds]]
      BY <2>2 DEF Prepare
    <3>2. Entry(k).holds \in Executes \cup {Stored}
      BY <2>2, EntryKnown DEF Entries
    <3> QED
      BY <3>1, <3>2
  <2>3. CASE k \notin Keys
    BY <2>3 DEF Prepare
  <2> QED
    BY <2>1, <2>2, <2>3
<1>3. \A d \in Executes : prep'[d].stage = IF d = c THEN stage ELSE prep[d].stage
  BY <1>2 DEF Prepared
<1>4. Prepared'
  <2>1. prep' \in [Executes -> [stage : Stages, fetch : Executes \cup {Stored}]]
    BY <1>2 DEF Prepared, Stages
  <2> QED
    BY <1>1, <1>3, <2>1 DEF Prepared
<1>5. Contract!Step
  <2>1. exec.outcome \in [Executes -> Outcomes]
    BY OutcomesKnown DEF W!IInv
  <2> DEFINE p == [d \in Executes |-> Promise(d)]
  <2>2. p' \in [Executes -> Outcomes]
    BY <1>1, <2>1 DEF Promise, Outcomes
  <2>3. ASSUME NEW d \in Executes, p'[d] # p[d]
        PROVE  p[d] = "idle" /\ p'[d] = "pending"
    <3>1. d = c
      BY <1>1, <1>3, <2>3 DEF Promise
    <3> QED
      BY <1>1, <1>3, <3>1 DEF Promise
  <2> QED
    BY <1>1, <2>2, <2>3 DEF Contract!Step, Outcomes
<1>6. W!IInv'
  BY <1>1 DEF W!IInv
<1> QED
  BY <1>1, <1>4, <1>5, <1>6 DEF Kept, Obeys, Contract!Next, W!Stands

LEMMA FetchSettlesStep ==
  ASSUME W!IInv, Prepared, NEW f \in Executes, NEW ok \in BOOLEAN, FetchSettles(f, ok)
  PROVE  Kept
<1>1. /\ UNCHANGED <<exec, aborted>>
      /\ prep' = [c \in Executes |->
                  IF prep[c].fetch = f /\ prep[c].stage = "await"
                  THEN [prep[c] EXCEPT !.stage = IF ok THEN "loaded" ELSE "failed"] ELSE prep[c]]
  BY DEF FetchSettles
<1>2. Prepared' /\ SameView
  <2>1. \A c \in Executes : prep[c] \in [stage : Stages, fetch : Executes \cup {Stored}]
    BY DEF Prepared
  <2>2. \A c \in Executes :
          /\ prep'[c] \in [stage : Stages, fetch : Executes \cup {Stored}]
          /\ \/ prep'[c].stage = prep[c].stage
             \/ prep[c].stage = "await" /\ prep'[c].stage \in {"loaded", "failed"}
    BY <1>1, <2>1 DEF Stages
  <2>3. prep' \in [Executes -> [stage : Stages, fetch : Executes \cup {Stored}]]
    BY <1>1, <2>2
  <2> QED
    BY <1>1, <2>2, <2>3 DEF Prepared, SameView
<1> QED
  BY <1>1, <1>2, StillStep

LEMMA ResumeStep ==
  ASSUME W!IInv, Prepared, NEW c \in Executes, MoonBitResume(c)
  PROVE  Kept
<1>1. /\ UNCHANGED aborted /\ prep[c].stage # "entered" /\ exec.outcome[c] = "idle"
      /\ \/ \E kind \in {"cancelled", "runtime"} : Settle(c, kind)
         \/ /\ exec' \in S!ExecuteCall([exec EXCEPT !.outcome[c] = "pending"], c)
            /\ prep' = [prep EXCEPT ![c].stage = "entered"]
  BY DEF MoonBitResume, Prepared, ExecuteCall
<1>2. CASE \E kind \in {"cancelled", "runtime"} : Settle(c, kind)
  BY <1>1, <1>2, SettleStep DEF Kept
<1>3. CASE /\ exec' \in S!ExecuteCall([exec EXCEPT !.outcome[c] = "pending"], c)
           /\ prep' = [prep EXCEPT ![c].stage = "entered"]
  <2>1. W!Execute(c)
    BY <1>1, <1>3, SameHandlers DEF W!Execute
  <2>2. /\ W!IInv' /\ W!Obeys /\ W!Stands(exec, exec')
        /\ \A d \in Executes : exec'.outcome[d] = "idle" <=> exec.outcome[d] = "idle" /\ d # c
    BY <2>1, InstanceSound, W!ExecuteStep
  <2> QED
    BY <1>3, <2>2, EnteredStep DEF Kept
<1> QED
  BY <1>1, <1>2, <1>3

\* The signal fires: the race with the fetch is lost, or the executor's listener runs.
LEMMA AbortStep ==
  ASSUME W!IInv, Prepared, NEW c \in Executes, MoonBitAbort(c)
  PROVE  Kept
<1>1. W!Abort(c)
  BY SameHandlers DEF MoonBitAbort, AbortPending, W!Abort
<1>2. W!IInv' /\ W!Obeys /\ W!NoneTaken /\ W!Stands(exec, exec')
  BY <1>1, InstanceSound, W!AbortStep
<1>3. \A d \in Executes : prep[d] \in [stage : Stages, fetch : Executes \cup {Stored}]
  BY DEF Prepared
<1>4. prep' = IF prep[c].stage = "await" THEN [prep EXCEPT ![c].stage = "cancelled"] ELSE prep
  BY DEF MoonBitAbort
<1>5. \A d \in Executes : \/ prep'[d].stage = prep[d].stage
                          \/ prep[d].stage = "await" /\ prep'[d].stage = "cancelled"
  BY <1>3, <1>4 DEF Prepared
<1>6. prep' \in [Executes -> [stage : Stages, fetch : Executes \cup {Stored}]]
  BY <1>4 DEF Prepared, Stages
<1>7. Prepared' /\ SameView
  BY <1>2, <1>5, <1>6 DEF Prepared, SameView, W!NoneTaken
<1> QED
  BY <1>2, <1>7, Lifted DEF Kept

\* Every fetch under way is aborted, and the waiters fail when they go on.
LEMMA DisposeStep ==
  ASSUME W!IInv, Prepared, MoonBitDispose
  PROVE  W!IInv' /\ Prepared' /\ Obeys
<1>1. W!Dispose
  BY SameHandlers DEF MoonBitDispose
<1>2. W!IInv' /\ W!Obeys /\ W!NoneTaken
  BY <1>1, InstanceSound, W!DisposeStep
<1>3. \A d \in Executes : prep[d] \in [stage : Stages, fetch : Executes \cup {Stored}]
  BY DEF Prepared
<1>4. prep' = [c \in Executes |->
                IF prep[c].stage = "await" THEN [prep[c] EXCEPT !.stage = "failed"] ELSE prep[c]]
  BY DEF MoonBitDispose
<1>5. \A d \in Executes :
         /\ prep'[d] \in [stage : Stages, fetch : Executes \cup {Stored}]
         /\ \/ prep'[d].stage = prep[d].stage
            \/ prep[d].stage = "await" /\ prep'[d].stage = "failed"
  BY <1>3, <1>4 DEF Stages
<1>6. prep' \in [Executes -> [stage : Stages, fetch : Executes \cup {Stored}]]
  BY <1>4, <1>5
<1>7. Prepared' /\ SameView
  BY <1>2, <1>5, <1>6 DEF Prepared, SameView, W!NoneTaken
<1> QED
  BY <1>2, <1>7, Lifted

\* Continuations, timers and the worker's answers concern calls that have entered.
LEMMA ExecutorStep ==
  ASSUME W!IInv, Prepared, Executor, UNCHANGED prep
  PROVE  Kept
<1>1. W!Continuations \/ W!Timers \/ \E m \in W!Responses : W!OnMessage(m)
  <2>1. MoonBitResponses \subseteq W!Responses
    BY DEF MoonBitResponses, S!Responses, W!Responses, S!Kinds, W!Kinds
  <2> QED
    BY <2>1, SameHandlers DEF Executor, InitTimeout, HardTimeout, InitAnswer, WorkerAnswer
<1>2. W!IInv' /\ W!Obeys /\ W!NoneTaken /\ W!Stands(exec, exec')
  <2>1. CASE W!Continuations
    BY <2>1, InstanceSound, W!InitRejectsStep, W!ContinueStep DEF W!Continuations
  <2>2. CASE W!Timers
    BY <2>2, InstanceSound, W!TimersStep
  <2>3. CASE \E m \in W!Responses : W!OnMessage(m)
    BY <2>3, InstanceSound, W!OnMessageStep
  <2> QED
    BY <1>1, <2>1, <2>2, <2>3
<1>3. Prepared' /\ SameView
  BY <1>2 DEF Prepared, SameView, W!NoneTaken
<1> QED
  BY <1>2, <1>3, Lifted DEF Kept

-----------------------------------------------------------------------------
(* The cache.                                                              *)

\* The first of a set of indices: those up to it are the initial stretch of 1..n + 1 before it.
LEMMA LeastIndex ==
  ASSUME NEW n \in Nat, NEW I \in SUBSET (1..n), I # {}
  PROVE  Min(I) \in I
<1> DEFINE U == {m \in 1..(n + 1) : \A i \in I : m <= i}
           k == Cardinality(U)
<1>1. IsFiniteSet(U) /\ k \in Nat
  <2>1. IsFiniteSet(1..(n + 1)) /\ U \subseteq 1..(n + 1)
    BY FS_Interval
  <2> QED
    BY <2>1, FS_Subset, FS_CardinalityType
<1>2. 1 \in U /\ n + 1 \notin U
  <2>1. PICK i \in I : i \in 1..n
    OBVIOUS
  <2>2. ~(n + 1 <= i)
    BY <2>1
  <2>3. \A j \in I : 1 <= j
    OBVIOUS
  <2>4. 1 \in 1..(n + 1)
    OBVIOUS
  <2> QED
    BY <2>1, <2>2, <2>3, <2>4
<1>3. ASSUME NEW m \in U PROVE m <= k
  <2>1. 1..m \subseteq U
    OBVIOUS
  <2>2. Cardinality(1..m) = m
    BY FS_Interval
  <2> QED
    BY <1>1, <2>1, <2>2, FS_Subset
<1>4. U = 1..k
  <2>1. U \subseteq 1..k
    BY <1>1, <1>3
  <2>2. IsFiniteSet(1..k) /\ Cardinality(1..k) = k
    BY <1>1, FS_Interval
  <2> HIDE DEF U
  <2> QED
    BY <2>1, <2>2, FS_Subset
<1>5. k \in U /\ k + 1 \notin U
  <2> HIDE DEF U, k
  <2> QED
    BY <1>1, <1>2, <1>4
<1>6. k \in 1..n /\ \A i \in I : k <= i
  BY <1>1, <1>2, <1>5
<1> HIDE DEF k
<1>7. PICK i \in I : ~(k + 1 <= i)
  BY <1>5, <1>6
<1>8. i = k
  BY <1>6, <1>7
<1> QED
  BY <1>6, <1>8 DEF Min

\* Each entry once, one per module and one per fetch.
Cached(q) ==
    /\ q \in Seq(Entries) /\ W!Distinct(q)
    /\ \A d, e \in ToSet(q) : d.key = e.key \/ (d.holds = e.holds /\ d.holds # Stored) => d = e

LEMMA RemovesOne ==
  ASSUME NEW q, Cached(q), NEW I \in SUBSET DOMAIN q, I # {}
  PROVE  \E i \in I : /\ Cached(RemoveAt(q, Min(I)))
                      /\ ToSet(RemoveAt(q, Min(I))) = ToSet(q) \ {q[i]}
<1> DEFINE i == Min(I)
           r == RemoveAt(q, i)
<1>1. q \in Seq(Entries) /\ W!Distinct(q) /\ Len(q) \in Nat /\ DOMAIN q = 1..Len(q)
  BY DEF Cached
<1>2. i \in I
  BY <1>1, LeastIndex
<1> HIDE DEF i
<1>3. r \in Seq(Entries) /\ W!Distinct(r) /\ ToSet(r) = ToSet(q) \ {q[i]}
  <2>1. r = W!RemoveAt(q, i) /\ ToSet(q) = W!ToSet(q) /\ ToSet(r) = W!ToSet(r)
    BY DEF RemoveAt, W!RemoveAt, ToSet, W!ToSet
  <2> HIDE DEF r
  <2> QED
    BY <1>1, <1>2, <2>1, InstanceSound, W!Removed
<1> HIDE DEF r
<1>4. Cached(r)
  BY <1>3 DEF Cached
<1> QED
  BY <1>2, <1>3, <1>4 DEF i, r

LEMMA WithoutCached ==
  ASSUME NEW q, Cached(q), NEW k
  PROVE  LET r == RemoveFirstMatch(q, LAMBDA e : e.key = k)
         IN  Cached(r) /\ ToSet(r) = {e \in ToSet(q) : e.key # k}
<1> DEFINE I == {i \in 1..Len(q) : q[i].key = k}
           r == RemoveFirstMatch(q, LAMBDA e : e.key = k)
<1>1. DOMAIN q = 1..Len(q) /\ \A d, e \in ToSet(q) : d.key = e.key => d = e
  BY DEF Cached
<1>2. r = IF I # {} THEN RemoveAt(q, Min(I)) ELSE q
  BY DEF RemoveFirstMatch, SelectInSeq
<1>3. CASE I = {}
  BY <1>1, <1>2, <1>3 DEF ToSet
<1>4. CASE I # {}
  <2>1. r = RemoveAt(q, Min(I)) /\ I \in SUBSET DOMAIN q
    BY <1>1, <1>2, <1>4
  <2> HIDE DEF r
  <2>2. PICK i \in I : Cached(r) /\ ToSet(r) = ToSet(q) \ {q[i]}
    BY <1>4, <2>1, RemovesOne
  <2>3. q[i] \in ToSet(q) /\ q[i].key = k
    BY <1>1 DEF ToSet
  <2> QED
    BY <1>1, <2>2, <2>3 DEF r
<1> QED
  BY <1>3, <1>4

LEMMA DroppedCached ==
  ASSUME NEW q, Cached(q), NEW f, f # Stored
  PROVE  LET r == RemoveFirstMatch(q, LAMBDA e : e.holds = f)
         IN  Cached(r) /\ ToSet(r) = {e \in ToSet(q) : e.holds # f}
<1> DEFINE I == {i \in 1..Len(q) : q[i].holds = f}
           r == RemoveFirstMatch(q, LAMBDA e : e.holds = f)
<1>1. DOMAIN q = 1..Len(q) /\ \A d, e \in ToSet(q) : d.holds = f /\ e.holds = f => d = e
  BY DEF Cached
<1>2. r = IF I # {} THEN RemoveAt(q, Min(I)) ELSE q
  BY DEF RemoveFirstMatch, SelectInSeq
<1>3. CASE I = {}
  BY <1>1, <1>2, <1>3 DEF ToSet
<1>4. CASE I # {}
  <2>1. r = RemoveAt(q, Min(I)) /\ I \in SUBSET DOMAIN q
    BY <1>1, <1>2, <1>4
  <2> HIDE DEF r
  <2>2. PICK i \in I : Cached(r) /\ ToSet(r) = ToSet(q) \ {q[i]}
    BY <1>4, <2>1, RemovesOne
  <2>3. q[i] \in ToSet(q) /\ q[i].holds = f
    BY <1>1 DEF ToSet
  <2> QED
    BY <1>1, <2>2, <2>3 DEF r
<1> QED
  BY <1>3, <1>4

\* The eviction takes one stored entry.
LEMMA EvictedCached ==
  ASSUME NEW q, Cached(q), Settled(q) # {}
  PROVE  LET r == RemoveFirstMatch(q, LAMBDA e : e.holds = Stored)
         IN  Cached(r) /\ \E e \in Settled(q) : ToSet(r) = ToSet(q) \ {e}
<1> DEFINE I == {i \in 1..Len(q) : q[i].holds = Stored}
           r == RemoveFirstMatch(q, LAMBDA e : e.holds = Stored)
<1>1. DOMAIN q = 1..Len(q)
  BY DEF Cached
<1>2. I # {} /\ I \in SUBSET DOMAIN q
  BY <1>1 DEF Settled, ToSet
<1>3. r = RemoveAt(q, Min(I))
  BY <1>2 DEF RemoveFirstMatch, SelectInSeq
<1> HIDE DEF r
<1>4. PICK i \in I : Cached(r) /\ ToSet(r) = ToSet(q) \ {q[i]}
  BY <1>2, <1>3, RemovesOne
<1>5. q[i] \in Settled(q)
  BY <1>1 DEF Settled, ToSet
<1> QED
  BY <1>4, <1>5 DEF r

LEMMA AppendCached ==
  ASSUME NEW q, Cached(q), NEW e \in Entries,
         \A d \in ToSet(q) : d.key # e.key /\ (d.holds # e.holds \/ e.holds = Stored)
  PROVE  Cached(Append(q, e)) /\ ToSet(Append(q, e)) = ToSet(q) \cup {e}
<1> DEFINE r == Append(q, e)
<1>1. q \in Seq(Entries) /\ W!Distinct(q) /\ e \notin ToSet(q)
  BY DEF Cached
<1>2. r \in Seq(Entries) /\ W!Distinct(r) /\ ToSet(r) = ToSet(q) \cup {e}
  <2>1. ToSet(q) = W!ToSet(q) /\ ToSet(r) = W!ToSet(r)
    BY DEF ToSet, W!ToSet
  <2> HIDE DEF r
  <2>2. r = Append(q, e)
    BY DEF r
  <2> QED
    BY <1>1, <2>1, <2>2, InstanceSound, W!Appended
<1> HIDE DEF r
<1>3. Cached(r)
  BY <1>2 DEF Cached
<1> QED
  BY <1>2, <1>3 DEF r

\* A cache is finite, and its stored entries are counted.
LEMMA SettledFinite ==
  ASSUME NEW q, Cached(q)
  PROVE  IsFiniteSet(Settled(q)) /\ Cardinality(Settled(q)) \in Nat
<1> DEFINE f == [i \in 1..Len(q) |-> q[i]]
<1>1. Len(q) \in Nat /\ DOMAIN q = 1..Len(q)
  BY DEF Cached
<1>2. IsFiniteSet(1..Len(q))
  BY <1>1, FS_Interval
<1>3. f \in Surjection(1..Len(q), ToSet(q))
  BY <1>1 DEF Surjection, ToSet
<1>4. IsFiniteSet(ToSet(q))
  BY <1>2, <1>3, FS_Surjection
<1>5. Settled(q) \subseteq ToSet(q)
  BY DEF Settled
<1> QED
  BY <1>4, <1>5, FS_Subset, FS_CardinalityType

-----------------------------------------------------------------------------
(* The fetches.                                                            *)

Fetches ==
    /\ Cached(bytesCache)
    /\ fetch \in [Executes -> {"none", "loading", "settled", "aborted"}]
    /\ \A f \in Executes : fetch[f] = "loading" <=> IsCurrent(f)
    /\ \A f \in Executes : fetch[f] = "loading" =>
          \E c \in Executes : prep[c].fetch = f /\ prep[c].stage # "entered"
    /\ \A c \in Executes : prep[c].stage = "await" =>
          prep[c].fetch \in Executes /\ fetch[prep[c].fetch] = "loading"
    /\ \A c \in Executes : prep[c].stage = "none" => fetch[c] = "none" /\ prep[c].fetch = Stored
    /\ Cardinality(Settled(bytesCache)) <= MaxCached

\* Only the preparation of one call moves, and the cache and the fetches stay.
LEMMA SameFetches ==
  ASSUME Prepared, Fetches, UNCHANGED <<bytesCache, fetch>>, NEW c \in Executes,
         NEW stage \in Stages \ {"none", "await"}, prep' = [prep EXCEPT ![c].stage = stage],
         stage = "entered" => ~(prep[c].fetch \in Executes /\ fetch[prep[c].fetch] = "loading"
                                /\ ModuleWaiters(prep[c].fetch) = {c})
  PROVE  Fetches'
<1>1. \A d \in Executes : /\ prep'[d].stage = IF d = c THEN stage ELSE prep[d].stage
                          /\ prep'[d].fetch = prep[d].fetch
  BY DEF Prepared
<1>2. \A f \in Executes : IsCurrent(f)' <=> IsCurrent(f)
  BY DEF IsCurrent
<1>3. ASSUME NEW f \in Executes, fetch[f] = "loading"
      PROVE  \E d \in Executes : prep'[d].fetch = f /\ prep'[d].stage # "entered"
  <2>1. PICK d \in Executes : prep[d].fetch = f /\ prep[d].stage # "entered"
    BY <1>3 DEF Fetches
  <2>2. CASE d = c /\ stage = "entered"
    <3>1. c \in ModuleWaiters(f)
      BY <2>1, <2>2 DEF ModuleWaiters
    <3>2. PICK e \in ModuleWaiters(f) : e # c
      BY <1>3, <2>1, <2>2, <3>1
    <3> QED
      BY <1>1, <3>2 DEF ModuleWaiters
  <2>3. CASE ~(d = c /\ stage = "entered")
    BY <1>1, <2>1, <2>3
  <2> QED
    BY <2>2, <2>3
<1> QED
  BY <1>1, <1>2, <1>3 DEF Fetches

LEMMA RefuseFetches ==
  ASSUME Prepared, Fetches, NEW c \in Executes, Refuse(c)
  PROVE  Fetches'
<1>1. UNCHANGED <<bytesCache, fetch>> /\ prep' = [prep EXCEPT ![c].stage = "entered"]
  BY DEF Refuse, Settle
<1>2. prep[c].fetch \notin Executes
  BY DEF Refuse, Fetches
<1> QED
  BY <1>1, <1>2, SameFetches DEF Stages

\* A call that is prepared was not waited for before.
LEMMA PreparedFetches ==
  ASSUME Prepared, Fetches, NEW c \in Executes, prep[c].stage = "none",
         NEW f \in Executes, prep' = [prep EXCEPT ![c] = [stage |-> "await", fetch |-> f]],
         fetch'[f] = "loading",
         \A g \in Executes : g # f => fetch'[g] = fetch[g],
         fetch' \in [Executes -> {"none", "loading", "settled", "aborted"}],
         \A g \in Executes : fetch'[g] = "loading" <=> IsCurrent(g)',
         fetch[f] # "loading" => f = c,
         Cached(bytesCache'), Cardinality(Settled(bytesCache')) <= MaxCached
  PROVE  Fetches'
<1>1. \A d \in Executes : prep'[d] = IF d = c THEN [stage |-> "await", fetch |-> f] ELSE prep[d]
  BY DEF Prepared
<1>2. prep[c].fetch \notin Executes
  BY DEF Fetches
<1>3. ASSUME NEW g \in Executes, fetch'[g] = "loading"
      PROVE  \E d \in Executes : prep'[d].fetch = g /\ prep'[d].stage # "entered"
  <2>1. CASE g = f
    BY <1>1, <2>1
  <2>2. CASE g # f
    BY <1>1, <1>2, <1>3, <2>2 DEF Fetches
  <2> QED
    BY <2>1, <2>2
<1>4. ASSUME NEW d \in Executes, prep'[d].stage = "await"
      PROVE  prep'[d].fetch \in Executes /\ fetch'[prep'[d].fetch] = "loading"
  BY <1>1, <1>4 DEF Fetches
<1>5. ASSUME NEW d \in Executes, prep'[d].stage = "none"
      PROVE  fetch'[d] = "none" /\ prep'[d].fetch = Stored
  <2>1. d # c /\ prep[d].stage = "none" /\ prep'[d].fetch = prep[d].fetch
    BY <1>1, <1>5
  <2>2. d # f
    BY <2>1 DEF Fetches
  <2> QED
    BY <2>1, <2>2 DEF Fetches
<1> QED
  BY <1>3, <1>4, <1>5 DEF Fetches

LEMMA PrepareFetches ==
  ASSUME Prepared, Fetches, NEW c \in Executes, NEW k \in Modules, Prepare(c, k)
  PROVE  Fetches'
<1>1. /\ prep[c].stage = "none" /\ Cached(bytesCache) /\ bytesCache \in Seq(Entries)
      /\ fetch[c] = "none" /\ prep[c].fetch = Stored /\ Stored \notin Executes
  BY DEF Prepare, Fetches, Cached
<1>2. CASE k \in Keys /\ Entry(k).holds = Stored
  <2>1. /\ bytesCache' = Append(Without(k), Entry(k)) /\ UNCHANGED fetch
        /\ prep' = [prep EXCEPT ![c].stage = "loaded"]
    BY <1>2 DEF Prepare
  <2>2. Entry(k) \in ToSet(bytesCache) /\ Entry(k) \in Entries /\ Entry(k).key = k
    BY <1>1, <1>2, EntryKnown
  <2>3. Cached(Without(k)) /\ ToSet(Without(k)) = {e \in ToSet(bytesCache) : e.key # k}
    BY <1>1, WithoutCached DEF Without
  <2>4. Cached(bytesCache') /\ ToSet(bytesCache') = ToSet(Without(k)) \cup {Entry(k)}
    <3>1. \A d \in ToSet(Without(k)) : d.key # Entry(k).key
      BY <2>2, <2>3
    <3> QED
      BY <1>2, <2>1, <2>2, <2>3, <3>1, AppendCached
  <2>5. ToSet(bytesCache') = ToSet(bytesCache)
    BY <1>1, <2>2, <2>3, <2>4 DEF Cached
  <2>6. Settled(bytesCache') = Settled(bytesCache) /\ \A f : IsCurrent(f)' <=> IsCurrent(f)
    BY <2>5 DEF Settled, IsCurrent
  <2>7. \A d \in Executes : /\ prep'[d].stage = IF d = c THEN "loaded" ELSE prep[d].stage
                            /\ prep'[d].fetch = prep[d].fetch
    BY <2>1 DEF Prepared
  <2> QED
    BY <2>1, <2>4, <2>6, <2>7 DEF Fetches
<1>3. CASE k \in Keys /\ Entry(k).holds # Stored
  <2> DEFINE f == Entry(k).holds
  <2>1. /\ UNCHANGED <<bytesCache, fetch>>
        /\ prep' = [prep EXCEPT ![c] = [stage |-> "await", fetch |-> f]]
    BY <1>3 DEF Prepare
  <2>2. f \in Executes /\ IsCurrent(f)
    BY <1>1, <1>3, EntryKnown DEF Entries, IsCurrent
  <2> HIDE DEF f
  <2>3. fetch[f] = "loading" /\ \A g : IsCurrent(g)' <=> IsCurrent(g)
    BY <2>1, <2>2 DEF Fetches, IsCurrent
  <2> QED
    BY <1>1, <2>1, <2>2, <2>3, PreparedFetches DEF Fetches
<1>4. CASE k \notin Keys
  <2> DEFINE e == [key |-> k, holds |-> c]
  <2>1. /\ bytesCache' = Append(bytesCache, e) /\ fetch' = [fetch EXCEPT ![c] = "loading"]
        /\ prep' = [prep EXCEPT ![c] = [stage |-> "await", fetch |-> c]]
    BY <1>4 DEF Prepare
  <2>2. ~IsCurrent(c) /\ \A d \in ToSet(bytesCache) : d.key # k
    <3>1. ~IsCurrent(c)
      BY <1>1 DEF Fetches
    <3>2. \A d \in ToSet(bytesCache) : d.key # k
      BY <1>4 DEF Keys, ToSet
    <3> QED
      BY <3>1, <3>2
  <2>3. e \in Entries /\ e.key = k /\ e.holds = c
    BY DEF Entries
  <2> HIDE DEF e
  <2>4. Cached(bytesCache') /\ ToSet(bytesCache') = ToSet(bytesCache) \cup {e}
    BY <1>1, <2>1, <2>2, <2>3, AppendCached DEF IsCurrent
  <2>5. Settled(bytesCache') = Settled(bytesCache)
    BY <1>1, <2>3, <2>4 DEF Settled
  <2>6. \A g : IsCurrent(g)' <=> IsCurrent(g) \/ g = c
    BY <2>3, <2>4 DEF IsCurrent
  <2>7. /\ fetch' \in [Executes -> {"none", "loading", "settled", "aborted"}]
        /\ \A g \in Executes : fetch'[g] = IF g = c THEN "loading" ELSE fetch[g]
    BY <2>1 DEF Fetches
  <2>8. \A g \in Executes : fetch'[g] = "loading" <=> IsCurrent(g)'
    BY <2>6, <2>7 DEF Fetches
  <2>9. Cardinality(Settled(bytesCache')) <= MaxCached
    BY <2>5 DEF Fetches
  <2> QED
    BY <1>1, <2>1, <2>4, <2>7, <2>8, <2>9, PreparedFetches
<1> QED
  BY <1>2, <1>3, <1>4

\* The bytes take the place of the fetch, and the limit holds.
LEMMA PublishedCached ==
  ASSUME Fetches, NEW k \in Modules
  PROVE  /\ Cached(Published(k)) /\ Cardinality(Settled(Published(k))) <= MaxCached
         /\ \A f \in Executes : (\E e \in ToSet(Published(k)) : e.holds = f) <=>
                             (\E e \in ToSet(bytesCache) : e.holds = f /\ e.key # k)
<1> DEFINE w == Without(k)
           e == [key |-> k, holds |-> Stored]
           a == Append(w, e)
<1>1. Cached(bytesCache) /\ Cardinality(Settled(bytesCache)) <= MaxCached
      /\ MaxCached \in Nat /\ Stored \notin Executes
  BY DEF Fetches
<1>2. Cached(w) /\ ToSet(w) = {d \in ToSet(bytesCache) : d.key # k}
  BY <1>1, WithoutCached DEF Without
<1>3. /\ IsFiniteSet(Settled(w)) /\ Cardinality(Settled(w)) \in Nat
      /\ Cardinality(Settled(w)) <= MaxCached
  <2>1. Settled(w) \subseteq Settled(bytesCache)
    BY <1>2 DEF Settled
  <2> HIDE DEF w
  <2>2. /\ Cardinality(Settled(w)) <= Cardinality(Settled(bytesCache))
        /\ Cardinality(Settled(bytesCache)) \in Nat
        /\ Cardinality(Settled(w)) \in Nat /\ IsFiniteSet(Settled(w))
    BY <1>1, <1>2, <2>1, SettledFinite, FS_Subset
  <2> QED
    BY <1>1, <2>2
<1>4. e \in Entries /\ e.key = k /\ e.holds = Stored
  BY DEF Entries
<1> HIDE DEF w, e
<1>5. Cached(a) /\ ToSet(a) = ToSet(w) \cup {e}
  BY <1>2, <1>4, AppendCached
<1>6. e \in Settled(a) /\ Settled(a) = Settled(w) \cup {e} /\ e \notin Settled(w)
  BY <1>2, <1>4, <1>5 DEF Settled
<1>7. /\ IsFiniteSet(Settled(a)) /\ Cardinality(Settled(a)) = Cardinality(Settled(w)) + 1
  BY <1>3, <1>6, FS_AddElement
<1> HIDE DEF a
<1>8. Published(k) = IF MaxCached = 0 THEN w
                     ELSE IF Cardinality(Settled(a)) > MaxCached
                     THEN RemoveFirstMatch(a, LAMBDA d : d.holds = Stored) ELSE a
  BY DEF Published, a, w, e
<1>9. CASE MaxCached = 0
  BY <1>2, <1>3, <1>8, <1>9
<1>10. CASE MaxCached # 0 /\ Cardinality(Settled(a)) > MaxCached
  <2> DEFINE r == RemoveFirstMatch(a, LAMBDA d : d.holds = Stored)
  <2>1. Cached(r) /\ \E d \in Settled(a) : ToSet(r) = ToSet(a) \ {d}
    BY <1>5, <1>6, EvictedCached
  <2>2. Published(k) = r
    BY <1>8, <1>10
  <2> HIDE DEF r
  <2>3. PICK d \in Settled(a) : ToSet(r) = ToSet(a) \ {d}
    BY <2>1
  <2>4. Settled(r) = Settled(a) \ {d} /\ d.holds = Stored
    BY <2>3 DEF Settled
  <2>5. Cardinality(Settled(r)) = Cardinality(Settled(w))
    <3>1. Cardinality(Settled(a) \ {d}) = Cardinality(Settled(a)) - 1
      BY <1>7, <2>3, FS_RemoveElement
    <3> QED
      BY <1>3, <1>7, <2>4, <3>1
  <2>6. \A f \in Executes : (\E x \in ToSet(r) : x.holds = f) <=>
                         (\E x \in ToSet(bytesCache) : x.holds = f /\ x.key # k)
    BY <1>1, <1>2, <1>4, <1>5, <2>3, <2>4
  <2> QED
    BY <1>3, <2>1, <2>2, <2>5, <2>6
<1>11. CASE MaxCached # 0 /\ ~(Cardinality(Settled(a)) > MaxCached)
  <2>1. Published(k) = a /\ Cardinality(Settled(a)) <= MaxCached
    BY <1>1, <1>3, <1>7, <1>8, <1>11
  <2>2. \A f \in Executes : (\E x \in ToSet(a) : x.holds = f) <=>
                         (\E x \in ToSet(bytesCache) : x.holds = f /\ x.key # k)
    BY <1>1, <1>2, <1>4, <1>5
  <2> QED
    BY <1>5, <2>1, <2>2
<1> QED
  BY <1>9, <1>10, <1>11

LEMMA FetchSettlesFetches ==
  ASSUME Prepared, Fetches, NEW f \in Executes, NEW ok \in BOOLEAN, FetchSettles(f, ok)
  PROVE  Fetches'
<1>1. /\ fetch[f] = "loading" /\ fetch' = [fetch EXCEPT ![f] = "settled"]
      /\ prep' = [c \in Executes |->
                  IF prep[c].fetch = f /\ prep[c].stage = "await"
                  THEN [prep[c] EXCEPT !.stage = IF ok THEN "loaded" ELSE "failed"] ELSE prep[c]]
  BY DEF FetchSettles
<1>2. PICK k \in Keys : Entry(k).holds = f /\ bytesCache' = IF ok THEN Published(k) ELSE Without(k)
  BY DEF FetchSettles
<1>3. Cached(bytesCache) /\ bytesCache \in Seq(Entries)
  BY DEF Fetches, Cached
<1>4. Entry(k) \in ToSet(bytesCache) /\ Entry(k).key = k /\ k \in Modules
  BY <1>3, EntryKnown DEF Entries
<1>5. /\ Cached(bytesCache') /\ Cardinality(Settled(bytesCache')) <= MaxCached
      /\ \A g \in Executes : IsCurrent(g)' <=> \E e \in ToSet(bytesCache) : e.holds = g /\ e.key # k
  <2>1. CASE ok
    BY <1>2, <1>4, <2>1, PublishedCached DEF IsCurrent
  <2>2. CASE ~ok
    <3> DEFINE w == Without(k)
    <3>1. Cached(w) /\ ToSet(w) = {e \in ToSet(bytesCache) : e.key # k}
      BY <1>3, WithoutCached DEF Without
    <3> HIDE DEF w
    <3>2. bytesCache' = w
      BY <1>2, <2>2 DEF w
    <3>3. Settled(w) \subseteq Settled(bytesCache)
      BY <3>1 DEF Settled
    <3>4. Cardinality(Settled(w)) <= Cardinality(Settled(bytesCache))
      BY <1>3, <3>3, SettledFinite, FS_Subset
    <3>5. /\ Cardinality(Settled(w)) \in Nat /\ Cardinality(Settled(bytesCache)) \in Nat
          /\ Cardinality(Settled(bytesCache)) <= MaxCached /\ MaxCached \in Nat
      BY <1>3, <3>1, SettledFinite DEF Fetches
    <3>6. Cardinality(Settled(w)) <= MaxCached
      BY <3>4, <3>5
    <3>7. \A g : IsCurrent(g)' <=> \E e \in ToSet(bytesCache) : e.holds = g /\ e.key # k
      BY <3>1, <3>2 DEF IsCurrent
    <3> QED
      BY <3>1, <3>2, <3>6, <3>7
  <2> QED
    BY <2>1, <2>2
<1>6. \A g \in Executes : IsCurrent(g)' <=> IsCurrent(g) /\ g # f
  <2>1. \A e \in ToSet(bytesCache) : e.key = k <=> e = Entry(k)
    BY <1>3, <1>4 DEF Cached
  <2>2. f # Stored /\ \A e \in ToSet(bytesCache) : e.holds = f <=> e = Entry(k)
    BY <1>2, <1>3, <1>4 DEF Cached
  <2> QED
    BY <1>5, <2>1, <2>2 DEF IsCurrent
<1>7. /\ fetch' \in [Executes -> {"none", "loading", "settled", "aborted"}]
      /\ \A g \in Executes : fetch'[g] = IF g = f THEN "settled" ELSE fetch[g]
  BY <1>1 DEF Fetches
<1>8. \A c \in Executes :
         /\ prep'[c].fetch = prep[c].fetch
         /\ prep'[c].stage = IF prep[c].fetch = f /\ prep[c].stage = "await"
                             THEN IF ok THEN "loaded" ELSE "failed" ELSE prep[c].stage
  BY <1>1 DEF Prepared
<1>9. ASSUME NEW g \in Executes, fetch'[g] = "loading"
      PROVE  \E c \in Executes : prep'[c].fetch = g /\ prep'[c].stage # "entered"
  BY <1>7, <1>8, <1>9 DEF Fetches
<1>10. ASSUME NEW c \in Executes, prep'[c].stage = "await"
       PROVE  prep'[c].fetch \in Executes /\ fetch'[prep'[c].fetch] = "loading"
  BY <1>7, <1>8, <1>10 DEF Fetches
<1>11. ASSUME NEW c \in Executes, prep'[c].stage = "none"
       PROVE  fetch'[c] = "none" /\ prep'[c].fetch = Stored
  BY <1>1, <1>7, <1>8, <1>11 DEF Fetches
<1> QED
  BY <1>5, <1>6, <1>7, <1>9, <1>10, <1>11 DEF Fetches

\* A fetch is dropped from the cache when it is aborted.
LEMMA DroppedFetches ==
  ASSUME Fetches, NEW f \in Executes, fetch[f] = "loading",
         bytesCache' = RemoveFirstMatch(bytesCache, LAMBDA e : e.holds = f),
         fetch' = [fetch EXCEPT ![f] = "aborted"]
  PROVE  /\ Cached(bytesCache') /\ Cardinality(Settled(bytesCache')) <= MaxCached
         /\ fetch' \in [Executes -> {"none", "loading", "settled", "aborted"}]
         /\ \A g \in Executes : fetch'[g] = IF g = f THEN "aborted" ELSE fetch[g]
         /\ \A g \in Executes : IsCurrent(g)' <=> IsCurrent(g) /\ g # f
<1> DEFINE r == RemoveFirstMatch(bytesCache, LAMBDA e : e.holds = f)
<1>1. Cached(bytesCache) /\ f # Stored
  BY DEF Fetches
<1>2. Cached(r) /\ ToSet(r) = {e \in ToSet(bytesCache) : e.holds # f}
  BY <1>1, DroppedCached
<1>3. bytesCache' = r
  OBVIOUS
<1> HIDE DEF r
<1>4. Settled(r) = Settled(bytesCache)
  BY <1>1, <1>2 DEF Settled
<1>5. \A g : IsCurrent(g)' <=> IsCurrent(g) /\ g # f
  BY <1>2, <1>3 DEF IsCurrent
<1> QED
  BY <1>2, <1>3, <1>4, <1>5 DEF Fetches

LEMMA ResumeFetches ==
  ASSUME Prepared, Fetches, NEW c \in Executes, MoonBitResume(c)
  PROVE  Fetches'
<1> DEFINE f == prep[c].fetch
<1>1. /\ prep[c].stage \in {"loaded", "failed", "cancelled"} /\ Leave(c)
      /\ prep' = [prep EXCEPT ![c].stage = "entered"]
  BY DEF MoonBitResume, Settle
<1>2. f \in Executes \cup {Stored} /\ Stored \notin Executes
  BY DEF Prepared
<1>3. CASE f # Stored /\ ModuleWaiters(f) = {c} /\ IsCurrent(f)
  <2>1. f \in Executes /\ fetch[f] = "loading"
    BY <1>2, <1>3 DEF Fetches
  <2>2. /\ bytesCache' = RemoveFirstMatch(bytesCache, LAMBDA e : e.holds = f)
        /\ fetch' = [fetch EXCEPT ![f] = "aborted"]
    BY <1>1, <1>3 DEF Leave
  <2>3. \A d \in Executes : /\ prep'[d].stage = IF d = c THEN "entered" ELSE prep[d].stage
                            /\ prep'[d].fetch = prep[d].fetch
    BY <1>1 DEF Prepared
  <2>4. \A d \in Executes : d # c /\ prep[d].fetch = f => prep[d].stage = "entered"
    BY <1>3 DEF ModuleWaiters
  <2> HIDE DEF f
  <2>5. /\ Cached(bytesCache') /\ Cardinality(Settled(bytesCache')) <= MaxCached
        /\ fetch' \in [Executes -> {"none", "loading", "settled", "aborted"}]
        /\ \A g \in Executes : fetch'[g] = IF g = f THEN "aborted" ELSE fetch[g]
        /\ \A g \in Executes : IsCurrent(g)' <=> IsCurrent(g) /\ g # f
    BY <2>1, <2>2, DroppedFetches
  <2>6. ASSUME NEW g \in Executes, fetch'[g] = "loading"
        PROVE  \E d \in Executes : prep'[d].fetch = g /\ prep'[d].stage # "entered"
    <3>1. g # f /\ fetch[g] = "loading"
      BY <2>5, <2>6
    <3>2. PICK d \in Executes : prep[d].fetch = g /\ prep[d].stage # "entered"
      BY <3>1 DEF Fetches
    <3>3. d # c
      BY <3>1, <3>2 DEF f
    <3> QED
      BY <2>3, <3>2, <3>3
  <2>7. ASSUME NEW d \in Executes, prep'[d].stage = "await"
        PROVE  prep'[d].fetch \in Executes /\ fetch'[prep'[d].fetch] = "loading"
    <3>1. d # c /\ prep[d].stage = "await" /\ prep[d].fetch # f
      BY <2>3, <2>4, <2>7
    <3> QED
      BY <2>3, <2>5, <3>1 DEF Fetches
  <2>8. ASSUME NEW d \in Executes, prep'[d].stage = "none"
        PROVE  fetch'[d] = "none" /\ prep'[d].fetch = Stored
    BY <2>1, <2>3, <2>5, <2>8 DEF Fetches
  <2> QED
    BY <2>5, <2>6, <2>7, <2>8 DEF Fetches
<1>4. CASE ~(f # Stored /\ ModuleWaiters(f) = {c} /\ IsCurrent(f))
  <2>1. UNCHANGED <<bytesCache, fetch>>
    BY <1>1, <1>4 DEF Leave
  <2>2. ~(f \in Executes /\ fetch[f] = "loading" /\ ModuleWaiters(f) = {c})
    BY <1>2, <1>4 DEF Fetches
  <2> QED
    BY <1>1, <2>1, <2>2, SameFetches DEF Stages
<1> QED
  BY <1>3, <1>4

LEMMA AbortFetches ==
  ASSUME Prepared, Fetches, NEW c \in Executes, MoonBitAbort(c)
  PROVE  Fetches'
<1>1. UNCHANGED <<bytesCache, fetch>>
  BY DEF MoonBitAbort
<1>2. CASE prep[c].stage = "await"
  BY <1>1, <1>2, SameFetches DEF MoonBitAbort, Stages
<1>3. CASE prep[c].stage # "await"
  <2>1. prep' = prep
    BY <1>3 DEF MoonBitAbort
  <2> QED
    BY <1>1, <2>1 DEF Fetches, IsCurrent
<1> QED
  BY <1>2, <1>3

LEMMA EmptyCache == Cached(<<>>) /\ ToSet(<<>>) = {} /\ Cardinality(Settled(<<>>)) = 0
<1> DEFINE none == <<>>
<1>1. none \in Seq(Entries) /\ DOMAIN none = {}
  OBVIOUS
<1> HIDE DEF none
<1>2. Cached(none) /\ ToSet(none) = {}
  BY <1>1 DEF Cached, ToSet, W!Distinct
<1>3. Settled(none) = {}
  BY <1>2 DEF Settled
<1> QED
  BY <1>2, <1>3, FS_EmptySet DEF none

LEMMA DisposeFetches ==
  ASSUME Prepared, Fetches, MoonBitDispose
  PROVE  Fetches'
<1>1. /\ bytesCache' = <<>>
      /\ fetch' = [f \in Executes |-> IF IsCurrent(f) THEN "aborted" ELSE fetch[f]]
      /\ prep' = [c \in Executes |-> IF prep[c].stage = "await"
                                  THEN [prep[c] EXCEPT !.stage = "failed"] ELSE prep[c]]
  BY DEF MoonBitDispose
<1>2. \A c \in Executes :
         /\ prep'[c].fetch = prep[c].fetch
         /\ prep'[c].stage = IF prep[c].stage = "await" THEN "failed" ELSE prep[c].stage
  BY <1>1 DEF Prepared
<1>3. Cached(bytesCache') /\ Cardinality(Settled(bytesCache')) = 0 /\ \A f : ~IsCurrent(f)'
  BY <1>1, EmptyCache DEF IsCurrent
<1>4. /\ fetch' \in [Executes -> {"none", "loading", "settled", "aborted"}]
      /\ \A f \in Executes : fetch'[f] # "loading"
  BY <1>1 DEF Fetches
<1>5. ASSUME NEW c \in Executes, prep'[c].stage = "none"
      PROVE  fetch'[c] = "none" /\ prep'[c].fetch = Stored
  BY <1>1, <1>2, <1>5 DEF Fetches
<1>6. Cardinality(Settled(bytesCache')) <= MaxCached
  BY <1>3
<1> QED
  BY <1>2, <1>3, <1>4, <1>5, <1>6 DEF Fetches

-----------------------------------------------------------------------------
(* Disposal.                                                               *)

\* A disposed executor caches nothing.
Emptied == exec.status = "disposed" => bytesCache = <<>>

\* Once disposed nothing enters the cache again, also when a fetch ends late.
LEMMA StaysEmpty ==
  ASSUME bytesCache = <<>>, exec.status = "disposed",
         \/ \E c \in Executes, k \in Modules : Prepare(c, k)
         \/ \E c \in Executes : Refuse(c) \/ MoonBitResume(c) \/ MoonBitAbort(c)
         \/ \E f \in Executes, ok \in BOOLEAN : FetchSettles(f, ok)
         \/ UNCHANGED bytesCache
  PROVE  bytesCache' = <<>>
<1>1. Keys = {} /\ \A f : ~IsCurrent(f)
  BY EmptyCache DEF Keys, IsCurrent
<1>2. \A c \in Executes, k \in Modules : ~Prepare(c, k)
  BY DEF Prepare
<1>3. \A f \in Executes, ok \in BOOLEAN : ~FetchSettles(f, ok)
  BY <1>1 DEF FetchSettles
<1>4. \A c \in Executes : MoonBitResume(c) => UNCHANGED bytesCache
  BY <1>1 DEF MoonBitResume, Leave
<1> QED
  BY <1>2, <1>3, <1>4 DEF Refuse, MoonBitAbort

-----------------------------------------------------------------------------
(* Every step.                                                             *)

\* The inductive invariant: that of the executor, and what ties each call to its preparation, the
\* preparations to the fetches and the fetches to the cache.
IInv == W!IInv /\ Prepared /\ Fetches /\ Emptied

LEMMA InitSound ==
  ASSUME MoonBitInit
  PROVE  IInv /\ Contract!Init
<1>1. W!Init
  BY DEF MoonBitInit, S!Init, W!Init
<1>2. W!IInv
  BY <1>1, InstanceSound, W!InitSound
<1>3. /\ bytesCache = <<>> /\ fetch = [c \in Executes |-> "none"]
      /\ prep = [c \in Executes |-> NoFetch]
      /\ exec.outcome = [c \in Executes |-> "idle"] /\ exec.status = "empty" /\ aborted = {}
  BY <1>1 DEF MoonBitInit, W!Init
<1>4. Prepared
  BY <1>3 DEF Prepared, NoFetch, Stages
<1>5. Cached(bytesCache) /\ Cardinality(Settled(bytesCache)) <= MaxCached /\ \A f : ~IsCurrent(f)
  BY <1>3, EmptyCache DEF IsCurrent
<1>6. Fetches
  BY <1>3, <1>5 DEF Fetches, NoFetch
<1>7. Contract!Init
  BY <1>3 DEF Contract!Init, Promise, NoFetch
<1> QED
  BY <1>2, <1>3, <1>4, <1>6, <1>7 DEF IInv, Emptied

LEMMA NextSound ==
  ASSUME IInv, [MoonBitNext]_moonBitVars
  PROVE  IInv' /\ Obeys
<1> USE DEF IInv
<1>1. CASE MoonBitDispose
  <2>1. W!IInv' /\ Prepared' /\ Obeys /\ Fetches'
    BY <1>1, DisposeStep, DisposeFetches
  <2>2. bytesCache' = <<>>
    BY <1>1 DEF MoonBitDispose
  <2> QED
    BY <2>1, <2>2 DEF Emptied
<1>2. CASE ~MoonBitDispose
  <2>1. Kept /\ Fetches'
    <3>1. ASSUME NEW c \in Executes, NEW k \in Modules, Prepare(c, k) PROVE Kept /\ Fetches'
      <4>1. bytesCache \in Seq(Entries)
        BY DEF Fetches, Cached
      <4> QED
        BY <3>1, <4>1, PrepareStep, PrepareFetches
    <3>2. ASSUME NEW c \in Executes, Refuse(c) PROVE Kept /\ Fetches'
      BY <3>2, RefuseStep, RefuseFetches
    <3>3. ASSUME NEW c \in Executes, MoonBitResume(c) PROVE Kept /\ Fetches'
      BY <3>3, ResumeStep, ResumeFetches
    <3>4. ASSUME NEW c \in Executes, MoonBitAbort(c) PROVE Kept /\ Fetches'
      BY <3>4, AbortStep, AbortFetches
    <3>5. ASSUME NEW f \in Executes, NEW ok \in BOOLEAN, FetchSettles(f, ok) PROVE Kept /\ Fetches'
      BY <3>5, FetchSettlesStep, FetchSettlesFetches
    <3>6. UNCHANGED <<bytesCache, fetch, prep>> => Fetches'
      BY DEF Fetches, IsCurrent
    <3>7. CASE Executor /\ UNCHANGED <<bytesCache, fetch, prep>>
      BY <3>6, <3>7, ExecutorStep
    <3>8. CASE UNCHANGED moonBitVars
      <4>1. UNCHANGED <<exec, aborted>> /\ UNCHANGED <<bytesCache, fetch, prep>>
        BY <3>8 DEF moonBitVars
      <4>2. Prepared' /\ SameView
        BY <4>1 DEF Prepared, SameView
      <4> QED
        BY <3>6, <4>1, <4>2, StillStep
    <3> QED
      BY <1>2, <3>1, <3>2, <3>3, <3>4, <3>5, <3>7, <3>8 DEF MoonBitNext
  <2>2. Emptied'
    <3>1. CASE exec.status = "disposed"
      <4>1. bytesCache' = <<>>
        BY <1>2, <3>1, StaysEmpty DEF Emptied, MoonBitNext, moonBitVars
      <4> QED
        BY <4>1 DEF Emptied
    <3>2. CASE exec.status # "disposed"
      BY <2>1, <3>2 DEF Kept, W!Stands, Emptied
    <3> QED
      BY <3>1, <3>2
  <2> QED
    BY <2>1, <2>2 DEF Kept
<1> QED
  BY <1>1, <1>2

LEMMA IInvIsEnough ==
  ASSUME IInv
  PROVE  CacheSound
<1>1. MoonBitTypeOK
  <2>1. S!TypeOK
    BY DEF IInv, W!IInv, W!Sound, W!Executors, S!TypeOK, S!Executors, W!Statuses, S!Statuses,
           W!Runs, S!Runs, W!Waiters, S!Waiters, W!Drainer, S!Drainer, W!Owner, S!Owner,
           W!Requests, S!Requests, W!Kinds, S!Kinds
  <2> QED
    BY <2>1 DEF IInv, Prepared, Fetches, Cached, Entries, MoonBitTypeOK
<1>2. \A i, j \in DOMAIN bytesCache : bytesCache[i].key = bytesCache[j].key => i = j
  <2>1. \A i \in DOMAIN bytesCache : bytesCache[i] \in ToSet(bytesCache)
    BY DEF ToSet
  <2> QED
    BY <2>1 DEF IInv, Fetches, Cached, W!Distinct
<1>3. \A f \in Executes : (fetch[f] = "loading") = IsCurrent(f)
  BY DEF IInv, Fetches, IsCurrent
<1>4. \A f \in Executes : fetch[f] = "loading" => ModuleWaiters(f) # {}
  BY DEF IInv, Fetches, ModuleWaiters
<1>5. \A c \in Executes : prep[c].stage = "await" => fetch[prep[c].fetch] = "loading"
  BY DEF IInv, Fetches
<1>6. CacheBounded
  BY DEF IInv, Fetches, Emptied, CacheBounded
<1> QED
  BY <1>1, <1>2, <1>3, <1>4, <1>5, <1>6 DEF CacheSound, FetchesAreShared

-----------------------------------------------------------------------------

\* Executor, preparations, fetches and cache stay consistent (moonbit-worker-sandbox.ts).
THEOREM Invariance == MoonBitSpec => []IInv
<1>1. MoonBitInit => IInv
  BY InitSound
<1>2. IInv /\ [MoonBitNext]_moonBitVars => IInv'
  BY NextSound
<1> QED
  BY <1>1, <1>2, PTL DEF MoonBitSpec

\* prepare(), publishBytes and dispose() share fetches and bound the cache as they should: a module
\* under way is fetched once and for somebody, and nothing is kept beyond the bound or disposal.
THEOREM CacheIsSound == MoonBitSpec => []CacheSound
<1>1. IInv => CacheSound
  BY IInvIsEnough
<1> QED
  BY <1>1, Invariance, PTL

\* execute() keeps the contract of SandboxExecutor with its callers, fetching included: a call
\* settles at most once, and nothing is committed for it after its signal fired.
THEOREM ImplementsExecutionContract == MoonBitSpec => ImplementsContract
<1>1. MoonBitInit => Contract!Init
  BY InitSound
<1>2. IInv /\ [MoonBitNext]_moonBitVars => [Contract!Next]_(Contract!vars)
  BY NextSound DEF Obeys
<1> QED
  BY <1>1, <1>2, Invariance, PTL DEF MoonBitSpec, ImplementsContract, Contract!Spec

=============================================================================
