---------------------------- MODULE QuickJsSystem ----------------------------
(***************************************************************************)
(* The browser executor composed with the worker it starts: the real one    *)
(* (core/packages/client/src/worker/quickjs-worker.ts), or one behind a     *)
(* createWorker option, which may answer anything.  Messages of one worker  *)
(* are delivered in order, and the real worker handles them one at a time:  *)
(* the evaluation of a function does not yield, so a cancel is looked at    *)
(* only after the result it was meant to prevent.  Terminating a worker     *)
(* loses what it was doing and what it had answered.                        *)
(***************************************************************************)
EXTENDS WebWorkerSandbox

ASSUME NoMessageAssumption == NoRun \notin Requests

VARIABLES
    genuine,        \* the executor runs the worker of the package
    busy,           \* the message the worker handles, or NoRun
    replies         \* its answers on their way to the page

systemVars == <<exec, aborted, genuine, busy, replies>>

SystemInit == Init /\ genuine \in BOOLEAN /\ busy = NoRun /\ replies = <<>>

\* What a step of the page means to the worker: nothing, or its end and perhaps a new one.
Page(A) ==
    /\ A
    /\ UNCHANGED genuine
    /\ IF exec'.generation = exec.generation /\ exec'.worker = exec.worker
       THEN UNCHANGED <<busy, replies>>
       ELSE busy' = NoRun /\ replies' = <<>>

\* onmessage takes the next message up once the one before is done.
WorkerReceives ==
    /\ genuine
    /\ exec.worker # 0
    /\ busy = NoRun
    /\ exec.outbox # <<>>
    /\ busy' = Head(exec.outbox)
    /\ exec' = [exec EXCEPT !.outbox = Tail(@)]
    /\ UNCHANGED <<aborted, genuine, replies>>

Reply(m) ==
    /\ replies' = Append(replies, m)
    /\ busy' = NoRun
    /\ UNCHANGED <<exec, aborted, genuine>>

\* handleInit: the engine loads or it does not.
HandleInit ==
    /\ busy # NoRun
    /\ busy.type = "init"
    /\ \E ok \in BOOLEAN : Reply([type |-> "init-result", ok |-> ok])

\* handleExecute: the function returns or throws, its time runs out (the interrupt handler stops
\* it), or the context cannot be prepared.
HandleExecute ==
    /\ busy # NoRun
    /\ busy.type = "execute"
    /\ \E kind \in Kinds \ {"cancelled"} :
          Reply([type |-> "execute-result", call |-> busy.call, kind |-> kind])

\* handleCancel: activeRequestId is null again when the worker looks at the message.
HandleCancel ==
    /\ busy # NoRun
    /\ busy.type = "cancel"
    /\ busy' = NoRun
    /\ UNCHANGED <<exec, aborted, genuine, replies>>

\* The browser reports that the worker died; the error overtakes its answers.
Crash ==
    /\ exec.worker # 0
    /\ Page(OnMessage([type |-> "error"]))

\* The page receives the next answer.
Deliver ==
    /\ replies # <<>>
    /\ OnMessage(Head(replies))
    /\ UNCHANGED genuine
    /\ IF exec'.generation = exec.generation /\ exec'.worker = exec.worker
       THEN replies' = Tail(replies) /\ UNCHANGED busy
       ELSE busy' = NoRun /\ replies' = <<>>

WorkerStep == WorkerReceives \/ HandleInit \/ HandleExecute \/ HandleCancel

\* A worker of another make may send anything at any time.
ForeignWorker == ~genuine /\ Page(\E m \in Responses : OnMessage(m))

SystemNext ==
    \/ Page(\E c \in Calls : Execute(c) \/ Abort(c))
    \/ Page(Dispose)
    \/ Page(Continuations)
    \/ Page(Timers)
    \/ Crash
    \/ Deliver
    \/ WorkerStep
    \/ ForeignWorker

SystemSpec == SystemInit /\ [][SystemNext]_systemVars

\* Timers fire and continuations run; nothing is assumed of the worker.
SystemFairness ==
    /\ WF_systemVars(Page(Continuations))
    /\ WF_systemVars(Page(InitTimeout))
    /\ WF_systemVars(Page(HardTimeout))
    /\ WF_systemVars(Page(CancelAckTimeout))

FairSystemSpec == SystemSpec /\ SystemFairness

-----------------------------------------------------------------------------
(* Properties.                                                             *)

\* Every record has its type, and a foreign worker leaves no trace in the real one's state.
SystemTypeOK ==
    /\ TypeOK
    /\ genuine \in BOOLEAN
    /\ busy \in Requests \cup {NoRun}
    /\ replies \in Seq(Responses)
    /\ ~genuine => busy = NoRun /\ replies = <<>>

ExecuteOf(c) == [type |-> "execute", call |-> c]

\* Where the worker's share of the call c is: in the outbox, in the worker, or in an answer.
SharesOf(c) ==
    {<<"sent", i>> : i \in {i \in DOMAIN exec.outbox : exec.outbox[i] = ExecuteOf(c)}}
    \cup (IF busy = ExecuteOf(c) THEN {<<"busy", 0>>} ELSE {})
    \cup {<<"answered", i>> : i \in {i \in DOMAIN replies :
                replies[i].type = "execute-result" /\ replies[i].call = c}}

\* The worker works for the running slot and for nothing else: the request posted to it is under
\* way exactly once, and no work of a request that has left the slot survives.  Hence an answer
\* for another request, which handleExecuteResult treats as a broken worker, never comes from it.
WorkerServesSlot ==
    /\ SystemTypeOK
    /\ genuine =>
        \A c \in Calls :
            Cardinality(SharesOf(c)) =
                (IF exec.running # NoRun /\ exec.running.posted /\ exec.running.call = c
                 THEN 1 ELSE 0)

\* A cancelled function is stopped by its own end or by the end of its worker, never by an
\* acknowledged cancel: the slot is not handed over while the function may still run.
CancelStopsWorker ==
    [][(genuine /\ exec.running # NoRun /\ exec.running.cancelling
          /\ exec'.running # exec.running)
         => exec'.worker # exec.worker
            \/ (replies # <<>> /\ Head(replies).type = "execute-result"
                  /\ Head(replies).call = exec.running.call)]_systemVars
=============================================================================
