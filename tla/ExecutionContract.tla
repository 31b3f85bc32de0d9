-------------------------- MODULE ExecutionContract --------------------------
(***************************************************************************)
(* What an executor of the client library promises the callers of execute() *)
(* (core/packages/client/src/sandbox-executor.ts): every call settles at    *)
(* most once, and once its AbortSignal has fired no work is committed for   *)
(* it, whatever the worker answers.                                         *)
(***************************************************************************)
CONSTANTS
    Calls,
    Commits,        \* outcomes that report what the function did
    Failures        \* outcomes that report that it was not carried out

VARIABLES
    promise,        \* the outcome of each call
    aborted         \* calls whose signal has fired

vars == <<promise, aborted>>

Init ==
    /\ promise = [c \in Calls |-> "idle"]
    /\ aborted = {}

\* One step of the executor may take up a call and settle others (a freed slot starts the next).
Step ==
    /\ promise' \in [Calls -> {"idle", "pending"} \cup Commits \cup Failures]
    /\ \A c \in Calls :
          promise'[c] # promise[c] =>
             /\ promise[c] \in {"idle", "pending"}
             /\ promise'[c] # "idle"
             /\ promise'[c] \in Commits => c \notin aborted
    /\ UNCHANGED aborted

\* The signal fires; its listeners run in the same step and commit nothing for that call.
Abort(c) ==
    /\ aborted' = aborted \cup {c}
    /\ promise' \in [Calls -> {"idle", "pending"} \cup Commits \cup Failures]
    /\ \A d \in Calls :
          promise'[d] # promise[d] => promise[d] = "pending" /\ promise'[d] \in Failures

Next == Step \/ \E c \in Calls : Abort(c)

Spec == Init /\ [][Next]_vars
=============================================================================
