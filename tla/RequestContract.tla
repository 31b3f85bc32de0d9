--------------------------- MODULE RequestContract ---------------------------
(***************************************************************************)
(* What the durable coordinator promises to whoever submits, watches and   *)
(* cancels requests (DurableSubmission, getStatus, CancellationAck): a     *)
(* request has one outcome, a result comes with completion and only then,  *)
(* and a cancellation that was recorded has won.  Coordinators, workers,   *)
(* leases, checkpoints and retries are invisible here.                     *)
(***************************************************************************)
CONSTANTS
  Requests,  \* request identifiers
  Results    \* what a result may be; 0 stands for no result

VARIABLES
  status,       \* "unknown", "pending", "completed", "failed" or "cancelled"
  result,       \* the committed result
  cancellation  \* "none", "requested" or "acknowledged"

vars == <<status, result, cancellation>>

Init ==
  /\ status = [r \in Requests |-> "unknown"]
  /\ result = [r \in Requests |-> 0]
  /\ cancellation = [r \in Requests |-> "none"]

\* A submission is accepted; it may fail at once for want of a worker.
Accept(r) ==
  /\ status[r] = "unknown"
  /\ \E s \in {"pending", "failed"} : status' = [status EXCEPT ![r] = s]
  /\ UNCHANGED <<result, cancellation>>

\* The result of the final segment is committed.
Complete(r) ==
  /\ status[r] = "pending"
  /\ status' = [status EXCEPT ![r] = "completed"]
  /\ \E a \in Results : result' = [result EXCEPT ![r] = a]
  /\ UNCHANGED cancellation

\* The request fails, or its submitter aborts it.
GiveUp(r) ==
  /\ status[r] = "pending"
  /\ \E s \in {"failed", "cancelled"} : status' = [status EXCEPT ![r] = s]
  /\ UNCHANGED <<result, cancellation>>

\* A cancellation is recorded, acknowledged at once if nobody is at work.
RequestCancellation(r) ==
  /\ status[r] \in {"pending", "cancelled"}
  /\ cancellation[r] = "none"
  /\ status' = [status EXCEPT ![r] = "cancelled"]
  /\ \E ack \in {"requested", "acknowledged"} :
       cancellation' = [cancellation EXCEPT ![r] = ack]
  /\ UNCHANGED result

\* The owning run has finished.
Acknowledge(r) ==
  /\ cancellation[r] = "requested"
  /\ cancellation' = [cancellation EXCEPT ![r] = "acknowledged"]
  /\ UNCHANGED <<status, result>>

Next ==
  \E r \in Requests :
    Accept(r) \/ Complete(r) \/ GiveUp(r) \/ RequestCancellation(r) \/ Acknowledge(r)

Spec == Init /\ [][Next]_vars
=============================================================================
