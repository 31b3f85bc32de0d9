------------------------- MODULE DurableRecoveryPlan -------------------------
(***************************************************************************)
(* What a coordinator that did not start a request decides to do with it   *)
(* (durable-recovery-plan.ts), as a function of the persisted request, the *)
(* lease stored under it and the segment that lease is for, whether the    *)
(* predecessor checkpoint is usable, and whether a cancellation is stored. *)
(* One model manifest serves the whole deployment, so the two manifest     *)
(* comparisons of the planner always succeed and are left out.             *)
(***************************************************************************)
EXTENDS Naturals, RequestStateMachine

LOCAL Leases == INSTANCE LeaseManager

Plan(kind, code) == [kind |-> kind, code |-> code]

\* Mutant: a request that has failed is not over for the planner.
recoverableUnlessCompleted(stage) == stage \notin {"completed", "cancelled"}

\* The request is still to be finished.
recoverable(stage) == stage \notin TERMINAL_STAGES

\* Mutant: a lease holds its request whatever its age.
leaseHeldForever(lease) == lease # Leases!NoLease

\* now < expiresAt: the lease's owner may still be at work.
leaseHeld(lease) == lease # Leases!NoLease /\ lease.age = "live"

planDurableRequestRecovery(request, lease, leaseSegment, usable, cancelled, maxRetries) ==
  IF ~recoverable(request.stage) THEN Plan("terminal", "none")
  ELSE IF cancelled THEN Plan("cancel", "none")
  ELSE IF request.deadline = "passed" THEN Plan("fail", "DeadlineExceeded")
  ELSE IF request.retryCount > maxRetries THEN Plan("fail", "RuntimeTransient")
  ELSE IF ~usable THEN Plan("fail", "CheckpointIntegrityMismatch")
  ELSE IF lease # Leases!NoLease /\ leaseSegment # request.currentSegment
    THEN Plan("fail", "ResultIdentityMismatch")
  ELSE IF leaseHeld(lease) THEN Plan("wait-active-owner", "none")
  ELSE Plan("resume", "none")
=============================================================================
