------------------------- MODULE DurableCoordinator -------------------------
(***************************************************************************)
(* The durable coordinator: requests made of consecutive model segments,   *)
(* executed one segment at a time on leased workers, by coordinator        *)
(* instances that share one durable repository, may crash, and take over   *)
(* each other's requests through durable recovery                          *)
(* (durable-coordinator-core-impl.ts, durable-recovery-command.ts,         *)
(* durable-recovery-runner.ts, durable-repository.ts).                     *)
(*                                                                         *)
(* Code between two awaits is one action.  A run, that is one pending call *)
(* of runRequest or of the recovery runner, rests at one of the awaits:    *)
(*   "sleep"      the recovery runner polls a peer's claim or lease        *)
(*   "delay"      the retry delay of the attempt loop                      *)
(*   "executing"  the executor works on an assignment                      *)
(*   "rejecting"  an abort has rejected the execution, not yet caught      *)
(*   "validating" a checkpoint's digest is being verified                  *)
(*   "decided"    acceptResult has resolved, its caller has not resumed    *)
(*   "ending"     the segment loop is over, runRequest has not resumed     *)
(* Time is abstract: leases, claims, checkpoints and deadlines run out     *)
(* whenever the environment says so, timers fire at any moment after.      *)
(***************************************************************************)
EXTENDS Naturals, Sequences, FiniteSets, RequestStateMachine, LeaseManager,
        WorkerRegistry, DurableRecoveryPlan

CONSTANTS
  Coordinators,   \* coordinator instances; one that crashed never comes back
  Requests,       \* request identifiers, each bound to one idempotency key
  Workers,        \* worker identifiers
  NumSegments,    \* totalSegments of the model manifest
  MaxRetries,     \* options.maxRetries
  Digests,        \* payload digests a valid result may carry
  Faults,         \* the result defects executors are allowed to show
  Environment,    \* the environment events in scope
  MaxAttempts,    \* bound: assignments issued
  MaxGenerations, \* bound: connection generations per worker
  MaxPushes,      \* bound: results and failures pushed by workers
  NoOwner         \* the owner of an unclaimed request

\* What may be wrong with a result: its envelope, its identity, its output or
\* checkpoint missing, malformed, failing validation, or outliving its TTL
\* while it is validated.
AllFaults == {"envelope", "foreign", "missing", "malformed", "invalid", "stale"}

AllEvents == {"cancel", "caller-abort", "deadline", "lease-expiry", "claim-expiry",
              "checkpoint-expiry", "heartbeat-loss", "reconnect", "remove",
              "push", "recover", "failover", "crash", "executor-failure"}

ASSUME CoordinatorAssumption ==
  /\ NumSegments \in Nat \ {0}
  /\ MaxRetries \in Nat
  /\ MaxAttempts \in Nat
  /\ MaxGenerations \in Nat
  /\ MaxPushes \in Nat
  /\ Faults \subseteq AllFaults
  /\ Environment \subseteq AllEvents
  /\ Digests \cap (AllFaults \cup {"none"}) = {}
  /\ NoOwner \notin Coordinators

VARIABLES
  requests,       \* request records
  results,        \* committed results: the attempt that produced it, 0 if none
  cancellations,  \* cancellation records: "none", "requested", "acknowledged"
  attempts,       \* attempt history, oldest first, over all requests
  leases,         \* active leases
  checkpoints,    \* per request and segment: digest and freshness
  ownerships,     \* recovery claims
  workers,        \* worker records
  runs,           \* in-flight entries, per coordinator and request
  pushes,         \* pushed results whose checkpoint is being validated
  pushed,         \* number of pushes so far
  up              \* the coordinators that have not crashed

durable == <<requests, results, cancellations, attempts, leases, checkpoints,
             ownerships, workers>>
vars == <<requests, results, cancellations, attempts, leases, checkpoints,
          ownerships, workers, runs, pushes, pushed, up>>

Segments == 0 .. NumSegments - 1
FinalSegment == NumSegments - 1
Payloads == Digests \cup Faults

------------------------------------------------------------------------------
(* Records                                                                  *)

\* An identifier no request record exists for yet.
NoRequest == [stage |-> "absent", currentSegment |-> 0, retryCount |-> 0,
              deadline |-> "none", lastErrorCode |-> "none"]

\* createRequest followed by accepted -> queued.
NewRequest(deadline) ==
  [NoRequest EXCEPT !.stage = "queued", !.deadline = deadline]

NoCheckpoint == [digest |-> "none", expired |-> FALSE]
NoCheckpoints == [s \in Segments |-> NoCheckpoint]
NoClaim == [owner |-> NoOwner, live |-> FALSE]

NoRun == [pc |-> "none", mode |-> "none", segment |-> 0, attempt |-> 0, id |-> 0,
          aborted |-> FALSE, cancelKind |-> "user", lost |-> FALSE, arg |-> "none"]

\* A run entering the segment loop at a segment.
NewRun(mode, segment) == [NoRun EXCEPT !.mode = mode, !.segment = segment]

\* A run whose segment loop returned ("return") or threw an error.
Ending(run, how) ==
  [run EXCEPT !.pc = "ending", !.arg = how, !.segment = 0, !.attempt = 0, !.id = 0]

\* The run awaits something inside runRequest.
InRequest(run) ==
  run.pc \in {"delay", "executing", "rejecting", "validating", "decided", "ending"}

\* The run awaits a timer or another task: a timer may fire now.
Interruptible(run) == run.pc \in {"delay", "executing", "validating"}
------------------------------------------------------------------------------
(* Helpers of the coordinator                                               *)

\* updateAttemptOutcome.
updateAttemptOutcome(atts, id, outcome) == [atts EXCEPT ![id].outcome = outcome]

\* Mutant: a segment starts without looking at its predecessor's checkpoint.
PredecessorUnchecked(r, segment) == TRUE

\* The checkpoint a segment continues from is stored and fresh.
PredecessorUsable(r, segment) ==
  segment > 0 =>
    /\ checkpoints[r][segment - 1].digest # "none"
    /\ ~checkpoints[r][segment - 1].expired

\* Mutant: the active lease survives its request.
finalizeStageKeepsLease(r, rec, ls, stage, code) ==
  IF isLegalTransition(rec.stage, stage)
    THEN /\ requests' = [requests EXCEPT ![r] =
                           [rec EXCEPT !.stage = stage, !.lastErrorCode = code]]
         /\ leases' = ls
         /\ checkpoints' = [checkpoints EXCEPT ![r] = NoCheckpoints]
    ELSE /\ requests' = [requests EXCEPT ![r] = rec]
         /\ leases' = ls
         /\ UNCHANGED checkpoints

\* finalizeStage on a request record rec, with ls the leases at that point: no
\* effect on a terminal request, otherwise the stage, the checkpoints and the
\* active lease go together.
finalizeStage(r, rec, ls, stage, code) ==
  IF isLegalTransition(rec.stage, stage)
    THEN /\ requests' = [requests EXCEPT ![r] =
                           [rec EXCEPT !.stage = stage, !.lastErrorCode = code]]
         /\ leases' = reclaimByRequest(ls, r)
         /\ checkpoints' = [checkpoints EXCEPT ![r] = NoCheckpoints]
    ELSE /\ requests' = [requests EXCEPT ![r] = rec]
         /\ leases' = ls
         /\ UNCHANGED checkpoints

\* isolateWorker: revoke the attempt's worker generation if it is current, and
\* reclaim what it holds.
isolatedWorkers(ws, id) == revokeGeneration(ws, attempts[id].worker, attempts[id].gen)

\* Mutant: the revoked generation keeps its leases.
isolatedLeasesKept(ws, ls, id) == ls

isolatedLeases(ws, ls, id) ==
  IF isCurrent(ws, attempts[id].worker, attempts[id].gen)
    THEN reclaimByWorkerGeneration(ls, attempts, attempts[id].worker, attempts[id].gen)
    ELSE ls

\* Mutant: one turn of the attempt loop too many.
attemptsLeftOneMore(run) == run.attempt <= MaxRetries

\* The attempt loop has a turn after this one.
attemptsLeft(run) == run.attempt < MaxRetries

\* Mutant: the retry budget is counted by the loop, which a restart begins anew.
mayRetryByLoop(run, rec, kind) == kind = "transient" /\ run.attempt < MaxRetries

\* A failed execution is retried: its error is retryable and the request's
\* durable retry count has room.
mayRetry(run, rec, kind) == kind = "transient" /\ rec.retryCount < MaxRetries

\* A timer aborts the run's signal: an execution under way is rejected at once.
Abort(run, kind) ==
  [run EXCEPT !.pc = IF @ = "executing" THEN "rejecting" ELSE @,
              !.aborted = TRUE, !.cancelKind = kind]

\* A call aborts it: the executor's promise may just have settled, its result or
\* error waiting to be looked at.
AbortByCall(run, kind) ==
  {Abort(run, kind), [run EXCEPT !.aborted = TRUE, !.cancelKind = kind]}

\* The run of coordinator c for request r becomes run.
SetRun(c, r, run) == runs' = [runs EXCEPT ![c][r] = run]

------------------------------------------------------------------------------
(* The attempt loop                                                         *)

\* Issue a lease on an available worker and start the executor on the segment.
Assign(c, r, rec, ls, ws, run) ==
  /\ Len(attempts) < MaxAttempts
  /\ \E w \in availableWorkers(ws) :
       LET id == Len(attempts) + 1
           attempt == [request |-> r, worker |-> w, gen |-> ws[w].gen,
                       segment |-> run.segment, outcome |-> "none",
                       input |-> IF run.segment = 0 THEN "none"
                                 ELSE checkpoints[r][run.segment - 1].digest,
                       output |-> "none"]
       IN /\ attempts' = Append(attempts, attempt)
          /\ leases' = [ls EXCEPT ![r] = issue(id)]
          /\ \/ /\ rec.stage = "queued"
                /\ requests' = [requests EXCEPT ![r] = [rec EXCEPT !.stage = "running"]]
                /\ workers' = markStage(ws, w, ws[w].gen, "busy")
                /\ SetRun(c, r, [run EXCEPT !.pc = "executing", !.id = id])
             \/ \* transitionOrThrow(queued -> leased) throws
                /\ rec.stage # "queued"
                /\ requests' = [requests EXCEPT ![r] = rec]
                /\ workers' = ws
                /\ SetRun(c, r, Ending(run, "StateTransitionViolation"))
  /\ UNCHANGED checkpoints

\* One turn of executeSegmentWithRetry's loop up to its first await, for a run
\* that stands at run.segment and run.attempt.  rec, ls and ws are the request
\* record, the leases and the workers as the code before it left them.
LoopTurn(c, r, rec, ls, ws, run) ==
  LET cur == IF rec.stage = "retry-wait" THEN [rec EXCEPT !.stage = "queued"] ELSE rec
      stopped == rec.stage \in TERMINAL_STAGES \/ cancellations[r] # "none"
      schedulable == ~run.aborted /\ ~stopped
      usable == PredecessorUsable(r, run.segment)
      last == ~attemptsLeft(run)
  IN \/ \* the signal is aborted: throw
        /\ run.aborted
        /\ requests' = [requests EXCEPT ![r] = rec]
        /\ leases' = ls
        /\ workers' = ws
        /\ SetRun(c, r, Ending(run, "AbortError"))
        /\ UNCHANGED <<attempts, checkpoints>>
     \/ \* terminal or cancelled: return
        /\ ~run.aborted
        /\ stopped
        /\ finalizeStage(r, rec, ls, "cancelled", "none")
        /\ workers' = ws
        /\ SetRun(c, r, Ending(run, "return"))
        /\ UNCHANGED attempts
     \/ \* the checkpoint to continue from is missing or expired
        /\ schedulable
        /\ ~usable
        /\ finalizeStage(r, cur, ls, "failed", "CheckpointIntegrityMismatch")
        /\ workers' = ws
        /\ SetRun(c, r, Ending(run, "return"))
        /\ UNCHANGED attempts
     \/ \* no worker, budget left: wait and try again
        /\ schedulable
        /\ usable
        /\ availableWorkers(ws) = {}
        /\ ~last
        /\ requests' = [requests EXCEPT ![r] = cur]
        /\ leases' = ls
        /\ workers' = ws
        /\ SetRun(c, r, [run EXCEPT !.pc = "delay", !.id = 0])
        /\ UNCHANGED <<attempts, checkpoints>>
     \/ \* no worker in the last turn
        /\ schedulable
        /\ usable
        /\ availableWorkers(ws) = {}
        /\ last
        /\ finalizeStage(r, cur, ls, "failed", "WorkerDisconnected")
        /\ workers' = ws
        /\ SetRun(c, r, Ending(run, "return"))
        /\ UNCHANGED attempts
     \/ /\ schedulable
        /\ usable
        /\ Assign(c, r, cur, ls, ws, run)

------------------------------------------------------------------------------
(* Submission and recovery                                                  *)

\* submit of a request nobody submitted before: create it, bind its key, and
\* run it until its first await.
Submit(c, r) ==
  /\ c \in up
  /\ requests[r].stage = "absent"
  /\ \E deadline \in IF "deadline" \in Environment THEN {"none", "armed"} ELSE {"none"},
        aborted \in IF "caller-abort" \in Environment THEN BOOLEAN ELSE {FALSE} :
       LoopTurn(c, r, NewRequest(deadline), leases, workers,
                [NewRun("submit", 0) EXCEPT !.aborted = aborted])
  /\ UNCHANGED <<results, cancellations, ownerships, pushes, pushed, up>>

\* Mutant: a claim counts only while the request has an active lease.
OwnedByPeerWhileLeased(r, c) ==
  ownerships[r].live /\ ownerships[r].owner \notin {NoOwner, c} /\ isActive(leases, r)

\* claimRecoveryOwnership is refused: another owner's claim is live.
OwnedByPeer(r, c) == ownerships[r].live /\ ownerships[r].owner \notin {NoOwner, c}

\* The planner applied to what the repository holds.
PlanFor(r) ==
  planDurableRequestRecovery(
    requests[r], leases[r],
    IF isActive(leases, r) THEN attempts[leases[r].id].segment ELSE 0,
    PredecessorUsable(r, requests[r].currentSegment),
    cancellations[r] # "none", MaxRetries)

\* terminalize, after the exact lease the planner saw has been reclaimed.
terminalize(r, stage, code) ==
  /\ requests' = [requests EXCEPT ![r].stage = stage, ![r].lastErrorCode = code]
  /\ leases' = reclaimByRequest(leases, r)
  /\ checkpoints' = [checkpoints EXCEPT ![r] = NoCheckpoints]

\* Mutant: recovery starts the request over.
resumeSegmentZero(r) == 0

\* The segment the plan resumes at.
resumeSegment(r) == requests[r].currentSegment

\* One round of runDurableRecovery: claim, plan, and apply the plan; a resumed
\* request runs on until its first await, every other outcome releases the
\* claim.
BeginRecovery(c, r) ==
  LET plan == PlanFor(r)
      released == [ownerships EXCEPT ![r] = NoClaim]
  IN \/ \* already terminal
        /\ plan.kind = "terminal"
        /\ SetRun(c, r, NoRun)
        /\ UNCHANGED durable
     \/ /\ plan.kind # "terminal"
        /\ OwnedByPeer(r, c)
        /\ SetRun(c, r, [NewRun("recovery", 0) EXCEPT !.pc = "sleep"])
        /\ UNCHANGED durable
     \/ /\ plan.kind = "wait-active-owner"
        /\ ~OwnedByPeer(r, c)
        /\ ownerships' = released
        /\ SetRun(c, r, [NewRun("recovery", 0) EXCEPT !.pc = "sleep"])
        /\ UNCHANGED <<requests, results, cancellations, attempts, leases, checkpoints, workers>>
     \/ /\ plan.kind \in {"cancel", "fail"}
        /\ ~OwnedByPeer(r, c)
        /\ terminalize(r, IF plan.kind = "cancel" THEN "cancelled" ELSE "failed", plan.code)
        /\ ownerships' = released
        /\ SetRun(c, r, NoRun)
        /\ UNCHANGED <<results, cancellations, attempts, workers>>
     \/ /\ plan.kind = "resume"
        /\ ~OwnedByPeer(r, c)
        /\ ownerships' = [ownerships EXCEPT ![r] = [owner |-> c, live |-> TRUE]]
        /\ LoopTurn(c, r, [requests[r] EXCEPT !.stage = "queued"],
                    reclaimByRequest(leases, r), workers,
                    NewRun("recovery", resumeSegment(r)))
        /\ UNCHANGED <<results, cancellations>>

\* submit with a bound key, or recoverPendingRequests, on an instance that has
\* no entry for a request still in progress.  The event "recover" is either call
\* at any moment; "failover" is the documented startup scan, when no instance
\* that is still up runs the request.
Recover(c, r) ==
  /\ \/ "recover" \in Environment
     \/ "failover" \in Environment /\ \A d \in up : runs[d][r].pc = "none"
  /\ c \in up
  /\ runs[c][r].pc = "none"
  /\ requests[r].stage \in REQUEST_STAGES \ TERMINAL_STAGES
  /\ BeginRecovery(c, r)
  /\ UNCHANGED <<pushes, pushed, up>>

\* The runner's poll interval is over.
RecoveryPoll(c, r) ==
  /\ runs[c][r].pc = "sleep"
  /\ ~runs[c][r].aborted
  /\ BeginRecovery(c, r)
  /\ UNCHANGED <<pushes, pushed, up>>

\* The runner's sleep rejects because the entry was aborted.
RecoverySleepAborted(c, r) ==
  /\ runs[c][r].pc = "sleep"
  /\ runs[c][r].aborted
  /\ SetRun(c, r, NoRun)
  /\ UNCHANGED <<durable, pushes, pushed, up>>

\* The runner's renewal timer: renew the claim, or notice that a peer holds it
\* and abort the resumed run.
RenewOwnership(c, r) ==
  LET run == runs[c][r]
  IN /\ Interruptible(run)
     /\ run.mode = "recovery"
     /\ ~run.lost
     /\ IF OwnedByPeer(r, c)
          THEN /\ SetRun(c, r,
                     [Abort(run, IF run.aborted THEN run.cancelKind ELSE "recovery-ownership")
                        EXCEPT !.lost = TRUE])
               /\ UNCHANGED ownerships
          ELSE /\ ownerships' = [ownerships EXCEPT ![r] = [owner |-> c, live |-> TRUE]]
               /\ UNCHANGED runs
     /\ UNCHANGED <<requests, results, cancellations, attempts, leases, checkpoints,
                    workers, pushes, pushed, up>>

------------------------------------------------------------------------------
(* Accepting results                                                        *)

\* Mutant: off by one, the segment before the last counts as final.
isFinalSegmentOffByOne(segment) == segment + 1 >= FinalSegment

\* isFinal: the result of this segment completes the request.
isFinalSegment(segment) == segment = FinalSegment

\* acceptResult up to its await: what it decides about a result with identity
\* id and the given payload.  "validate" is the await on the digest.
FirstVerdict(id, payload) ==
  LET r == attempts[id].request
      isFinal == isFinalSegment(attempts[id].segment)
  IN IF payload = "envelope" THEN "protocol-violation"
     ELSE IF cancellations[r] # "none" \/ requests[r].stage = "cancelled" THEN "cancelled"
     ELSE IF payload = "foreign" \/ ~match(leases, r, id) THEN "identity-mismatch"
     ELSE IF isFinal
       THEN IF payload = "missing" THEN "output-missing"
            ELSE IF payload = "malformed" THEN "protocol-violation"
            ELSE IF results[r] # 0 THEN "duplicate"
            ELSE IF requests[r].stage # "running" THEN "conflict"
            ELSE "committed"
     ELSE IF payload = "missing" THEN "protocol-violation"
     ELSE IF payload = "malformed" THEN "checkpoint-rejected"
     ELSE "validate"

\* The effect of that decision.
ApplyFirstVerdict(id, verdict) ==
  LET r == attempts[id].request
  IN CASE verdict = "committed" ->
            /\ results' = [results EXCEPT ![r] = id]
            /\ requests' = [requests EXCEPT ![r].stage = "completed"]
            /\ leases' = reclaimByRequest(leases, r)
            /\ attempts' = updateAttemptOutcome(attempts, id, "completed")
            /\ checkpoints' = [checkpoints EXCEPT ![r] = NoCheckpoints]
            /\ UNCHANGED workers
       [] verdict \in {"duplicate", "conflict"} ->
            /\ leases' = reclaimByRequest(leases, r)
            /\ UNCHANGED <<results, requests, attempts, checkpoints, workers>>
       [] verdict = "cancelled" ->
            /\ finalizeStage(r, requests[r], leases, "cancelled", "none")
            /\ UNCHANGED <<results, attempts, workers>>
       [] verdict = "checkpoint-rejected" ->
            /\ workers' = isolatedWorkers(workers, id)
            /\ leases' = isolatedLeases(workers, leases, id)
            /\ UNCHANGED <<results, requests, attempts, checkpoints>>
       [] OTHER -> UNCHANGED <<results, requests, attempts, checkpoints, workers, leases>>

\* acceptResult after the await: identity, stage and TTL are checked again
\* before the checkpoint is put.
SecondVerdict(id, payload) ==
  LET r == attempts[id].request
      slot == checkpoints[r][attempts[id].segment]
  IN IF payload = "invalid" THEN "checkpoint-rejected"
     ELSE IF cancellations[r] # "none" THEN "cancelled"
     ELSE IF ~match(leases, r, id) THEN "identity-mismatch"
     ELSE IF requests[r].stage # "running" THEN "protocol-violation"
     ELSE IF payload = "stale" THEN "checkpoint-expired"
     ELSE IF slot.digest \notin {"none", payload} THEN "checkpoint-conflict"
     ELSE "accepted"

ApplySecondVerdict(id, payload, verdict) ==
  LET r == attempts[id].request
      segment == attempts[id].segment
  IN CASE verdict \in {"checkpoint-rejected", "checkpoint-conflict"} ->
            /\ workers' = isolatedWorkers(workers, id)
            /\ leases' = isolatedLeases(workers, leases, id)
            /\ UNCHANGED <<requests, attempts, checkpoints>>
       [] verdict = "cancelled" ->
            /\ finalizeStage(r, requests[r], leases, "cancelled", "none")
            /\ UNCHANGED <<attempts, workers>>
       [] verdict = "accepted" ->
            /\ checkpoints' =
                 IF checkpoints[r][segment].digest = "none"
                   THEN [checkpoints EXCEPT ![r][segment] = [digest |-> payload, expired |-> FALSE]]
                   ELSE checkpoints
            /\ attempts' = [attempts EXCEPT ![id].outcome = "completed", ![id].output = payload]
            /\ leases' = reclaim(leases, r, id)
            /\ UNCHANGED <<requests, workers>>
       [] OTHER -> UNCHANGED <<requests, attempts, checkpoints, workers, leases>>

\* The error code a rejected result fails its request with.
acceptanceErrorCode(verdict) ==
  CASE verdict = "identity-mismatch" -> "ResultIdentityMismatch"
    [] verdict \in {"checkpoint-rejected", "checkpoint-expired", "checkpoint-conflict"}
         -> "CheckpointIntegrityMismatch"
    [] OTHER -> "ProtocolViolation"

\* The executor resolves: acceptResult runs up to its await or its verdict.
ExecutorResolves(c, r) ==
  LET run == runs[c][r]
  IN /\ run.pc = "executing"
     /\ \E payload \in Payloads :
          LET verdict == FirstVerdict(run.id, payload)
          IN /\ ApplyFirstVerdict(run.id, verdict)
             /\ SetRun(c, r, IF verdict = "validate"
                               THEN [run EXCEPT !.pc = "validating", !.arg = payload]
                               ELSE [run EXCEPT !.pc = "decided", !.arg = verdict])
     /\ UNCHANGED <<cancellations, ownerships, pushes, pushed, up>>

\* The digest is verified: acceptResult runs to its verdict.
CheckpointValidated(c, r) ==
  LET run == runs[c][r]
      verdict == SecondVerdict(run.id, run.arg)
  IN /\ run.pc = "validating"
     /\ ApplySecondVerdict(run.id, run.arg, verdict)
     /\ SetRun(c, r, [run EXCEPT !.pc = "decided", !.arg = verdict])
     /\ UNCHANGED <<results, cancellations, ownerships, pushes, pushed, up>>

\* executeSegmentWithRetry resumes with the verdict: the worker is idle again.
IdleAgain(run) == markStage(workers, attempts[run.id].worker, attempts[run.id].gen, "idle")

\* An accepted intermediate result: running -> queued, the cursor advances, and
\* the loop turns for the next segment.
AdvanceSegment(c, r) ==
  LET run == runs[c][r]
      next == run.segment + 1
  IN /\ run.pc = "decided"
     /\ run.arg = "accepted"
     /\ requests[r].stage = "running"
     /\ LoopTurn(c, r, [requests[r] EXCEPT !.stage = "queued", !.currentSegment = next],
                 leases, IdleAgain(run),
                 [run EXCEPT !.segment = next, !.attempt = 0, !.id = 0, !.arg = "none"])
     /\ UNCHANGED <<results, cancellations, ownerships, pushes, pushed, up>>

\* An accepted intermediate result of a request that is no longer running: the
\* transition throws into the catch block.
AdvanceRefused(c, r) ==
  LET run == runs[c][r]
  IN /\ run.pc = "decided"
     /\ run.arg = "accepted"
     /\ requests[r].stage # "running"
     /\ workers' = IdleAgain(run)
     /\ IF run.aborted
          THEN /\ SetRun(c, r, Ending(run, "StateTransitionViolation"))
               /\ UNCHANGED <<requests, leases, checkpoints, attempts>>
          ELSE /\ attempts' = updateAttemptOutcome(attempts, run.id, "failed")
               /\ finalizeStage(r, requests[r], reclaimByRequest(leases, r),
                                "failed", "StateTransitionViolation")
               /\ SetRun(c, r, Ending(run, "return"))
     /\ UNCHANGED <<results, cancellations, ownerships, pushes, pushed, up>>

\* A committed or duplicate final result, or a cancelled one: the segment loop
\* returns.
ReturnVerdict(c, r) ==
  LET run == runs[c][r]
  IN /\ run.pc = "decided"
     /\ run.arg \in {"committed", "duplicate", "cancelled"}
     /\ workers' = IdleAgain(run)
     /\ IF run.arg = "cancelled"
          THEN /\ attempts' = updateAttemptOutcome(attempts, run.id, "cancelled")
               /\ finalizeStage(r, requests[r], leases, "cancelled", "none")
          ELSE UNCHANGED <<attempts, requests, leases, checkpoints>>
     /\ SetRun(c, r, Ending(run, "return"))
     /\ UNCHANGED <<results, cancellations, ownerships, pushes, pushed, up>>

\* Any other verdict isolates the worker and fails the request.
RejectVerdict(c, r) ==
  LET run == runs[c][r]
      ws == IdleAgain(run)
  IN /\ run.pc = "decided"
     /\ run.arg \notin {"accepted", "committed", "duplicate", "cancelled"}
     /\ workers' = isolatedWorkers(ws, run.id)
     /\ attempts' = updateAttemptOutcome(attempts, run.id, "suppressed")
     /\ finalizeStage(r, requests[r], isolatedLeases(ws, leases, run.id),
                      "failed", acceptanceErrorCode(run.arg))
     /\ SetRun(c, r, Ending(run, "return"))
     /\ UNCHANGED <<results, cancellations, ownerships, pushes, pushed, up>>

------------------------------------------------------------------------------
(* Failed executions, delays and the end of a run                           *)

\* The executor rejects or the segment times out with a retryable error
\* ("transient") or one that is not ("permanent").
ExecutorFails(c, r) ==
  LET run == runs[c][r]
      rec == requests[r]
      ws == IdleAgain(run)
      ls == reclaimByRequest(leases, r)
      gone == markStage(ws, attempts[run.id].worker, attempts[run.id].gen, "disconnected")
  IN /\ "executor-failure" \in Environment
     /\ run.pc = "executing"
     /\ \E kind \in {"transient", "permanent"} :
          \/ \* rethrown to runRequest
             /\ run.aborted
             /\ workers' = ws
             /\ SetRun(c, r, Ending(run, kind))
             /\ UNCHANGED <<requests, leases, checkpoints, attempts>>
          \/ \* retry after a delay
             /\ ~run.aborted
             /\ mayRetry(run, rec, kind)
             /\ workers' = gone
             /\ leases' = ls
             /\ attempts' = updateAttemptOutcome(attempts, run.id, "failed")
             /\ requests' = [requests EXCEPT
                     ![r].retryCount = @ + 1,
                     ![r].stage = IF @ = "running" THEN "retry-wait" ELSE @]
             /\ SetRun(c, r, IF rec.stage = "running"
                               THEN [run EXCEPT !.pc = "delay", !.id = 0]
                               ELSE Ending(run, "StateTransitionViolation"))
             /\ UNCHANGED checkpoints
          \/ \* give up
             /\ ~run.aborted
             /\ ~mayRetry(run, rec, kind)
             /\ workers' = ws
             /\ attempts' = updateAttemptOutcome(attempts, run.id, "failed")
             /\ finalizeStage(r, rec, ls, "failed", kind)
             /\ SetRun(c, r, Ending(run, "return"))
     /\ UNCHANGED <<results, cancellations, ownerships, pushes, pushed, up>>

\* executeSegmentWithRetry catches the rejection and throws it on.
ExecutionAborted(c, r) ==
  LET run == runs[c][r]
  IN /\ run.pc = "rejecting"
     /\ workers' = IdleAgain(run)
     /\ SetRun(c, r, Ending(run, "AbortError"))
     /\ UNCHANGED <<requests, results, cancellations, attempts, leases, checkpoints,
                    ownerships, pushes, pushed, up>>

\* The delay is over: the next turn of the loop, or its end.
DelayOver(c, r) ==
  LET run == runs[c][r]
  IN /\ run.pc = "delay"
     /\ \/ /\ attemptsLeft(run)
           /\ LoopTurn(c, r, requests[r], leases, workers, [run EXCEPT !.attempt = @ + 1])
        \/ /\ ~attemptsLeft(run)
           /\ SetRun(c, r, Ending(run, "return"))
           /\ UNCHANGED <<requests, leases, workers, attempts, checkpoints>>
     /\ UNCHANGED <<results, cancellations, ownerships, pushes, pushed, up>>

\* How runRequest settles a request whose segment loop is over: the stage and
\* the error code it hands to finalizeStage, or nothing when the run lost its
\* claim to a peer.
Settlement(run) ==
  CASE run.arg = "return" -> <<"failed", "RuntimeTransient">>
    [] run.arg = "AbortError" /\ run.cancelKind = "deadline" -> <<"failed", "DeadlineExceeded">>
    [] run.arg = "AbortError" /\ run.cancelKind # "deadline" -> <<"cancelled", "none">>
    [] OTHER -> <<"failed", run.arg>>

\* Mutant: only a run that was aborted itself acknowledges.
acknowledgesOnAbort(run, record, stage, active) ==
  record = "requested" /\ stage = "cancelled" /\ ~active /\ run.arg = "AbortError"

\* acknowledgeCancellation: the record is not acknowledged yet, the request is
\* cancelled and no lease is active.
acknowledges(run, record, stage, active) ==
  record = "requested" /\ stage = "cancelled" /\ ~active

\* The rest of runRequest, acknowledgeCancellation, and the release of the
\* in-flight entry and of the recovery claim.
RunEnds(c, r) ==
  LET run == runs[c][r]
      yields == run.arg = "AbortError" /\ run.cancelKind = "recovery-ownership"
  IN /\ run.pc = "ending"
     /\ IF yields
          THEN UNCHANGED <<requests, leases, checkpoints>>
          ELSE finalizeStage(r, requests[r], leases, Settlement(run)[1], Settlement(run)[2])
     /\ cancellations' =
          IF acknowledges(run, cancellations[r], requests'[r].stage, isActive(leases', r))
            THEN [cancellations EXCEPT ![r] = "acknowledged"]
            ELSE cancellations
     /\ ownerships' =
          IF run.mode = "recovery" /\ ownerships[r].owner = c
            THEN [ownerships EXCEPT ![r] = NoClaim]
            ELSE ownerships
     /\ SetRun(c, r, NoRun)
     /\ UNCHANGED <<results, attempts, workers, pushes, pushed, up>>

------------------------------------------------------------------------------
(* Cancellation                                                             *)

\* cancel on any instance, for a request that has not completed or failed.
Cancel(c, r) ==
  LET entry == runs[c][r].pc # "none"
  IN /\ "cancel" \in Environment
     /\ c \in up
     /\ requests[r].stage \in REQUEST_STAGES \ {"completed", "failed"}
     /\ cancellations' = [cancellations EXCEPT ![r] =
          IF @ # "none" THEN @
          ELSE IF entry \/ isActive(leases, r) THEN "requested" ELSE "acknowledged"]
     /\ IF entry
          THEN \E run \in AbortByCall(runs[c][r], "user") : SetRun(c, r, run)
          ELSE UNCHANGED runs
     /\ attempts' = IF isActive(leases, r)
                      THEN updateAttemptOutcome(attempts, leases[r].id, "cancelled")
                      ELSE attempts
     /\ finalizeStage(r, requests[r], leases, "cancelled", "none")
     /\ UNCHANGED <<results, ownerships, workers, pushes, pushed, up>>

\* The submitter's AbortSignal fires.
CallerAborts(c, r) ==
  /\ "caller-abort" \in Environment
  /\ InRequest(runs[c][r])
  /\ runs[c][r].mode = "submit"
  /\ ~runs[c][r].aborted
  /\ \E run \in AbortByCall(runs[c][r], runs[c][r].cancelKind) : SetRun(c, r, run)
  /\ UNCHANGED <<durable, pushes, pushed, up>>

\* createdAt + timeoutMs goes by.
DeadlinePasses(r) ==
  /\ requests[r].deadline = "armed"
  /\ requests' = [requests EXCEPT ![r].deadline = "passed"]
  /\ UNCHANGED <<results, cancellations, attempts, leases, checkpoints, ownerships,
                 workers, runs, pushes, pushed, up>>

\* The deadline timer of a run fires.
DeadlineTimer(c, r) ==
  /\ requests[r].deadline = "passed"
  /\ Interruptible(runs[c][r])
  /\ runs[c][r].cancelKind # "deadline"
  /\ SetRun(c, r, Abort(runs[c][r], "deadline"))
  /\ UNCHANGED <<durable, pushes, pushed, up>>

------------------------------------------------------------------------------
(* Pushed results and failures                                              *)

\* handleWorkerResult: late, duplicated or out-of-order deliveries included.
PushResult(c, id) ==
  /\ "push" \in Environment
  /\ c \in up
  /\ pushed < MaxPushes
  /\ \E payload \in Payloads :
       LET verdict == FirstVerdict(id, payload)
       IN /\ ApplyFirstVerdict(id, verdict)
          /\ pushes' = IF verdict = "validate"
                         THEN pushes \cup {[coordinator |-> c, id |-> id, payload |-> payload]}
                         ELSE pushes
  /\ pushed' = pushed + 1
  /\ UNCHANGED <<cancellations, ownerships, runs, up>>

\* The rest of handleWorkerResult once the digest is verified.
PushValidated(p) ==
  /\ ApplySecondVerdict(p.id, p.payload, SecondVerdict(p.id, p.payload))
  /\ pushes' = pushes \ {p}
  /\ UNCHANGED <<results, cancellations, ownerships, runs, pushed, up>>

\* handleWorkerFailure.
PushFailure(c, id) ==
  LET r == attempts[id].request
  IN /\ "push" \in Environment
     /\ c \in up
     /\ pushed < MaxPushes
     /\ \E isolatable \in BOOLEAN :
          IF cancellations[r] # "none"
            THEN /\ attempts' = updateAttemptOutcome(attempts, id, "cancelled")
                 /\ finalizeStage(r, requests[r], leases, "cancelled", "none")
                 /\ UNCHANGED workers
            ELSE /\ match(leases, r, id)
                 /\ attempts' = updateAttemptOutcome(attempts, id, "failed")
                 /\ leases' = IF isolatable
                                THEN isolatedLeases(workers, reclaimByRequest(leases, r), id)
                                ELSE reclaimByRequest(leases, r)
                 /\ workers' = IF isolatable THEN isolatedWorkers(workers, id) ELSE workers
                 /\ UNCHANGED <<requests, checkpoints>>
     /\ pushed' = pushed + 1
     /\ UNCHANGED <<results, cancellations, ownerships, runs, pushes, up>>

------------------------------------------------------------------------------
(* Workers, clocks and crashes                                              *)

\* registerWorker on a new connection: the old generation, if there is one, is
\* revoked and its leases are reclaimed.
RegisterWorker(w) ==
  /\ workers[w].stage # "absent" => "reconnect" \in Environment
  /\ workers[w].gen < MaxGenerations
  /\ workers' = connect(workers, w)
  /\ leases' = IF workers[w].stage # "absent"
                 THEN reclaimByWorkerGeneration(leases, attempts, w, workers[w].gen)
                 ELSE leases
  /\ UNCHANGED <<requests, results, cancellations, attempts, checkpoints, ownerships,
                 runs, pushes, pushed, up>>

\* workerHeartbeat of the current generation.
WorkerHeartbeat(w) ==
  /\ workers[w].stage = "disconnected"
  /\ workers' = heartbeat(workers, w)
  /\ UNCHANGED <<requests, results, cancellations, attempts, leases, checkpoints,
                 ownerships, runs, pushes, pushed, up>>

\* One worker the heartbeat monitor finds timed out.
HeartbeatTimeout(w) ==
  /\ "heartbeat-loss" \in Environment
  /\ workers[w].stage # "absent"
  /\ workers' = markStage(workers, w, workers[w].gen, "disconnected")
  /\ leases' = reclaimByWorkerGeneration(leases, attempts, w, workers[w].gen)
  /\ UNCHANGED <<requests, results, cancellations, attempts, checkpoints, ownerships,
                 runs, pushes, pushed, up>>

\* removeWorker.
RemoveWorker(w) ==
  /\ "remove" \in Environment
  /\ workers[w].stage # "absent"
  /\ workers' = revokeGeneration(workers, w, workers[w].gen)
  /\ leases' = reclaimByWorkerGeneration(leases, attempts, w, workers[w].gen)
  /\ UNCHANGED <<requests, results, cancellations, attempts, checkpoints, ownerships,
                 runs, pushes, pushed, up>>

\* A lease reaches, then passes, its expiresAt.
LeaseGrowsOld(r) ==
  /\ "lease-expiry" \in Environment
  /\ isActive(leases, r)
  /\ leases[r].age # "past"
  /\ leases' = [leases EXCEPT ![r] = Older(@)]
  /\ UNCHANGED <<requests, results, cancellations, attempts, checkpoints, ownerships,
                 workers, runs, pushes, pushed, up>>

\* A recovery claim reaches its expiresAt.
ClaimExpires(r) ==
  /\ "claim-expiry" \in Environment
  /\ ownerships[r].live
  /\ ownerships' = [ownerships EXCEPT ![r].live = FALSE]
  /\ UNCHANGED <<requests, results, cancellations, attempts, leases, checkpoints,
                 workers, runs, pushes, pushed, up>>

\* A checkpoint reaches the end of its TTL.
CheckpointExpires(r, s) ==
  /\ "checkpoint-expiry" \in Environment
  /\ checkpoints[r][s].digest # "none"
  /\ ~checkpoints[r][s].expired
  /\ checkpoints' = [checkpoints EXCEPT ![r][s].expired = TRUE]
  /\ UNCHANGED <<requests, results, cancellations, attempts, leases, ownerships,
                 workers, runs, pushes, pushed, up>>

\* The checkpoint cleanup timer: collectExpiredCheckpoints.
CheckpointCleanup ==
  /\ \E r \in Requests, s \in Segments : checkpoints[r][s].expired
  /\ checkpoints' = [r \in Requests |-> [s \in Segments |->
       IF checkpoints[r][s].expired THEN NoCheckpoint ELSE checkpoints[r][s]]]
  /\ UNCHANGED <<requests, results, cancellations, attempts, leases, ownerships,
                 workers, runs, pushes, pushed, up>>

\* The first of the two promise hops behind an accepted intermediate result is
\* over: executeSegmentWithRetry has returned, and executeAllSegments has not
\* resumed to move the cursor.
BetweenHops(c, r) ==
  /\ runs[c][r].pc = "decided"
  /\ runs[c][r].arg = "accepted"
  /\ requests[r].stage = "running"
  /\ requests' = [requests EXCEPT ![r].stage = "queued"]
  /\ workers' = IdleAgain(runs[c][r])

\* A coordinator instance is gone with everything it held in memory, wherever
\* its runs stood: also when a checkpoint is stored and the cursor not moved yet,
\* before or after the first hop.
Crash(c) ==
  /\ "crash" \in Environment
  /\ c \in up
  /\ up' = up \ {c}
  /\ runs' = [runs EXCEPT ![c] = [r \in Requests |-> NoRun]]
  /\ pushes' = {p \in pushes : p.coordinator # c}
  /\ \/ UNCHANGED <<requests, workers>>
     \/ \E r \in Requests : BetweenHops(c, r)
  /\ UNCHANGED <<results, cancellations, attempts, leases, checkpoints, ownerships, pushed>>

------------------------------------------------------------------------------
(* The specification                                                        *)

Init ==
  /\ requests = [r \in Requests |-> NoRequest]
  /\ results = [r \in Requests |-> 0]
  /\ cancellations = [r \in Requests |-> "none"]
  /\ attempts = <<>>
  /\ leases = [r \in Requests |-> NoLease]
  /\ checkpoints = [r \in Requests |-> NoCheckpoints]
  /\ ownerships = [r \in Requests |-> NoClaim]
  /\ workers = [w \in Workers |-> [gen |-> 0, stage |-> "absent"]]
  /\ runs = [c \in Coordinators |-> [r \in Requests |-> NoRun]]
  /\ pushes = {}
  /\ pushed = 0
  /\ up = Coordinators

\* Promise continuations: the executor's promise settles, or an async function
\* returns to the one that awaits it.
Continuation(c, r) ==
  \/ ExecutorResolves(c, r)
  \/ ExecutorFails(c, r)
  \/ ExecutionAborted(c, r)
  \/ RecoverySleepAborted(c, r)
  \/ AdvanceSegment(c, r)
  \/ AdvanceRefused(c, r)
  \/ ReturnVerdict(c, r)
  \/ RejectVerdict(c, r)
  \/ RunEnds(c, r)

\* Calls of the application and of the worker transport.
Call ==
  \/ \E c \in Coordinators, r \in Requests :
       Submit(c, r) \/ Recover(c, r) \/ Cancel(c, r) \/ CallerAborts(c, r)
  \/ \E c \in Coordinators, id \in DOMAIN attempts : PushResult(c, id) \/ PushFailure(c, id)
  \/ \E w \in Workers : RegisterWorker(w) \/ WorkerHeartbeat(w) \/ RemoveWorker(w)

\* Tasks of the event loop (timers, finished digests) and what happens outside
\* it as time goes by.
Task ==
  \/ \E c \in Coordinators, r \in Requests :
       \/ RecoveryPoll(c, r)
       \/ RenewOwnership(c, r)
       \/ DeadlineTimer(c, r)
       \/ DelayOver(c, r)
       \/ CheckpointValidated(c, r)
  \/ \E p \in pushes : PushValidated(p)
  \/ \E w \in Workers : HeartbeatTimeout(w)
  \/ \E r \in Requests : DeadlinePasses(r) \/ LeaseGrowsOld(r) \/ ClaimExpires(r)
  \/ \E r \in Requests, s \in Segments : CheckpointExpires(r, s)
  \/ CheckpointCleanup

\* All instances over one repository share its event loop, which starts no task
\* while a resolved promise waits for its continuation to run.
ContinuationPending ==
  \E c \in Coordinators, r \in Requests :
    \/ runs[c][r].pc \in {"rejecting", "decided", "ending"}
    \/ runs[c][r].pc \in {"sleep", "executing"} /\ runs[c][r].aborted

Next ==
  \/ \E c \in Coordinators, r \in Requests : Continuation(c, r)
  \/ Call
  \/ ~ContinuationPending /\ Task
  \/ \E c \in Coordinators : Crash(c)

Spec == Init /\ [][Next]_vars

------------------------------------------------------------------------------
(* Types                                                                    *)

Verdicts == {"protocol-violation", "cancelled", "identity-mismatch", "output-missing",
             "duplicate", "conflict", "committed", "checkpoint-rejected",
             "checkpoint-expired", "checkpoint-conflict", "accepted"}

ErrorCodes == {"transient", "permanent", "StateTransitionViolation", "RuntimeTransient",
               "DeadlineExceeded", "WorkerDisconnected", "CheckpointIntegrityMismatch",
               "ResultIdentityMismatch", "ProtocolViolation"}

RequestRecord ==
  [stage : REQUEST_STAGES \cup {"absent"}, currentSegment : Segments,
   retryCount : 0 .. MaxRetries, deadline : {"none", "armed", "passed"},
   lastErrorCode : ErrorCodes \cup {"none"}]

AttemptRecord ==
  [request : Requests, worker : Workers, gen : Nat, segment : Segments,
   outcome : {"none", "completed", "failed", "cancelled", "suppressed"},
   input : Digests \cup {"none"}, output : Digests \cup {"none"}]

CheckpointRecord == [digest : Digests \cup {"none"}, expired : BOOLEAN]

RunRecord ==
  [pc : {"none", "sleep", "delay", "executing", "rejecting", "validating", "decided",
         "ending"},
   mode : {"none", "submit", "recovery"}, segment : Segments, attempt : 0 .. MaxRetries,
   id : Nat, aborted : BOOLEAN, cancelKind : {"user", "deadline", "recovery-ownership"},
   lost : BOOLEAN, arg : Payloads \cup Verdicts \cup ErrorCodes \cup {"none", "return", "AbortError"}]

\* The run holds an assignment.
Assigned(run) == run.pc \in {"executing", "rejecting", "validating", "decided"}

\* Every record has its type, and what refers to an attempt refers to one that
\* was issued: active leases and committed results by request, runs and pushed
\* results by the assignment they carry.
TypeOK ==
  /\ requests \in [Requests -> RequestRecord]
  /\ results \in [Requests -> Nat]
  /\ cancellations \in [Requests -> {"none", "requested", "acknowledged"}]
  /\ attempts \in Seq(AttemptRecord)
  /\ leases \in [Requests -> [id : Nat, age : LeaseAges]]
  /\ checkpoints \in [Requests -> [Segments -> CheckpointRecord]]
  /\ ownerships \in [Requests -> [owner : Coordinators \cup {NoOwner}, live : BOOLEAN]]
  /\ workers \in [Workers -> [gen : Nat, stage : WorkerStages]]
  /\ runs \in [Coordinators -> [Requests -> RunRecord]]
  /\ pushes \subseteq [coordinator : Coordinators, id : Nat, payload : Payloads]
  /\ pushed \in Nat
  /\ up \subseteq Coordinators

------------------------------------------------------------------------------
(* Safety                                                                   *)

\* An active lease names an issued attempt of its own request, whose worker
\* generation is the current one: register, removeWorker, the heartbeat monitor
\* and isolateWorker never leave a lease with a revoked generation.
LeaseGenerationCurrent ==
  \A r \in Requests :
    leases[r].id # 0 =>
      /\ leases[r].id \in DOMAIN attempts
      /\ attempts[leases[r].id].request = r
      /\ isCurrent(workers, attempts[leases[r].id].worker, attempts[leases[r].id].gen)

\* A terminal request leaves nothing behind: no active lease, which would make
\* a worker's late result match, and no checkpoint, which would stay in memory.
TerminalReleasesAll ==
  \A r \in Requests :
    requests[r].stage \in TERMINAL_STAGES =>
      /\ leases[r].id = 0
      /\ \A s \in Segments : checkpoints[r][s].digest = "none"

\* A request is completed exactly when a result is committed for it, and that
\* result came from an attempt at its final segment.
CompletionCommitted ==
  \A r \in Requests :
    /\ requests[r].stage = "completed" <=> results[r] # 0
    /\ results[r] # 0 =>
         /\ results[r] \in DOMAIN attempts
         /\ attempts[results[r]].request = r
         /\ attempts[results[r]].segment = FinalSegment

\* Once cancel has stored its record the request is cancelled for good, however
\* many runs, recoveries and pushed results are still under way.
CancellationIsFinal ==
  \A r \in Requests : cancellations[r] # "none" => requests[r].stage = "cancelled"

\* Every segment after the first was started from a checkpoint that some attempt
\* of the same request at the segment before it produced and had accepted.
CheckpointLineage ==
  /\ \A r \in Requests, s \in Segments :
       checkpoints[r][s].digest # "none" =>
         \E i \in DOMAIN attempts :
           /\ attempts[i].request = r
           /\ attempts[i].segment = s
           /\ attempts[i].output = checkpoints[r][s].digest
  /\ \A i \in DOMAIN attempts :
       attempts[i].segment > 0 =>
         \E j \in DOMAIN attempts :
           /\ j < i
           /\ attempts[j].request = attempts[i].request
           /\ attempts[j].segment = attempts[i].segment - 1
           /\ attempts[j].output # "none"
           /\ attempts[j].output = attempts[i].input

\* A terminal stage is never left and a committed result never replaced.
TerminalIsFinal ==
  [][\A r \in Requests :
       /\ requests[r].stage \in TERMINAL_STAGES => requests'[r].stage = requests[r].stage
       /\ results[r] # 0 => results'[r] = results[r]]_vars

\* The segment cursor never moves back, so a segment whose checkpoint was
\* committed is not executed again after a later one.
CursorMonotone ==
  [][\A r \in Requests :
       requests'[r].currentSegment >= requests[r].currentSegment]_vars

\* While no claim runs out under its holder, at most one of the instances that
\* recover a request runs it: "a second reconstructed Coordinator therefore
\* observes the claim and does not execute the same request in parallel"
\* (docs/coordinator-restart-recovery.md).
RecoveryExclusive ==
  \A r \in Requests :
    Cardinality({c \in up : InRequest(runs[c][r]) /\ runs[c][r].mode = "recovery"}) <= 1

\* The retry budget is durable: however often the coordinator is restarted, a
\* request sees at most MaxRetries + 1 failed executions.
FailuresWithinBudget ==
  \A r \in Requests :
    Cardinality({i \in DOMAIN attempts : attempts[i].request = r /\ attempts[i].outcome = "failed"})
      <= MaxRetries + 1

\* Attempts of r that completed a segment which an earlier one had completed.
Repeats(atts, r) ==
  {i \in DOMAIN atts :
     /\ atts[i].request = r
     /\ atts[i].outcome = "completed"
     /\ \E j \in DOMAIN atts :
          /\ j < i
          /\ atts[j].request = r
          /\ atts[j].outcome = "completed"
          /\ atts[j].segment = atts[i].segment}

\* Only a crash makes completed work be done again, and each crash one segment
\* of a request at most: the one whose result was accepted when the instance
\* stopped and whose cursor had not moved (acceptResult returns, executeAllSegments
\* resumes two promise hops later).  It is never the final segment, whose result
\* is committed together with the completion.
CrashRepeatsOneSegment ==
  \A r \in Requests :
    /\ Cardinality(Repeats(attempts, r)) <= Cardinality(Coordinators \ up)
    /\ \A i \in Repeats(attempts, r) : attempts[i].segment # FinalSegment

\* No two runs have the same worker generation executing for them.
WorkerExclusive ==
  \A c, d \in Coordinators, r, q \in Requests :
    (<<c, r>> # <<d, q>> /\ runs[c][r].pc = "executing" /\ runs[d][q].pc = "executing") =>
      LET a == attempts[runs[c][r].id]
          b == attempts[runs[d][q].id]
      IN <<a.worker, a.gen>> # <<b.worker, b.gen>>

------------------------------------------------------------------------------
(* The contract with the application                                        *)

\* What the application sees of a request's stage.
statusOf(stage) ==
  IF stage = "absent" THEN "unknown"
  ELSE IF stage \in TERMINAL_STAGES THEN stage
  ELSE "pending"

Contract == INSTANCE RequestContract WITH
  Results <- 1 .. MaxAttempts,
  status <- [r \in Requests |-> statusOf(requests[r].stage)],
  result <- results,
  cancellation <- cancellations

\* Behind all its runs, leases, retries, takeovers and crashes the coordinator
\* keeps the contract: every step is one of the contract or invisible in it.
KeepsContract == Contract!Spec

------------------------------------------------------------------------------
(* Statements of the documentation that the code does not keep              *)

\* "A duplicate submission returns the existing request's status/result and never
\* double-executes" (docs/coordinator-durability.md): no segment of a request has
\* two executions that both completed.
NeverDoubleExecutes ==
  \A i, j \in DOMAIN attempts :
    (i # j /\ attempts[i].outcome = "completed" /\ attempts[j].outcome = "completed") =>
      <<attempts[i].request, attempts[i].segment>> # <<attempts[j].request, attempts[j].segment>>

\* "We never infer physical stop from lease removal" (CancellationAck): an
\* acknowledged cancellation leaves no live instance with the executor at work.
AcknowledgedMeansStopped ==
  \A r \in Requests :
    cancellations[r] = "acknowledged" => \A c \in up : runs[c][r].pc # "executing"

\* "If recovery ownership is lost while this Coordinator is executing, the
\* recovery signal is aborted without terminalizing the shared request": no step
\* of a run that lost its claim makes the request terminal.
LostOwnerYields ==
  [][\A c \in Coordinators, r \in Requests :
       (runs[c][r].lost /\ runs'[c][r] # runs[c][r]) =>
         (requests'[r].stage \in TERMINAL_STAGES => requests[r].stage \in TERMINAL_STAGES)]_vars

\* "A stale result must never reclaim a newer retry/reconnect lease for the same
\* request" (LeaseManager.reclaim): a run whose execution fails leaves a lease
\* that covers another attempt alone.
StaleFailureSparesLease ==
  [][\A c \in Coordinators, r \in Requests :
       (/\ runs[c][r].pc = "executing"
        /\ runs'[c][r].pc = "delay"
        /\ leases[r].id \notin {0, runs[c][r].id}) => leases'[r].id = leases[r].id]_vars

------------------------------------------------------------------------------
(* Liveness                                                                 *)

\* What the runtime keeps doing: promises settle (the segment timer bounds every
\* execution), timers fire, digests finish, leases and the claims of dead owners
\* run out, and an instance that is up scans for pending requests.
Fairness ==
  /\ \A c \in Coordinators, r \in Requests :
       /\ WF_vars(Continuation(c, r))
       /\ WF_vars(~ContinuationPending /\ (\/ DelayOver(c, r)
                                           \/ CheckpointValidated(c, r)
                                           \/ RecoveryPoll(c, r)))
       /\ WF_vars(Recover(c, r))
  /\ \A r \in Requests :
       /\ WF_vars(~ContinuationPending /\ LeaseGrowsOld(r))
       /\ WF_vars(~ContinuationPending /\ ownerships[r].owner \notin up /\ ClaimExpires(r))

FairSpec == Spec /\ Fairness

\* A submitted request reaches a terminal stage, across crashes and recoveries,
\* as long as some coordinator stays up.
EventuallyTerminal ==
  \A r \in Requests :
    requests[r].stage # "absent" ~> (requests[r].stage \in TERMINAL_STAGES \/ up = {})

\* As long as no instance crashes, which is for good, and callers do not abort
\* the signal of their submit, every cancellation is eventually acknowledged.
\* After such an abort, cancel may write a record for the sleeping recovery runner
\* of another instance, and a runner that sleeps acknowledges nothing when it ends.
CancellationAcknowledged ==
  \A r \in Requests :
    cancellations[r] = "requested" ~>
      (cancellations[r] = "acknowledged" \/ up # Coordinators)
=============================================================================
