------------------------- MODULE DurableContract_proofs -------------------------
(***************************************************************************)
(* The durable coordinator, for every value of its constants, implements   *)
(* the contract with the application, continues every segment from an      *)
(* accepted output, and, each under what it needs of the environment,      *)
(* keeps recoveries and workers exclusive, the cursor moving forward, the  *)
(* retry budget, and every segment executed to its end once.  Unless an    *)
(* instance crashes, no request and no cancellation is left without a run  *)
(* that ends it.  Leases, claims and acknowledgements are a run's own for  *)
(* as long as a request is recovered only where no live instance runs it.  *)
(*                                                                         *)
(* The contract comes first: runs, leases, retries, takeovers, crashes and *)
(* pushed results are steps of RequestContract or invisible in it.  The    *)
(* invariant of DurableCoordinator_proofs ties stages, results and         *)
(* cancellations together, so an action only has to show which request it  *)
(* may move and that a terminal stage stays.                               *)
(***************************************************************************)
EXTENDS DurableCoordinator_proofs, FiniteSetTheorems

\* A step that moves request r alone, and only forward.
Advances(r) ==
  /\ \A q \in Requests \ {r} : requests'[q].stage = requests[q].stage /\ results'[q] = results[q]
  /\ requests[r].stage \in TERMINAL_STAGES =>
       requests'[r].stage = requests[r].stage /\ results'[r] = results[r]
  /\ requests[r].stage # "absent" => requests'[r].stage # "absent"
  /\ requests[r].stage = "absent" => requests'[r].stage \notin {"completed", "cancelled"}

\* What the application sees.
Status == [r \in Requests |-> statusOf(requests[r].stage)]

Obeys == Contract!Next \/ UNCHANGED Contract!vars

\* A step shows at most the move of one request.
LEMMA StatusMoves ==
  ASSUME NEW r \in Requests, \A q \in Requests \ {r} : requests'[q].stage = requests[q].stage
  PROVE  /\ Status' = [Status EXCEPT ![r] = statusOf(requests'[r].stage)]
         /\ statusOf(requests'[r].stage) = statusOf(requests[r].stage) => Status' = Status
BY DEF Status

\* A step that leaves the cancellations alone.
LEMMA Visible ==
  ASSUME IInv, IInv', NEW r \in Requests, Advances(r), UNCHANGED cancellations
  PROVE  Obeys
<1> DEFINE old == requests[r].stage
           new == requests'[r].stage
<1>1. /\ Status' = [Status EXCEPT ![r] = statusOf(new)]
      /\ statusOf(new) = statusOf(old) => Status' = Status
  BY StatusMoves DEF Advances
<1>2. /\ results \in [Requests -> Nat] /\ results' \in [Requests -> Nat]
      /\ old = "completed" <=> results[r] # 0
      /\ new = "completed" <=> results'[r] # 0
      /\ cancellations[r] # "none" => old = "cancelled"
  BY DEF IInv, TypeOK, RequestsSound, RecordSound
<1>3. results' = [results EXCEPT ![r] = results'[r]]
  BY <1>2 DEF Advances
<1>4. Status[r] = statusOf(old)
  BY DEF Status
<1>5. CASE old = "absent"
  <2>1. new \notin {"completed", "cancelled"} /\ results[r] = 0 /\ results'[r] = 0 /\ results' = results
    BY <1>2, <1>3, <1>5 DEF Advances
  <2>2. CASE new = "absent"
    BY <1>1, <1>5, <2>1, <2>2 DEF Obeys, Contract!vars, Status
  <2>3. CASE new # "absent"
    <3>1. statusOf(old) = "unknown" /\ statusOf(new) \in {"pending", "failed"}
      BY <1>5, <2>1, <2>3 DEF statusOf, TERMINAL_STAGES
    <3>2. Contract!Accept(r)
      BY <1>1, <1>4, <2>1, <3>1 DEF Contract!Accept, Status
    <3> QED
      BY <3>2 DEF Obeys, Contract!Next
  <2> QED
    BY <2>2, <2>3
<1>6. CASE old \in TERMINAL_STAGES
  <2>1. new = old /\ results' = results
    BY <1>2, <1>3, <1>6 DEF Advances
  <2> QED
    BY <1>1, <2>1 DEF Obeys, Contract!vars, Status
<1>7. CASE old \notin TERMINAL_STAGES \cup {"absent"}
  <2>1. statusOf(old) = "pending" /\ results[r] = 0 /\ new # "absent"
    BY <1>2, <1>7 DEF statusOf, TERMINAL_STAGES, Advances
  <2>2. CASE new \notin TERMINAL_STAGES
    <3>1. statusOf(new) = statusOf(old) /\ results' = results
      BY <1>2, <1>3, <2>1, <2>2 DEF statusOf, TERMINAL_STAGES
    <3> QED
      BY <1>1, <3>1 DEF Obeys, Contract!vars, Status
  <2>3. CASE new = "completed"
    <3>1. results'[r] \in 1 .. MaxAttempts
      <4>1. results'[r] \in DOMAIN attempts' /\ attempts' \in Seq(AttemptRecord) /\ Len(attempts') <= MaxAttempts
        BY <1>2, <2>3 DEF IInv, TypeOK, ResultSound
      <4>2. DOMAIN attempts' = 1 .. Len(attempts') /\ Len(attempts') \in Nat
        BY <4>1, LenProperties
      <4> QED
        BY <4>1, <4>2, CoordinatorAssumption
    <3>2. statusOf(new) = "completed"
      BY <2>3 DEF statusOf, TERMINAL_STAGES
    <3>3. Contract!Complete(r)
      BY <1>1, <1>3, <1>4, <2>1, <3>1, <3>2 DEF Contract!Complete, Status
    <3> QED
      BY <3>3 DEF Obeys, Contract!Next
  <2>4. CASE new \in {"failed", "cancelled"}
    <3>1. statusOf(new) \in {"failed", "cancelled"} /\ results' = results
      BY <1>2, <1>3, <2>1, <2>4 DEF statusOf, TERMINAL_STAGES
    <3>2. Contract!GiveUp(r)
      BY <1>1, <1>4, <2>1, <3>1 DEF Contract!GiveUp, Status
    <3> QED
      BY <3>2 DEF Obeys, Contract!Next
  <2> QED
    BY <2>2, <2>3, <2>4 DEF TERMINAL_STAGES
<1> QED
  BY <1>5, <1>6, <1>7

\* A step that leaves all the application sees alone.
LEMMA Invisible ==
  ASSUME UNCHANGED <<requests, results, cancellations>>
  PROVE  Obeys
BY DEF Obeys, Contract!vars

-----------------------------------------------------------------------------
(* The helpers of the coordinator.                                         *)

\* A record the code between the last await and a helper may have made of the stored one.
Derived(r, rec) ==
  /\ rec \in RequestRecord
  /\ rec.stage # "absent"
  /\ requests[r].stage \in TERMINAL_STAGES => rec.stage = requests[r].stage
  /\ requests[r].stage = "absent" => rec.stage = "queued"

\* The record r becomes rec and nothing else changes.
LEMMA RecordStored ==
  ASSUME IInv, NEW r \in Requests, NEW rec, rec.stage # "absent",
         requests[r].stage \in TERMINAL_STAGES => rec.stage = requests[r].stage,
         requests[r].stage = "absent" => rec.stage \notin {"completed", "cancelled"},
         requests' = [requests EXCEPT ![r] = rec], UNCHANGED results
  PROVE  Advances(r)
BY DEF IInv, TypeOK, Advances

LEMMA FinalizeAdvances ==
  ASSUME IInv, NEW r \in Requests, NEW rec, Derived(r, rec), NEW ls,
         NEW stage \in {"failed", "cancelled"}, NEW code,
         requests[r].stage = "absent" => stage = "failed",
         finalizeStage(r, rec, ls, stage, code), UNCHANGED results
  PROVE  Advances(r)
<1>1. CASE isLegalTransition(rec.stage, stage)
  <2> DEFINE new == [rec EXCEPT !.stage = stage, !.lastErrorCode = code]
  <2>1. requests' = [requests EXCEPT ![r] = new]
    BY <1>1 DEF finalizeStage
  <2>2. new.stage = stage
    BY DEF Derived, RequestRecord
  <2>3. requests[r].stage \notin TERMINAL_STAGES
    BY <1>1 DEF Derived, isLegalTransition, TRANSITIONS, TERMINAL_STAGES, REQUEST_STAGES
  <2> HIDE DEF new
  <2> QED
    BY <2>1, <2>2, <2>3, RecordStored
<1>2. CASE ~isLegalTransition(rec.stage, stage)
  <2>1. requests' = [requests EXCEPT ![r] = rec]
    BY <1>2 DEF finalizeStage
  <2> QED
    BY <2>1, RecordStored DEF Derived
<1> QED
  BY <1>1, <1>2

\* One turn of the attempt loop.
LEMMA LoopTurnAdvances ==
  ASSUME IInv, NEW c \in Coordinators, NEW r \in Requests, NEW rec, Derived(r, rec),
         NEW ls, NEW ws, NEW run, LoopTurn(c, r, rec, ls, ws, run), UNCHANGED results
  PROVE  Advances(r)
<1> DEFINE cur == IF rec.stage = "retry-wait" THEN [rec EXCEPT !.stage = "queued"] ELSE rec
           stopped == rec.stage \in TERMINAL_STAGES \/ cancellations[r] # "none"
<1>1. Derived(r, cur)
  BY DEF Derived, RequestRecord, REQUEST_STAGES, TERMINAL_STAGES
<1>2. requests[r].stage = "absent" => ~stopped
  BY DEF IInv, RequestsSound, RecordSound, Derived, TERMINAL_STAGES
<1>3. CASE requests' = [requests EXCEPT ![r] = rec]
  BY <1>3, RecordStored DEF Derived
<1>4. CASE stopped /\ finalizeStage(r, rec, ls, "cancelled", "none")
  BY <1>2, <1>4, FinalizeAdvances
<1>5. CASE finalizeStage(r, cur, ls, "failed", "CheckpointIntegrityMismatch")
  <2> HIDE DEF cur
  <2> QED
    BY <1>1, <1>5, FinalizeAdvances
<1>6. CASE requests' = [requests EXCEPT ![r] = cur]
  <2> HIDE DEF cur
  <2> QED
    BY <1>1, <1>6, RecordStored DEF Derived
<1>7. CASE finalizeStage(r, cur, ls, "failed", "WorkerDisconnected")
  <2> HIDE DEF cur
  <2> QED
    BY <1>1, <1>7, FinalizeAdvances
<1>8. CASE Assign(c, r, cur, ls, ws, run)
  <2> HIDE DEF cur
  <2>1. \/ requests' = [requests EXCEPT ![r] = cur]
        \/ cur.stage = "queued" /\ requests' = [requests EXCEPT ![r] = [cur EXCEPT !.stage = "running"]]
    BY <1>8 DEF Assign
  <2>2. CASE cur.stage = "queued" /\ requests' = [requests EXCEPT ![r] = [cur EXCEPT !.stage = "running"]]
    <3> DEFINE new == [cur EXCEPT !.stage = "running"]
    <3>1. new.stage = "running" /\ requests[r].stage \notin TERMINAL_STAGES
      BY <1>1, <2>2 DEF Derived, RequestRecord, TERMINAL_STAGES
    <3> HIDE DEF new
    <3> QED
      BY <2>2, <3>1, RecordStored DEF new
  <2> QED
    BY <1>1, <2>1, <2>2, RecordStored DEF Derived
<1> HIDE DEF cur, stopped
<1> QED
  BY <1>3, <1>4, <1>5, <1>6, <1>7, <1>8 DEF LoopTurn, cur, stopped

\* The stored record is derived from itself.
LEMMA StoredDerived ==
  ASSUME IInv, NEW r \in Requests, requests[r].stage # "absent"
  PROVE  Derived(r, requests[r])
BY DEF IInv, TypeOK, Derived

\* acceptResult up to its await commits a result only for a request that runs.
LEMMA FirstVerdictAdvances ==
  ASSUME IInv, NEW id \in DOMAIN attempts, NEW payload,
         ApplyFirstVerdict(id, FirstVerdict(id, payload))
  PROVE  Advances(attempts[id].request) /\ requests[attempts[id].request].stage # "absent"
<1> DEFINE r == attempts[id].request
           verdict == FirstVerdict(id, payload)
<1>1. r \in Requests /\ requests[r].stage # "absent"
  <2>1. attempts \in Seq(AttemptRecord)
    BY DEF IInv, TypeOK
  <2> QED
    BY <2>1, AttemptTyped DEF IInv
<1>2. CASE verdict = "committed"
  <2>1. results[r] = 0 /\ requests[r].stage = "running"
    BY <1>2 DEF FirstVerdict
  <2>2. results' = [results EXCEPT ![r] = id] /\ requests' = [requests EXCEPT ![r].stage = "completed"]
    BY <1>2 DEF ApplyFirstVerdict
  <2> HIDE DEF r
  <2>3. requests'[r].stage = "completed" /\ \A q \in Requests \ {r} : requests'[q] = requests[q]
    BY <1>1, <2>2 DEF IInv, TypeOK, RequestRecord
  <2>4. \A q \in Requests \ {r} : results'[q] = results[q]
    BY <1>1, <2>2 DEF IInv, TypeOK
  <2> QED
    BY <1>1, <2>1, <2>3, <2>4 DEF Advances, TERMINAL_STAGES, r
<1>3. CASE verdict = "cancelled"
  <2>1. finalizeStage(r, requests[r], leases, "cancelled", "none") /\ UNCHANGED results
    BY <1>3 DEF ApplyFirstVerdict
  <2> HIDE DEF r
  <2>2. Advances(r)
    BY <1>1, <2>1, StoredDerived, FinalizeAdvances
  <2> QED
    BY <1>1, <2>2 DEF r
<1>4. CASE verdict \notin {"committed", "cancelled"}
  <2>1. UNCHANGED <<requests, results>>
    BY <1>4 DEF ApplyFirstVerdict
  <2> QED
    BY <1>1, <2>1 DEF Advances
<1> QED
  BY <1>2, <1>3, <1>4

\* acceptResult after it.
LEMMA SecondVerdictAdvances ==
  ASSUME IInv, NEW id \in DOMAIN attempts, NEW payload, UNCHANGED results,
         ApplySecondVerdict(id, payload, SecondVerdict(id, payload))
  PROVE  Advances(attempts[id].request) /\ requests[attempts[id].request].stage # "absent"
<1> DEFINE r == attempts[id].request
           verdict == SecondVerdict(id, payload)
<1>1. r \in Requests /\ requests[r].stage # "absent"
  <2>1. attempts \in Seq(AttemptRecord)
    BY DEF IInv, TypeOK
  <2> QED
    BY <2>1, AttemptTyped DEF IInv
<1>2. CASE verdict = "cancelled"
  <2>1. finalizeStage(r, requests[r], leases, "cancelled", "none")
    BY <1>2 DEF ApplySecondVerdict
  <2> HIDE DEF r
  <2>2. Advances(r)
    BY <1>1, <2>1, StoredDerived, FinalizeAdvances
  <2> QED
    BY <1>1, <2>2 DEF r
<1>3. CASE verdict # "cancelled"
  <2>1. UNCHANGED requests
    BY <1>3 DEF ApplySecondVerdict
  <2> QED
    BY <1>1, <2>1 DEF Advances
<1> QED
  BY <1>2, <1>3

-----------------------------------------------------------------------------
(* The actions.                                                            *)

LEMMA SubmitAdvances ==
  ASSUME IInv, NEW c \in Coordinators, NEW r \in Requests, Submit(c, r)
  PROVE  Advances(r) /\ UNCHANGED cancellations
<1>1. PICK deadline \in {"none", "armed"}, aborted \in BOOLEAN :
        LoopTurn(c, r, NewRequest(deadline), leases, workers,
                 [NewRun("submit", 0) EXCEPT !.aborted = aborted])
  BY DEF Submit
<1>2. requests[r].stage = "absent" /\ UNCHANGED <<results, cancellations>>
  BY DEF Submit
<1>3. Derived(r, NewRequest(deadline))
  <2>1. NewRequest(deadline) \in RequestRecord /\ NewRequest(deadline).stage = "queued"
    BY SegmentFacts, CoordinatorAssumption DEF NewRequest, NoRequest, RequestRecord, REQUEST_STAGES
  <2> QED
    BY <1>2, <2>1 DEF Derived, TERMINAL_STAGES
<1> QED
  BY <1>1, <1>2, <1>3, LoopTurnAdvances

LEMMA BeginRecoveryAdvances ==
  ASSUME IInv, NEW c \in Coordinators, NEW r \in Requests, requests[r].stage # "absent",
         BeginRecovery(c, r)
  PROVE  Advances(r) /\ UNCHANGED cancellations
<1> DEFINE plan == PlanFor(r)
<1>1. plan.kind = "terminal" <=> requests[r].stage \in TERMINAL_STAGES
  BY PlanFacts DEF PlanFor
<1> HIDE DEF plan
<1>2. CASE UNCHANGED <<requests, results, cancellations>>
  BY <1>2 DEF Advances
<1>3. CASE /\ plan.kind \in {"cancel", "fail"}
           /\ terminalize(r, IF plan.kind = "cancel" THEN "cancelled" ELSE "failed", plan.code)
           /\ UNCHANGED <<results, cancellations>>
  <2> DEFINE stage == IF plan.kind = "cancel" THEN "cancelled" ELSE "failed"
  <2>1. requests' = [requests EXCEPT ![r].stage = stage, ![r].lastErrorCode = plan.code]
    BY <1>3 DEF terminalize
  <2>2. stage \in {"cancelled", "failed"}
    OBVIOUS
  <2> HIDE DEF stage
  <2>3. requests'[r].stage = stage /\ \A q \in Requests \ {r} : requests'[q] = requests[q]
    BY <2>1 DEF IInv, TypeOK, RequestRecord
  <2> QED
    BY <1>1, <1>3, <2>2, <2>3 DEF Advances
<1>4. CASE /\ plan.kind = "resume"
           /\ LoopTurn(c, r, [requests[r] EXCEPT !.stage = "queued"], reclaimByRequest(leases, r),
                       workers, NewRun("recovery", resumeSegment(r)))
           /\ UNCHANGED <<results, cancellations>>
  <2> DEFINE rec == [requests[r] EXCEPT !.stage = "queued"]
  <2>1. Derived(r, rec)
    <3>1. requests[r] \in RequestRecord
      BY DEF IInv, TypeOK
    <3>2. rec \in RequestRecord /\ rec.stage = "queued"
      BY <3>1 DEF RequestRecord, REQUEST_STAGES
    <3> QED
      BY <1>1, <1>4, <3>2 DEF Derived
  <2> HIDE DEF rec
  <2>2. LoopTurn(c, r, rec, reclaimByRequest(leases, r), workers, NewRun("recovery", resumeSegment(r)))
    BY <1>4 DEF rec
  <2> QED
    BY <1>4, <2>1, <2>2, LoopTurnAdvances
<1> QED
  BY <1>2, <1>3, <1>4 DEF BeginRecovery, plan, durable

\* A run is one of a submitted request.
LEMMA RunSubmitted ==
  ASSUME IInv, NEW c \in Coordinators, NEW r \in Requests, runs[c][r].pc # "none"
  PROVE  requests[r].stage # "absent"
BY DEF IInv

\* What a run does with its own request.
LEMMA RunAdvances ==
  ASSUME IInv, NEW c \in Coordinators, NEW r \in Requests,
         \/ AdvanceSegment(c, r) \/ AdvanceRefused(c, r) \/ ReturnVerdict(c, r)
         \/ RejectVerdict(c, r) \/ ExecutorFails(c, r) \/ DelayOver(c, r)
  PROVE  Advances(r) /\ UNCHANGED cancellations /\ requests[r].stage # "absent"
<1> DEFINE run == runs[c][r]
<1>1. UNCHANGED <<results, cancellations>>
  BY DEF AdvanceSegment, AdvanceRefused, ReturnVerdict, RejectVerdict, ExecutorFails, DelayOver
<1>2. run.pc # "none"
  BY DEF AdvanceSegment, AdvanceRefused, ReturnVerdict, RejectVerdict, ExecutorFails, DelayOver
<1>3. requests[r].stage # "absent" /\ Derived(r, requests[r])
  BY <1>2, RunSubmitted, StoredDerived
<1> HIDE DEF run
<1>4. CASE UNCHANGED requests
  BY <1>1, <1>3, <1>4 DEF Advances
<1>5. ASSUME NEW ls, NEW stage \in {"failed", "cancelled"}, NEW code,
             finalizeStage(r, requests[r], ls, stage, code)
      PROVE  Advances(r)
  BY <1>1, <1>3, <1>5, FinalizeAdvances
<1>6. CASE AdvanceSegment(c, r)
  <2> DEFINE next == run.segment + 1
             rec == [requests[r] EXCEPT !.stage = "queued", !.currentSegment = next]
             on == [run EXCEPT !.segment = next, !.attempt = 0, !.id = 0, !.arg = "none"]
  <2>1. LoopTurn(c, r, rec, leases, IdleAgain(run), on) /\ requests[r].stage = "running"
    BY <1>6 DEF AdvanceSegment, run
  <2>2. next \in Segments
    <3>1. run \in RunRecord /\ run.pc = "decided" /\ run.arg = "accepted" /\ RunSound(r, run, attempts)
      BY <1>6 DEF AdvanceSegment, run, IInv, TypeOK
    <3>2. run.segment \in Segments /\ run.segment # FinalSegment
      BY <3>1 DEF RunRecord, RunSound
    <3> QED
      BY <3>2, CoordinatorAssumption DEF Segments, FinalSegment
  <2> HIDE DEF next
  <2>3. Derived(r, rec)
    <3>1. requests[r] \in RequestRecord
      BY DEF IInv, TypeOK
    <3>2. rec \in RequestRecord /\ rec.stage = "queued"
      BY <2>2, <3>1 DEF RequestRecord, REQUEST_STAGES
    <3> QED
      BY <2>1, <3>2 DEF Derived, TERMINAL_STAGES
  <2> HIDE DEF rec, on
  <2> QED
    BY <1>1, <2>1, <2>3, LoopTurnAdvances
<1>7. CASE AdvanceRefused(c, r)
  BY <1>1, <1>3, <1>4, <1>5, <1>7 DEF AdvanceRefused
<1>8. CASE ReturnVerdict(c, r)
  BY <1>1, <1>3, <1>4, <1>5, <1>8 DEF ReturnVerdict
<1>9. CASE RejectVerdict(c, r)
  BY <1>1, <1>3, <1>5, <1>9 DEF RejectVerdict
<1>10. CASE ExecutorFails(c, r)
  <2>1. CASE requests' = [requests EXCEPT ![r].retryCount = @ + 1,
                                          ![r].stage = IF @ = "running" THEN "retry-wait" ELSE @]
    <3> DEFINE stage == IF requests[r].stage = "running" THEN "retry-wait" ELSE requests[r].stage
    <3>1. requests'[r].stage = stage /\ \A q \in Requests \ {r} : requests'[q] = requests[q]
      BY <2>1 DEF IInv, TypeOK, RequestRecord
    <3> QED
      BY <1>1, <1>3, <3>1 DEF Advances, TERMINAL_STAGES
  <2> QED
    BY <1>1, <1>3, <1>4, <1>5, <1>10, <2>1 DEF ExecutorFails
<1>11. CASE DelayOver(c, r)
  <2>1. CASE LoopTurn(c, r, requests[r], leases, workers, [runs[c][r] EXCEPT !.attempt = @ + 1])
    BY <1>1, <1>3, <2>1, LoopTurnAdvances
  <2> QED
    BY <1>1, <1>4, <1>11, <2>1 DEF DelayOver
<1> QED
  BY <1>3, <1>6, <1>7, <1>8, <1>9, <1>10, <1>11

\* Results, verdicts and failures of attempts.
LEMMA ResultAdvances ==
  ASSUME IInv, NEW c \in Coordinators,
         \/ \E r \in Requests : ExecutorResolves(c, r) \/ CheckpointValidated(c, r)
         \/ \E id \in DOMAIN attempts : PushResult(c, id) \/ PushFailure(c, id)
         \/ \E p \in pushes : PushValidated(p)
  PROVE  /\ \E q \in Requests : Advances(q) /\ requests[q].stage # "absent"
         /\ UNCHANGED cancellations
<1>1. attempts \in Seq(AttemptRecord) /\ \A i \in DOMAIN attempts : attempts[i].request \in Requests
  BY Parts, AttemptTyped
<1>2. ASSUME NEW r \in Requests, ExecutorResolves(c, r)
      PROVE  /\ \E q \in Requests : Advances(q) /\ requests[q].stage # "absent"
             /\ UNCHANGED cancellations
  <2> DEFINE id == runs[c][r].id
  <2>1. id \in DOMAIN attempts
    BY <1>2, AssignedFacts, Zenon DEF ExecutorResolves, Assigned
  <2>2. PICK payload \in Payloads : ApplyFirstVerdict(id, FirstVerdict(id, payload))
    BY <1>2, Zenon DEF ExecutorResolves
  <2>3. UNCHANGED cancellations
    BY <1>2, Zenon DEF ExecutorResolves
  <2> HIDE DEF id
  <2> QED
    BY <1>1, <2>1, <2>2, <2>3, FirstVerdictAdvances, Zenon
<1>3. ASSUME NEW r \in Requests, CheckpointValidated(c, r)
      PROVE  /\ \E q \in Requests : Advances(q) /\ requests[q].stage # "absent"
             /\ UNCHANGED cancellations
  <2> DEFINE id == runs[c][r].id
             payload == runs[c][r].arg
  <2>1. id \in DOMAIN attempts
    BY <1>3, AssignedFacts, Zenon DEF CheckpointValidated, Assigned
  <2>2. ApplySecondVerdict(id, payload, SecondVerdict(id, payload)) /\ UNCHANGED <<results, cancellations>>
    BY <1>3, Zenon DEF CheckpointValidated
  <2> HIDE DEF id, payload
  <2> QED
    BY <1>1, <2>1, <2>2, SecondVerdictAdvances, Zenon
<1>4. ASSUME NEW id \in DOMAIN attempts, PushResult(c, id)
      PROVE  /\ \E q \in Requests : Advances(q) /\ requests[q].stage # "absent"
             /\ UNCHANGED cancellations
  <2>1. PICK payload \in Payloads : ApplyFirstVerdict(id, FirstVerdict(id, payload))
    BY <1>4 DEF PushResult
  <2> QED
    BY <1>1, <1>4, <2>1, FirstVerdictAdvances DEF PushResult
<1>5. ASSUME NEW p \in pushes, PushValidated(p)
      PROVE  /\ \E q \in Requests : Advances(q) /\ requests[q].stage # "absent"
             /\ UNCHANGED cancellations
  <2>1. p.id \in DOMAIN attempts
    BY DEF IInv, PushSound
  <2>2. ApplySecondVerdict(p.id, p.payload, SecondVerdict(p.id, p.payload)) /\ UNCHANGED <<results, cancellations>>
    BY <1>5 DEF PushValidated
  <2> QED
    BY <1>1, <2>1, <2>2, SecondVerdictAdvances
<1>6. ASSUME NEW id \in DOMAIN attempts, PushFailure(c, id)
      PROVE  /\ \E q \in Requests : Advances(q) /\ requests[q].stage # "absent"
             /\ UNCHANGED cancellations
  <2> DEFINE r == attempts[id].request
  <2>1. r \in Requests /\ requests[r].stage # "absent" /\ UNCHANGED <<results, cancellations>>
    BY <1>1, <1>6 DEF IInv, PushFailure
  <2>2. finalizeStage(r, requests[r], leases, "cancelled", "none") \/ UNCHANGED requests
    BY <1>6 DEF PushFailure
  <2> HIDE DEF r
  <2>3. Advances(r)
    <3>1. CASE UNCHANGED requests
      BY <2>1, <3>1 DEF Advances
    <3>2. CASE finalizeStage(r, requests[r], leases, "cancelled", "none")
      BY <2>1, <3>2, StoredDerived, FinalizeAdvances
    <3> QED
      BY <2>2, <3>1, <3>2
  <2> QED
    BY <2>1, <2>3
<1> QED
  BY <1>2, <1>3, <1>4, <1>5, <1>6

\* The end of a run settles a request that has not ended.
LEMMA RunEndsAdvances ==
  ASSUME IInv, NEW c \in Coordinators, NEW r \in Requests, RunEnds(c, r)
  PROVE  Advances(r) /\ requests[r].stage # "absent"
<1> DEFINE run == runs[c][r]
           stage == Settlement(run)[1]
           code == Settlement(run)[2]
<1>1. UNCHANGED results /\ run.pc = "ending"
  BY DEF RunEnds
<1>2. UNCHANGED requests \/ finalizeStage(r, requests[r], leases, stage, code)
  BY DEF RunEnds
<1>3. stage \in {"failed", "cancelled"}
  BY DEF Settlement
<1>4. requests[r].stage # "absent" /\ Derived(r, requests[r])
  BY <1>1, RunSubmitted, StoredDerived
<1> HIDE DEF run, stage, code
<1>5. CASE UNCHANGED requests
  BY <1>1, <1>4, <1>5 DEF Advances
<1>6. CASE finalizeStage(r, requests[r], leases, stage, code)
  BY <1>1, <1>3, <1>4, <1>6, FinalizeAdvances
<1> QED
  BY <1>2, <1>4, <1>5, <1>6

\* And acknowledges only what is cancelled already.
LEMMA RunEndsObeys ==
  ASSUME IInv, IInv', NEW c \in Coordinators, NEW r \in Requests, RunEnds(c, r)
  PROVE  Obeys
<1>1. UNCHANGED results
  BY DEF RunEnds
<1>2. Advances(r)
  BY RunEndsAdvances
<1>3. \/ cancellations' = cancellations
      \/ cancellations[r] = "requested" /\ cancellations' = [cancellations EXCEPT ![r] = "acknowledged"]
  BY DEF RunEnds, acknowledges
<1>4. CASE cancellations' = cancellations
  BY <1>2, <1>4, Visible
<1>5. CASE cancellations[r] = "requested" /\ cancellations' = [cancellations EXCEPT ![r] = "acknowledged"]
  <2>1. requests[r].stage = "cancelled"
    BY <1>5 DEF IInv, RequestsSound, RecordSound
  <2>2. requests'[r].stage = requests[r].stage
    BY <1>2, <2>1 DEF Advances, TERMINAL_STAGES
  <2>3. Status' = Status
    BY <1>2, <2>2, StatusMoves DEF Advances
  <2>4. Contract!Acknowledge(r)
    BY <1>1, <1>5, <2>3 DEF Contract!Acknowledge, Status
  <2> QED
    BY <2>4 DEF Obeys, Contract!Next
<1> QED
  BY <1>3, <1>4, <1>5

\* cancel settles a request that has neither completed nor failed.
LEMMA CancelAdvances ==
  ASSUME IInv, NEW c \in Coordinators, NEW r \in Requests, Cancel(c, r)
  PROVE  Advances(r) /\ requests[r].stage # "absent"
<1>1. /\ UNCHANGED results
      /\ finalizeStage(r, requests[r], leases, "cancelled", "none")
      /\ requests[r].stage \in REQUEST_STAGES \ {"completed", "failed"}
  BY DEF Cancel
<1>2. requests[r].stage # "absent" /\ Derived(r, requests[r])
  BY <1>1, StoredDerived DEF REQUEST_STAGES
<1> QED
  BY <1>1, <1>2, FinalizeAdvances

\* cancel records the cancellation and the stage in one step.
LEMMA CancelObeys ==
  ASSUME IInv, IInv', NEW c \in Coordinators, NEW r \in Requests, Cancel(c, r)
  PROVE  Obeys
<1> DEFINE entry == runs[c][r].pc # "none"
           record == IF cancellations[r] # "none" THEN cancellations[r]
                     ELSE IF entry \/ isActive(leases, r) THEN "requested" ELSE "acknowledged"
<1>1. /\ UNCHANGED results
      /\ finalizeStage(r, requests[r], leases, "cancelled", "none")
      /\ requests[r].stage \in REQUEST_STAGES \ {"completed", "failed"}
  BY DEF Cancel
<1>2. cancellations' = [cancellations EXCEPT ![r] = record]
  BY DEF Cancel
<1>3. requests[r].stage # "absent"
  BY CancelAdvances
<1>4. Advances(r)
  BY CancelAdvances
<1>5. cancellations \in [Requests -> {"none", "requested", "acknowledged"}]
  BY DEF IInv, TypeOK
<1>6. CASE cancellations[r] # "none"
  BY <1>2, <1>4, <1>5, <1>6, Visible
<1>7. CASE cancellations[r] = "none"
  <2>1. record \in {"requested", "acknowledged"} /\ cancellations'[r] = record
    BY <1>2, <1>5, <1>7
  <2> HIDE DEF record
  <2>2. requests'[r].stage = "cancelled"
    BY <2>1 DEF IInv, RequestsSound, RecordSound
  <2>3. statusOf(requests'[r].stage) = "cancelled" /\ statusOf(requests[r].stage) \in {"pending", "cancelled"}
    BY <1>1, <1>3, <2>2 DEF statusOf, TERMINAL_STAGES
  <2>4. Status' = [Status EXCEPT ![r] = "cancelled"] /\ Status[r] \in {"pending", "cancelled"}
    <3>1. Status' = [Status EXCEPT ![r] = statusOf(requests'[r].stage)]
      BY <1>4, StatusMoves DEF Advances
    <3> QED
      BY <2>3, <3>1 DEF Status
  <2>5. Contract!RequestCancellation(r)
    BY <1>1, <1>2, <1>7, <2>1, <2>4 DEF Contract!RequestCancellation, Status
  <2> QED
    BY <2>5 DEF Obeys, Contract!Next
<1> QED
  BY <1>6, <1>7

LEMMA DeadlinePassesAdvances ==
  ASSUME IInv, NEW r \in Requests, DeadlinePasses(r)
  PROVE  Advances(r) /\ UNCHANGED cancellations
<1>1. requests' = [requests EXCEPT ![r].deadline = "passed"] /\ UNCHANGED <<results, cancellations>>
  BY DEF DeadlinePasses
<1>2. \A q \in Requests : requests'[q].stage = requests[q].stage
  BY <1>1 DEF IInv, TypeOK, RequestRecord
<1> QED
  BY <1>1, <1>2 DEF Advances

-----------------------------------------------------------------------------
(* The specification.                                                      *)

\* What a crash leaves of the requests: between the two hops one of them
\* waits again, at its old cursor.
LEMMA CrashAdvances ==
  ASSUME IInv, NEW c \in Coordinators, Crash(c)
  PROVE  /\ UNCHANGED <<results, cancellations>>
         /\ UNCHANGED requests \/ \E r \in Requests : requests[r].stage # "absent" /\ Advances(r)
         /\ \A q \in Requests :
              /\ \/ requests'[q].stage = requests[q].stage
                 \/ requests[q].stage = "running" /\ requests'[q].stage = "queued"
              /\ requests'[q].currentSegment = requests[q].currentSegment
              /\ requests'[q].retryCount = requests[q].retryCount
<1>1. UNCHANGED <<results, cancellations>>
  BY DEF Crash
<1>2. ASSUME NEW r \in Requests, BetweenHops(c, r)
      PROVE  /\ requests[r].stage = "running" /\ requests'[r].stage = "queued"
             /\ requests'[r].currentSegment = requests[r].currentSegment
             /\ requests'[r].retryCount = requests[r].retryCount
             /\ \A q \in Requests \ {r} : requests'[q] = requests[q]
  BY <1>2 DEF BetweenHops, IInv, TypeOK, RequestRecord
<1>3. ASSUME NEW r \in Requests, BetweenHops(c, r)
      PROVE  requests[r].stage # "absent" /\ Advances(r)
  BY <1>1, <1>2, <1>3 DEF Advances, TERMINAL_STAGES
<1>4. UNCHANGED requests \/ \E r \in Requests : BetweenHops(c, r)
  BY DEF Crash
<1> QED
  BY <1>1, <1>2, <1>3, <1>4

LEMMA StepObeys == IInv /\ IInv' /\ [Next]_vars => Obeys
<1> SUFFICES ASSUME IInv, IInv', [Next]_vars PROVE Obeys
  OBVIOUS
<1>1. ASSUME NEW r \in Requests, Advances(r), UNCHANGED cancellations PROVE Obeys
  BY <1>1, Visible
<1>2. ASSUME NEW c \in Coordinators, NEW r \in Requests, Continuation(c, r) PROVE Obeys
  <2>1. CASE ExecutorResolves(c, r)
    BY <1>1, <2>1, ResultAdvances
  <2>2. CASE \/ AdvanceSegment(c, r) \/ AdvanceRefused(c, r) \/ ReturnVerdict(c, r)
             \/ RejectVerdict(c, r) \/ ExecutorFails(c, r)
    BY <1>1, <2>2, RunAdvances
  <2>3. CASE RunEnds(c, r)
    BY <2>3, RunEndsObeys
  <2>4. CASE ExecutionAborted(c, r) \/ RecoverySleepAborted(c, r)
    BY <2>4, Invisible DEF ExecutionAborted, RecoverySleepAborted, durable
  <2> QED
    BY <1>2, <2>1, <2>2, <2>3, <2>4 DEF Continuation
<1>3. CASE Call
  <2>1. ASSUME NEW c \in Coordinators, NEW r \in Requests, Submit(c, r) PROVE Obeys
    BY <1>1, <2>1, SubmitAdvances
  <2>2. ASSUME NEW c \in Coordinators, NEW r \in Requests, Recover(c, r) PROVE Obeys
    <3>1. requests[r].stage # "absent" /\ BeginRecovery(c, r)
      BY <2>2 DEF Recover, REQUEST_STAGES
    <3> QED
      BY <1>1, <3>1, BeginRecoveryAdvances
  <2>3. ASSUME NEW c \in Coordinators, NEW r \in Requests, Cancel(c, r) PROVE Obeys
    BY <2>3, CancelObeys
  <2>4. ASSUME NEW c \in Coordinators, NEW r \in Requests, CallerAborts(c, r) PROVE Obeys
    BY <2>4, Invisible DEF CallerAborts, durable
  <2>5. ASSUME NEW c \in Coordinators, NEW id \in DOMAIN attempts, PushResult(c, id) \/ PushFailure(c, id)
        PROVE  Obeys
    BY <1>1, <2>5, ResultAdvances
  <2>6. ASSUME NEW w \in Workers, RegisterWorker(w) \/ WorkerHeartbeat(w) \/ RemoveWorker(w) PROVE Obeys
    BY <2>6, Invisible DEF RegisterWorker, WorkerHeartbeat, RemoveWorker
  <2> QED
    BY <1>3, <2>1, <2>2, <2>3, <2>4, <2>5, <2>6 DEF Call
<1>4. CASE Task
  <2>1. ASSUME NEW c \in Coordinators, NEW r \in Requests, RecoveryPoll(c, r) PROVE Obeys
    <3>1. requests[r].stage # "absent" /\ BeginRecovery(c, r)
      BY <2>1, RunSubmitted DEF RecoveryPoll
    <3> QED
      BY <1>1, <3>1, BeginRecoveryAdvances
  <2>2. ASSUME NEW c \in Coordinators, NEW r \in Requests, RenewOwnership(c, r) \/ DeadlineTimer(c, r)
        PROVE  Obeys
    BY <2>2, Invisible DEF RenewOwnership, DeadlineTimer, durable
  <2>3. ASSUME NEW c \in Coordinators, NEW r \in Requests, DelayOver(c, r) PROVE Obeys
    BY <1>1, <2>3, RunAdvances
  <2>4. ASSUME NEW c \in Coordinators, NEW r \in Requests, CheckpointValidated(c, r) PROVE Obeys
    BY <1>1, <2>4, ResultAdvances
  <2>5. ASSUME NEW p \in pushes, PushValidated(p) PROVE Obeys
    <3>1. p.coordinator \in Coordinators
      BY DEF IInv, TypeOK
    <3> QED
      BY <1>1, <2>5, <3>1, ResultAdvances
  <2>6. ASSUME NEW r \in Requests, DeadlinePasses(r) PROVE Obeys
    BY <1>1, <2>6, DeadlinePassesAdvances
  <2>7. ASSUME NEW r \in Requests, LeaseGrowsOld(r) \/ ClaimExpires(r) PROVE Obeys
    BY <2>7, Invisible DEF LeaseGrowsOld, ClaimExpires
  <2>8. ASSUME NEW w \in Workers, HeartbeatTimeout(w) PROVE Obeys
    BY <2>8, Invisible DEF HeartbeatTimeout
  <2>9. ASSUME NEW r \in Requests, NEW s \in Segments, CheckpointExpires(r, s) PROVE Obeys
    BY <2>9, Invisible DEF CheckpointExpires
  <2>10. CASE CheckpointCleanup
    BY <2>10, Invisible DEF CheckpointCleanup
  <2> QED
    BY <1>4, <2>1, <2>2, <2>3, <2>4, <2>5, <2>6, <2>7, <2>8, <2>9, <2>10 DEF Task
<1>5. ASSUME NEW c \in Coordinators, Crash(c) PROVE Obeys
  BY <1>1, <1>5, Invisible, CrashAdvances
<1>6. CASE UNCHANGED vars
  BY <1>6, Invisible DEF vars
<1> QED
  BY <1>2, <1>3, <1>4, <1>5, <1>6 DEF Next

\* The coordinator keeps the contract with its applications: a request has one outcome, a result
\* comes with completion and only then, and a recorded cancellation has won, behind all runs,
\* retries, takeovers, crashes and late results of durable-coordinator-core-impl.ts.
THEOREM ImplementsRequestContract == Spec => KeepsContract
<1>1. Init => Contract!Init
  <2>1. statusOf("absent") = "unknown"
    BY DEF statusOf
  <2>2. Init => \A r \in Requests : requests[r].stage = "absent"
    BY DEF Init, NoRequest
  <2> QED
    BY <2>1, <2>2 DEF Init, Contract!Init
<1>2. IInv /\ IInv' /\ [Next]_vars => [Contract!Next]_(Contract!vars)
  BY StepObeys DEF Obeys
<1> QED
  BY <1>1, <1>2, Invariance, PTL DEF Spec, KeepsContract, Contract!Spec

\* The contract has no step that takes a submission back or leaves a terminal
\* stage.
LEMMA StagesStay ==
  ASSUME IInv, IInv', [Next]_vars, NEW r \in Requests
  PROVE  /\ requests[r].stage # "absent" => requests'[r].stage # "absent"
         /\ requests[r].stage \in TERMINAL_STAGES =>
              requests'[r].stage = requests[r].stage /\ results'[r] = results[r]
<1> DEFINE old == requests[r].stage
           new == requests'[r].stage
<1>1. old \in REQUEST_STAGES \cup {"absent"} /\ new \in REQUEST_STAGES \cup {"absent"}
  BY DEF IInv, TypeOK, RequestRecord
<1>2. Status[r] = statusOf(old) /\ Status'[r] = statusOf(new)
  BY DEF Status
<1>3. \A s \in REQUEST_STAGES \cup {"absent"} :
        /\ statusOf(s) = "unknown" <=> s = "absent"
        /\ statusOf(s) \in TERMINAL_STAGES <=> s \in TERMINAL_STAGES
        /\ s \in TERMINAL_STAGES => statusOf(s) = s
  BY DEF statusOf, REQUEST_STAGES, TERMINAL_STAGES
<1>4. results \in [Requests -> Nat]
  BY DEF IInv, TypeOK
<1>5. /\ Status[r] # "unknown" => Status'[r] # "unknown"
      /\ Status[r] \in TERMINAL_STAGES => Status'[r] = Status[r] /\ results'[r] = results[r]
  <2>1. Status \in [Requests -> {"unknown", "pending", "completed", "failed", "cancelled"}]
    <3>1. \A s : statusOf(s) \in {"unknown", "pending", "completed", "failed", "cancelled"}
      BY DEF statusOf, TERMINAL_STAGES
    <3> QED
      BY <3>1 DEF Status
  <2>2. CASE UNCHANGED Contract!vars
    BY <2>2 DEF Contract!vars, Status
  <2>3. ASSUME NEW q \in Requests, Contract!Accept(q)
        PROVE  Status[q] = "unknown" /\ UNCHANGED results
               /\ \E s \in {"pending", "failed"} : Status' = [Status EXCEPT ![q] = s]
    BY <2>3 DEF Contract!Accept, Status
  <2>4. ASSUME NEW q \in Requests, Contract!Complete(q)
        PROVE  Status[q] = "pending" /\ Status' = [Status EXCEPT ![q] = "completed"]
               /\ \E a : results' = [results EXCEPT ![q] = a]
    BY <2>4 DEF Contract!Complete, Status
  <2>5. ASSUME NEW q \in Requests, Contract!GiveUp(q)
        PROVE  Status[q] = "pending" /\ UNCHANGED results
               /\ \E s \in {"failed", "cancelled"} : Status' = [Status EXCEPT ![q] = s]
    BY <2>5 DEF Contract!GiveUp, Status
  <2>6. ASSUME NEW q \in Requests, Contract!RequestCancellation(q)
        PROVE  Status[q] \in {"pending", "cancelled"} /\ UNCHANGED results
               /\ Status' = [Status EXCEPT ![q] = "cancelled"]
    BY <2>6 DEF Contract!RequestCancellation, Status
  <2>7. ASSUME NEW q \in Requests, Contract!Acknowledge(q)
        PROVE  Status' = Status /\ UNCHANGED results
    BY <2>7 DEF Contract!Acknowledge, Status
  <2>8. \/ UNCHANGED Contract!vars
        \/ \E q \in Requests :
             \/ Contract!Accept(q) \/ Contract!Complete(q) \/ Contract!GiveUp(q)
             \/ Contract!RequestCancellation(q) \/ Contract!Acknowledge(q)
    BY StepObeys DEF Obeys, Contract!Next
  <2> QED
    BY <1>4, <2>1, <2>2, <2>3, <2>4, <2>5, <2>6, <2>7, <2>8 DEF TERMINAL_STAGES
<1> QED
  BY <1>1, <1>2, <1>3, <1>5

\* A request that has completed, failed or been cancelled stays so, and its
\* committed result is never replaced, whichever run, recovery, push or cancel
\* comes late.
THEOREM TerminalsFinal == Spec => TerminalIsFinal
<1>1. IInv /\ IInv' /\ [Next]_vars =>
        [\A r \in Requests :
           /\ requests[r].stage \in TERMINAL_STAGES => requests'[r].stage = requests[r].stage
           /\ results[r] # 0 => results'[r] = results[r]]_vars
  <2> SUFFICES ASSUME IInv, IInv', [Next]_vars, NEW r \in Requests
               PROVE  /\ requests[r].stage \in TERMINAL_STAGES => requests'[r].stage = requests[r].stage
                      /\ results[r] # 0 => results'[r] = results[r]
    OBVIOUS
  <2>1. results[r] # 0 => requests[r].stage \in TERMINAL_STAGES
    BY DEF IInv, RequestsSound, RecordSound, TERMINAL_STAGES
  <2> QED
    BY <2>1, StagesStay
<1> QED
  BY <1>1, Invariance, PTL DEF Spec, TerminalIsFinal

------------------------------------------------------------------------------
(***************************************************************************)
(* The second result: every segment continues from a checkpoint that an    *)
(* attempt at the segment before it produced.  The invariant that carries  *)
(* the proof is about leases: an attempt whose output was accepted holds   *)
(* none, so no late or pushed result can replace an output that a later    *)
(* segment was started from.                                               *)
(***************************************************************************)

\* The attempt that an active lease covers has not had a result accepted.
LeasesUnspent == \A r \in Requests : leases[r].id # 0 => attempts[leases[r].id].output = "none"

LineageInv == CheckpointLineage /\ LeasesUnspent

------------------------------------------------------------------------------
(* Steps that accept nothing and assign nothing                             *)

\* Outcomes may change; what an attempt is and produced does not.
AttemptsSame ==
  /\ DOMAIN attempts' = DOMAIN attempts
  /\ \A i \in DOMAIN attempts :
       /\ attempts'[i].request = attempts[i].request
       /\ attempts'[i].segment = attempts[i].segment
       /\ attempts'[i].input = attempts[i].input
       /\ attempts'[i].output = attempts[i].output

\* Checkpoints and leases only go away.
CheckpointsShrink ==
  \A r \in Requests, s \in Segments :
    checkpoints'[r][s].digest \in {checkpoints[r][s].digest, "none"}

Shrunk(ls) ==
  /\ ls \in [Requests -> LeaseRecord]
  /\ \A r \in Requests : ls[r].id \in {leases[r].id, 0}

\* A lease is only given to a new attempt, and the others only go away.
LeasesMove ==
  \/ Shrunk(leases') /\ DOMAIN attempts' = DOMAIN attempts
  \/ \E c \in Coordinators, r \in Requests : \E rec, ls, ws, run :
       Shrunk(ls) /\ Assign(c, r, rec, ls, ws, run)

LineageKept == LineageInv' /\ LeasesMove

LEMMA KeptLineage ==
  ASSUME IInv, LineageInv, AttemptsSame, CheckpointsShrink, Shrunk(leases')
  PROVE  LineageKept
<1>1. ASSUME NEW r \in Requests, NEW s \in Segments, checkpoints'[r][s].digest # "none"
      PROVE  \E i \in DOMAIN attempts' :
               /\ attempts'[i].request = r
               /\ attempts'[i].segment = s
               /\ attempts'[i].output = checkpoints'[r][s].digest
  <2>1. checkpoints'[r][s].digest = checkpoints[r][s].digest
    BY <1>1 DEF CheckpointsShrink
  <2>2. PICK i \in DOMAIN attempts :
          /\ attempts[i].request = r
          /\ attempts[i].segment = s
          /\ attempts[i].output = checkpoints[r][s].digest
    BY <1>1, <2>1 DEF LineageInv, CheckpointLineage
  <2> QED
    BY <2>1, <2>2 DEF AttemptsSame
<1>2. ASSUME NEW i \in DOMAIN attempts', attempts'[i].segment > 0
      PROVE  \E j \in DOMAIN attempts' :
               /\ j < i
               /\ attempts'[j].request = attempts'[i].request
               /\ attempts'[j].segment = attempts'[i].segment - 1
               /\ attempts'[j].output # "none"
               /\ attempts'[j].output = attempts'[i].input
  <2>1. i \in DOMAIN attempts /\ attempts[i].segment > 0
    BY <1>2 DEF AttemptsSame
  <2>2. PICK j \in DOMAIN attempts :
          /\ j < i
          /\ attempts[j].request = attempts[i].request
          /\ attempts[j].segment = attempts[i].segment - 1
          /\ attempts[j].output # "none"
          /\ attempts[j].output = attempts[i].input
    BY <2>1 DEF LineageInv, CheckpointLineage
  <2> QED
    BY <2>1, <2>2 DEF AttemptsSame
<1>3. LeasesUnspent'
  <2>1. ASSUME NEW r \in Requests, leases'[r].id # 0 PROVE attempts'[leases'[r].id].output = "none"
    <3>1. leases'[r].id = leases[r].id
      BY <2>1 DEF Shrunk
    <3>2. leases[r].id \in DOMAIN attempts
      BY <2>1, <3>1 DEF IInv, LeaseSound
    <3>3. attempts[leases[r].id].output = "none"
      BY <2>1, <3>1 DEF LineageInv, LeasesUnspent
    <3> QED
      BY <3>1, <3>2, <3>3 DEF AttemptsSame
  <2> QED
    BY <2>1 DEF LeasesUnspent
<1>4. CheckpointLineage'
  BY <1>1, <1>2 DEF CheckpointLineage
<1> QED
  BY <1>3, <1>4 DEF LineageInv, LineageKept, LeasesMove, AttemptsSame

LEMMA OutcomeOnly ==
  ASSUME IInv, NEW id \in DOMAIN attempts, NEW o, attempts' = updateAttemptOutcome(attempts, id, o)
  PROVE  AttemptsSame
<1>1. attempts \in Seq(AttemptRecord) /\ DOMAIN attempts = 1 .. Len(attempts)
  BY LenProperties DEF IInv, TypeOK
<1>2. \A i \in DOMAIN attempts : attempts[i] \in AttemptRecord
  BY <1>1, ElementOfSeq
<1> DEFINE new == [attempts[id] EXCEPT !.outcome = o]
<1>3. /\ new.request = attempts[id].request /\ new.segment = attempts[id].segment
      /\ new.input = attempts[id].input /\ new.output = attempts[id].output
  BY <1>2 DEF AttemptRecord
<1>4. attempts' = [attempts EXCEPT ![id] = new]
  BY DEF updateAttemptOutcome
<1> HIDE DEF new
<1>5. DOMAIN attempts' = DOMAIN attempts
      /\ \A i \in DOMAIN attempts : attempts'[i] = IF i = id THEN new ELSE attempts[i]
  BY <1>4
<1> QED
  BY <1>3, <1>5 DEF AttemptsSame

LEMMA Unchanged ==
  /\ UNCHANGED attempts => AttemptsSame
  /\ UNCHANGED checkpoints => CheckpointsShrink
  /\ IInv => Shrunk(leases)
BY DEF AttemptsSame, CheckpointsShrink, Shrunk, IInv, TypeOK, LeaseRecord

\* Reclaiming.
LEMMA Reclaimed ==
  ASSUME IInv, NEW ls, Shrunk(ls)
  PROVE  /\ \A r \in Requests : Shrunk(reclaimByRequest(ls, r))
         /\ \A w, g : Shrunk(reclaimByWorkerGeneration(ls, attempts, w, g))
         /\ \A ws, id : Shrunk(isolatedLeases(ws, ls, id))
<1>1. ASSUME NEW r \in Requests PROVE Shrunk(reclaimByRequest(ls, r))
  BY NothingTyped DEF Shrunk, reclaimByRequest
<1>2. ASSUME NEW w, NEW g PROVE Shrunk(reclaimByWorkerGeneration(ls, attempts, w, g))
  <2> DEFINE new == reclaimByWorkerGeneration(ls, attempts, w, g)
  <2>1. DOMAIN ls = Requests
    BY DEF Shrunk
  <2>2. new = [r \in Requests |->
                 IF ls[r].id # 0 /\ attempts[ls[r].id].worker = w /\ attempts[ls[r].id].gen = g
                   THEN NoLease ELSE ls[r]]
    BY <2>1 DEF reclaimByWorkerGeneration
  <2>3. \A r \in Requests : new[r] \in {ls[r], NoLease}
    BY <2>2
  <2>4. new \in [Requests -> LeaseRecord]
    BY <2>2, NothingTyped DEF Shrunk
  <2> HIDE DEF new
  <2>5. Shrunk(new)
    BY <2>3, <2>4, NothingTyped DEF Shrunk
  <2> QED
    BY <2>5 DEF new
<1>3. ASSUME NEW ws, NEW id PROVE Shrunk(isolatedLeases(ws, ls, id))
  BY <1>2 DEF isolatedLeases
<1> QED
  BY <1>1, <1>2, <1>3

\* finalizeStage.
LEMMA FinalizeShrinks ==
  ASSUME IInv, NEW r \in Requests, NEW rec, NEW ls, Shrunk(ls), NEW stage, NEW code,
         finalizeStage(r, rec, ls, stage, code)
  PROVE  CheckpointsShrink /\ Shrunk(leases')
<1>1. CASE isLegalTransition(rec.stage, stage)
  <2>1. leases' = reclaimByRequest(ls, r) /\ checkpoints' = [checkpoints EXCEPT ![r] = NoCheckpoints]
    BY <1>1 DEF finalizeStage
  <2>2. checkpoints \in [Requests -> [Segments -> CheckpointRecord]]
    BY DEF IInv, TypeOK
  <2> QED
    BY <2>1, <2>2, NothingTyped, Reclaimed DEF CheckpointsShrink
<1>2. CASE ~isLegalTransition(rec.stage, stage)
  BY <1>2 DEF finalizeStage, CheckpointsShrink
<1> QED
  BY <1>1, <1>2

------------------------------------------------------------------------------
(* Steps that assign or accept                                              *)

\* A new attempt continues from the checkpoint its segment may use.
LEMMA AssignLineage ==
  ASSUME IInv, LineageInv, NEW c \in Coordinators, NEW r \in Requests, NEW rec, NEW ls,
         Shrunk(ls), NEW ws,
         NEW run, run.segment \in Segments, PredecessorUsable(r, run.segment),
         Assign(c, r, rec, ls, ws, run)
  PROVE  LineageKept
<1> DEFINE id == Len(attempts) + 1
           input == IF run.segment = 0 THEN "none" ELSE checkpoints[r][run.segment - 1].digest
<1>1. PICK w \in availableWorkers(ws) :
        /\ attempts' = Append(attempts, [request |-> r, worker |-> w, gen |-> ws[w].gen,
                                         segment |-> run.segment, outcome |-> "none",
                                         input |-> input, output |-> "none"])
        /\ leases' = [ls EXCEPT ![r] = issue(id)]
        /\ UNCHANGED checkpoints
  BY DEF Assign
<1> DEFINE new == [request |-> r, worker |-> w, gen |-> ws[w].gen, segment |-> run.segment,
                   outcome |-> "none", input |-> input, output |-> "none"]
<1>2. attempts' = Append(attempts, new)
  BY <1>1
<1>3. new.request = r /\ new.segment = run.segment /\ new.input = input /\ new.output = "none"
  OBVIOUS
<1> HIDE DEF new
<1>4. /\ Len(attempts) \in Nat /\ DOMAIN attempts = 1 .. Len(attempts)
      /\ DOMAIN attempts' = 1 .. id
      /\ attempts'[id] = new
      /\ \A i \in DOMAIN attempts : attempts'[i] = attempts[i]
  <2>1. attempts \in Seq(AttemptRecord)
    BY DEF IInv, TypeOK
  <2>2. attempts \in Seq(AttemptRecord \cup {new})
    BY <2>1, SeqMonotonic
  <2> QED
    BY <1>2, <2>2, AppendProperties, LenProperties
<1>5. id \in Nat /\ id # 0 /\ id \notin DOMAIN attempts /\ \A i \in DOMAIN attempts : i < id
  BY <1>4
<1>6. ASSUME NEW q \in Requests, NEW s \in Segments, checkpoints'[q][s].digest # "none"
      PROVE  \E i \in DOMAIN attempts' :
               /\ attempts'[i].request = q
               /\ attempts'[i].segment = s
               /\ attempts'[i].output = checkpoints'[q][s].digest
  <2>1. PICK i \in DOMAIN attempts :
          /\ attempts[i].request = q
          /\ attempts[i].segment = s
          /\ attempts[i].output = checkpoints[q][s].digest
    BY <1>1, <1>6 DEF LineageInv, CheckpointLineage
  <2>2. i \in DOMAIN attempts' /\ attempts'[i] = attempts[i]
    BY <1>4
  <2> QED
    BY <1>1, <2>1, <2>2
<1>7. ASSUME NEW i \in DOMAIN attempts', attempts'[i].segment > 0
      PROVE  \E j \in DOMAIN attempts' :
               /\ j < i
               /\ attempts'[j].request = attempts'[i].request
               /\ attempts'[j].segment = attempts'[i].segment - 1
               /\ attempts'[j].output # "none"
               /\ attempts'[j].output = attempts'[i].input
  <2>1. CASE i \in DOMAIN attempts
    <3>1. PICK j \in DOMAIN attempts :
            /\ j < i
            /\ attempts[j].request = attempts[i].request
            /\ attempts[j].segment = attempts[i].segment - 1
            /\ attempts[j].output # "none"
            /\ attempts[j].output = attempts[i].input
      BY <1>4, <1>7, <2>1 DEF LineageInv, CheckpointLineage
    <3>2. j \in DOMAIN attempts' /\ attempts'[j] = attempts[j] /\ attempts'[i] = attempts[i]
      BY <1>4, <2>1
    <3> QED
      BY <3>1, <3>2
  <2>2. CASE i = id
    <3>1. run.segment > 0 /\ run.segment - 1 \in Segments
      BY <1>3, <1>4, <1>7, <2>2, CoordinatorAssumption DEF Segments
    <3>2. input = checkpoints[r][run.segment - 1].digest /\ input # "none"
      BY <3>1 DEF PredecessorUsable
    <3>3. PICK j \in DOMAIN attempts :
            /\ attempts[j].request = r
            /\ attempts[j].segment = run.segment - 1
            /\ attempts[j].output = input
      BY <3>1, <3>2 DEF LineageInv, CheckpointLineage
    <3>4. j \in DOMAIN attempts' /\ attempts'[j] = attempts[j] /\ j < i
      BY <1>4, <1>5, <2>2
    <3> QED
      BY <1>3, <1>4, <2>2, <3>2, <3>3, <3>4
  <2> QED
    BY <1>4, <2>1, <2>2
<1>8. ASSUME NEW q \in Requests, leases'[q].id # 0 PROVE attempts'[leases'[q].id].output = "none"
  <2>1. CASE q = r
    <3>1. leases'[q] = issue(id)
      BY <1>1, <2>1 DEF Shrunk
    <3> QED
      BY <1>3, <1>4, <3>1 DEF issue
  <2>2. CASE q # r
    <3>1. leases'[q] = ls[q]
      BY <1>1, <2>2 DEF Shrunk
    <3>2. leases'[q].id = leases[q].id
      BY <1>8, <3>1 DEF Shrunk
    <3>3. leases[q].id \in DOMAIN attempts /\ attempts[leases[q].id].output = "none"
      BY <1>8, <3>2 DEF IInv, LeaseSound, LineageInv, LeasesUnspent
    <3> QED
      BY <1>4, <3>2, <3>3
  <2> QED
    BY <2>1, <2>2
<1> HIDE DEF id, input
<1>9. LineageInv'
  BY <1>6, <1>7, <1>8 DEF LineageInv, CheckpointLineage, LeasesUnspent
<1> QED
  BY <1>9 DEF LineageKept, LeasesMove

\* One turn of the attempt loop.
LEMMA LoopTurnLineage ==
  ASSUME IInv, LineageInv, NEW c \in Coordinators, NEW r \in Requests, NEW rec, NEW ls,
         Shrunk(ls), NEW ws,
         NEW run, run.segment \in Segments, LoopTurn(c, r, rec, ls, ws, run)
  PROVE  LineageKept
<1> DEFINE cur == IF rec.stage = "retry-wait" THEN [rec EXCEPT !.stage = "queued"] ELSE rec
<1>1. CASE UNCHANGED <<attempts, checkpoints>> /\ leases' = ls
  BY <1>1, KeptLineage, Unchanged
<1>2. ASSUME NEW old, NEW stage \in {"failed", "cancelled"}, NEW code, UNCHANGED attempts,
             finalizeStage(r, old, ls, stage, code)
      PROVE  LineageKept
  BY <1>2, FinalizeShrinks, KeptLineage, Unchanged
<1>3. CASE PredecessorUsable(r, run.segment) /\ Assign(c, r, cur, ls, ws, run)
  <2> HIDE DEF cur
  <2> QED
    BY <1>3, AssignLineage
<1> HIDE DEF cur
<1> QED
  BY <1>1, <1>2, <1>3 DEF LoopTurn, cur

\* acceptResult after its await: the lease says that the attempt had no output before.
LEMMA SecondVerdictLineage ==
  ASSUME IInv, LineageInv, NEW id \in DOMAIN attempts, NEW payload \in CheckedPayloads,
         ApplySecondVerdict(id, payload, SecondVerdict(id, payload))
  PROVE  LineageKept
<1> DEFINE verdict == SecondVerdict(id, payload)
<1>1. /\ attempts \in Seq(AttemptRecord) /\ id \in 1 .. Len(attempts)
      /\ attempts[id] \in AttemptRecord
      /\ attempts[id].request \in Requests /\ attempts[id].segment \in Segments
  BY AttemptTyped DEF IInv, TypeOK
<1> PICK r \in Requests : r = attempts[id].request
  BY <1>1
<1> PICK s \in Segments : s = attempts[id].segment
  BY <1>1
<1>2. CASE verdict \in {"checkpoint-rejected", "checkpoint-conflict"}
  <2>1. leases' = isolatedLeases(workers, leases, id) /\ UNCHANGED <<attempts, checkpoints>>
    BY <1>2 DEF ApplySecondVerdict
  <2> QED
    BY <2>1, KeptLineage, Reclaimed, Unchanged
<1>3. CASE verdict = "cancelled"
  <2>1. finalizeStage(r, requests[r], leases, "cancelled", "none") /\ UNCHANGED attempts
    BY <1>3 DEF ApplySecondVerdict
  <2> QED
    BY <2>1, KeptLineage, FinalizeShrinks, Unchanged
<1>4. CASE verdict = "accepted"
  <2>1. /\ checkpoints' =
             IF checkpoints[r][s].digest = "none"
               THEN [checkpoints EXCEPT ![r][s] = [digest |-> payload, expired |-> FALSE]]
               ELSE checkpoints
        /\ attempts' = [attempts EXCEPT ![id].outcome = "completed", ![id].output = payload]
        /\ leases' = reclaim(leases, r, id)
    BY <1>4 DEF ApplySecondVerdict
  <2>2. /\ payload \in Digests
        /\ match(leases, r, id)
        /\ checkpoints[r][s].digest \in {"none", payload}
    <3>1. payload \in Digests
      BY <1>4, SecondVerdictFacts
    <3> QED
      BY <1>4, <3>1 DEF SecondVerdict
  <2>3. leases[r].id = id /\ id # 0 /\ attempts[id].output = "none"
    BY <2>2 DEF match, LineageInv, LeasesUnspent
  <2>4. leases' = reclaimByRequest(leases, r)
    BY <2>1, <2>2 DEF reclaim
  <2> DEFINE new == [attempts[id] EXCEPT !.outcome = "completed", !.output = payload]
  <2>5. /\ new.request = r /\ new.segment = s /\ new.input = attempts[id].input
        /\ new.output = payload
    BY <1>1 DEF AttemptRecord
  <2>6. attempts' = [attempts EXCEPT ![id] = new]
    BY <2>1
  <2> HIDE DEF new
  <2>7. /\ DOMAIN attempts' = DOMAIN attempts
        /\ attempts'[id] = new
        /\ \A i \in DOMAIN attempts \ {id} : attempts'[i] = attempts[i]
    BY <2>6
  <2>8. /\ checkpoints'[r][s].digest = payload
        /\ \A q \in Requests, t \in Segments :
             q # r \/ t # s => checkpoints'[q][t].digest = checkpoints[q][t].digest
    <3>1. checkpoints \in [Requests -> [Segments -> CheckpointRecord]]
      BY DEF IInv, TypeOK
    <3>2. CASE checkpoints[r][s].digest = "none"
      BY <2>1, <3>1, <3>2
    <3>3. CASE checkpoints[r][s].digest = payload /\ checkpoints' = checkpoints
      BY <3>3
    <3> QED
      BY <2>1, <2>2, <3>2, <3>3
  <2>9. "none" \notin Digests
    BY CoordinatorAssumption
  <2>10. ASSUME NEW q \in Requests, NEW t \in Segments, checkpoints'[q][t].digest # "none"
         PROVE  \E i \in DOMAIN attempts' :
                  /\ attempts'[i].request = q
                  /\ attempts'[i].segment = t
                  /\ attempts'[i].output = checkpoints'[q][t].digest
    <3>1. CASE q = r /\ t = s
      BY <2>5, <2>7, <2>8, <3>1
    <3>2. CASE q # r \/ t # s
      <4>1. PICK i \in DOMAIN attempts :
              /\ attempts[i].request = q
              /\ attempts[i].segment = t
              /\ attempts[i].output = checkpoints[q][t].digest
        BY <2>8, <2>10, <3>2 DEF LineageInv, CheckpointLineage
      <4>2. i # id
        BY <3>2, <4>1
      <4>3. i \in DOMAIN attempts' /\ attempts'[i] = attempts[i]
        BY <2>7, <4>2
      <4> QED
        BY <2>8, <3>2, <4>1, <4>3
    <3> QED
      BY <3>1, <3>2
  <2>11. ASSUME NEW i \in DOMAIN attempts', attempts'[i].segment > 0
         PROVE  \E j \in DOMAIN attempts' :
                  /\ j < i
                  /\ attempts'[j].request = attempts'[i].request
                  /\ attempts'[j].segment = attempts'[i].segment - 1
                  /\ attempts'[j].output # "none"
                  /\ attempts'[j].output = attempts'[i].input
    <3>1. /\ i \in DOMAIN attempts
          /\ attempts'[i].request = attempts[i].request
          /\ attempts'[i].segment = attempts[i].segment
          /\ attempts'[i].input = attempts[i].input
      BY <2>5, <2>7
    <3>2. PICK j \in DOMAIN attempts :
            /\ j < i
            /\ attempts[j].request = attempts[i].request
            /\ attempts[j].segment = attempts[i].segment - 1
            /\ attempts[j].output # "none"
            /\ attempts[j].output = attempts[i].input
      BY <2>11, <3>1 DEF LineageInv, CheckpointLineage
    <3>3. j # id
      BY <2>3, <3>2
    <3>4. j \in DOMAIN attempts' /\ attempts'[j] = attempts[j]
      BY <2>7, <3>3
    <3> QED
      BY <3>1, <3>2, <3>4
  <2>12. ASSUME NEW q \in Requests, leases'[q].id # 0
         PROVE  attempts'[leases'[q].id].output = "none"
    <3>1. leases \in [Requests -> LeaseRecord]
      BY DEF IInv, TypeOK, LeaseRecord
    <3>2. q # r /\ leases'[q] = leases[q]
      BY <2>4, <2>12, <3>1, NothingTyped DEF reclaimByRequest
    <3>3. /\ leases[q].id \in DOMAIN attempts
          /\ attempts[leases[q].id].request = q
          /\ attempts[leases[q].id].output = "none"
      BY <2>12, <3>2 DEF IInv, LeaseSound, LineageInv, LeasesUnspent
    <3>4. leases[q].id # id
      BY <3>2, <3>3
    <3> QED
      BY <2>7, <3>2, <3>3, <3>4
  <2>13. LineageInv'
    BY <2>10, <2>11, <2>12 DEF LineageInv, CheckpointLineage, LeasesUnspent
  <2>14. Shrunk(leases')
    BY <2>4, Unchanged, Reclaimed
  <2> QED
    BY <2>7, <2>13, <2>14 DEF LineageKept, LeasesMove
<1>5. CASE verdict \notin {"checkpoint-rejected", "checkpoint-conflict", "cancelled", "accepted"}
  <2>1. UNCHANGED <<attempts, checkpoints, leases>>
    BY <1>5 DEF ApplySecondVerdict
  <2> QED
    BY <2>1, KeptLineage, Unchanged
<1> HIDE DEF verdict
<1> QED
  BY <1>2, <1>3, <1>4, <1>5

\* acceptResult up to its await records outcomes only.
LEMMA FirstVerdictLineage ==
  ASSUME IInv, LineageInv, NEW id \in DOMAIN attempts, NEW payload,
         ApplyFirstVerdict(id, FirstVerdict(id, payload))
  PROVE  LineageKept
<1> DEFINE verdict == FirstVerdict(id, payload)
<1>1. attempts[id].request \in Requests
  BY AttemptTyped DEF IInv, TypeOK
<1> PICK r \in Requests : r = attempts[id].request
  BY <1>1
<1>2. CASE verdict = "committed"
  <2>1. /\ leases' = reclaimByRequest(leases, r)
        /\ attempts' = updateAttemptOutcome(attempts, id, "completed")
        /\ checkpoints' = [checkpoints EXCEPT ![r] = NoCheckpoints]
    BY <1>2 DEF ApplyFirstVerdict
  <2>2. CheckpointsShrink
    BY <2>1, NothingTyped DEF CheckpointsShrink, IInv, TypeOK
  <2> QED
    BY <2>1, <2>2, OutcomeOnly, KeptLineage, Reclaimed, Unchanged
<1>3. CASE verdict \in {"duplicate", "conflict"}
  <2>1. leases' = reclaimByRequest(leases, r) /\ UNCHANGED <<attempts, checkpoints>>
    BY <1>3 DEF ApplyFirstVerdict
  <2> QED
    BY <2>1, KeptLineage, Reclaimed, Unchanged
<1>4. CASE verdict = "cancelled"
  <2>1. finalizeStage(r, requests[r], leases, "cancelled", "none") /\ UNCHANGED attempts
    BY <1>4 DEF ApplyFirstVerdict
  <2> QED
    BY <2>1, KeptLineage, FinalizeShrinks, Unchanged
<1>5. CASE verdict = "checkpoint-rejected"
  <2>1. leases' = isolatedLeases(workers, leases, id) /\ UNCHANGED <<attempts, checkpoints>>
    BY <1>5 DEF ApplyFirstVerdict
  <2> QED
    BY <2>1, KeptLineage, Reclaimed, Unchanged
<1>6. CASE verdict \notin {"committed", "duplicate", "conflict", "cancelled", "checkpoint-rejected"}
  <2>1. UNCHANGED <<attempts, checkpoints, leases>>
    BY <1>6 DEF ApplyFirstVerdict
  <2> QED
    BY <2>1, KeptLineage, Unchanged
<1> HIDE DEF verdict
<1> QED
  BY <1>2, <1>3, <1>4, <1>5, <1>6
------------------------------------------------------------------------------
(* The actions                                                              *)

\* Steps that reclaim leases, finalize requests and record outcomes.
LEMMA FinalizeLineage ==
  ASSUME IInv, LineageInv, NEW r \in Requests, NEW rec, NEW ls, Shrunk(ls),
         NEW stage \in {"failed", "cancelled"}, NEW code,
         finalizeStage(r, rec, ls, stage, code),
         \/ UNCHANGED attempts
         \/ \E id \in DOMAIN attempts, o \in Outcomes : attempts' = updateAttemptOutcome(attempts, id, o)
  PROVE  LineageKept
<1>1. AttemptsSame
  BY OutcomeOnly, Unchanged
<1> QED
  BY <1>1, FinalizeShrinks, KeptLineage

LEMMA LeaseLineage ==
  ASSUME IInv, LineageInv, Shrunk(leases'), UNCHANGED checkpoints,
         \/ UNCHANGED attempts
         \/ \E id \in DOMAIN attempts, o \in Outcomes : attempts' = updateAttemptOutcome(attempts, id, o)
  PROVE  LineageKept
<1>1. AttemptsSame
  BY OutcomeOnly, Unchanged
<1> QED
  BY <1>1, KeptLineage, Unchanged

\* Steps that leave attempts, checkpoints and leases alone.
LEMMA StillLineage ==
  ASSUME IInv, LineageInv, UNCHANGED <<attempts, checkpoints, leases>>
  PROVE  LineageKept
BY KeptLineage, Unchanged

LEMMA BeginRecoveryLineage ==
  ASSUME IInv, LineageInv, NEW c \in Coordinators, NEW r \in Requests, BeginRecovery(c, r)
  PROVE  LineageKept
<1>1. CASE UNCHANGED <<attempts, checkpoints, leases>>
  BY <1>1, StillLineage
<1>2. ASSUME NEW stage, NEW code, terminalize(r, stage, code), UNCHANGED attempts
      PROVE  LineageKept
  <2>1. leases' = reclaimByRequest(leases, r) /\ checkpoints' = [checkpoints EXCEPT ![r] = NoCheckpoints]
    BY <1>2 DEF terminalize
  <2>2. CheckpointsShrink
    BY <2>1, NothingTyped DEF CheckpointsShrink, IInv, TypeOK
  <2> QED
    BY <1>2, <2>1, <2>2, KeptLineage, Reclaimed, Unchanged
<1>3. CASE LoopTurn(c, r, [requests[r] EXCEPT !.stage = "queued"], reclaimByRequest(leases, r),
                    workers, NewRun("recovery", resumeSegment(r)))
  <2> DEFINE run == NewRun("recovery", resumeSegment(r))
             rec == [requests[r] EXCEPT !.stage = "queued"]
             ls == reclaimByRequest(leases, r)
  <2>1. run.segment = requests[r].currentSegment
    BY DEF NewRun, NoRun, resumeSegment
  <2>2. requests[r].currentSegment \in Segments
    BY DEF IInv, TypeOK, RequestRecord
  <2>3. Shrunk(ls)
    BY Unchanged, Reclaimed
  <2>4. LoopTurn(c, r, rec, ls, workers, run)
    BY <1>3
  <2> HIDE DEF run, rec, ls
  <2> QED
    BY <2>1, <2>2, <2>3, <2>4, LoopTurnLineage
<1> QED
  BY <1>1, <1>2, <1>3 DEF BeginRecovery, durable

LEMMA SubmitLineage ==
  ASSUME IInv, LineageInv, NEW c \in Coordinators, NEW r \in Requests, Submit(c, r)
  PROVE  LineageKept
<1>1. PICK deadline \in {"none", "armed"}, aborted \in BOOLEAN :
        LoopTurn(c, r, NewRequest(deadline), leases, workers,
                 [NewRun("submit", 0) EXCEPT !.aborted = aborted])
  BY DEF Submit
<1> DEFINE run == [NewRun("submit", 0) EXCEPT !.aborted = aborted]
<1>2. run.segment \in Segments
  BY SegmentFacts DEF NewRun, NoRun
<1>3. LoopTurn(c, r, NewRequest(deadline), leases, workers, run)
  BY <1>1
<1> HIDE DEF run
<1> QED
  BY <1>2, <1>3, LoopTurnLineage, Unchanged

\* What a run does with its own request.
LEMMA RunLineage ==
  ASSUME IInv, LineageInv, NEW c \in Coordinators, NEW r \in Requests,
         \/ AdvanceSegment(c, r) \/ AdvanceRefused(c, r) \/ ReturnVerdict(c, r)
         \/ RejectVerdict(c, r) \/ ExecutorFails(c, r) \/ DelayOver(c, r) \/ RunEnds(c, r)
  PROVE  LineageKept
<1> DEFINE run == runs[c][r]
<1>1. run \in RunRecord /\ RunSound(r, run, attempts)
  BY DEF IInv, TypeOK
<1>2. run.pc \in {"decided", "executing"} => run.id \in DOMAIN attempts
  BY <1>1 DEF RunSound, Assigned
<1> HIDE DEF run
<1>3. Shrunk(leases) /\ Shrunk(reclaimByRequest(leases, r))
      /\ \A ws, id : Shrunk(isolatedLeases(ws, leases, id))
  BY Unchanged, Reclaimed
<1>4. ASSUME NEW rec, NEW ls, Shrunk(ls), NEW stage \in {"failed", "cancelled"}, NEW code,
             finalizeStage(r, rec, ls, stage, code),
             \/ UNCHANGED attempts
             \/ \E id \in DOMAIN attempts, o \in Outcomes : attempts' = updateAttemptOutcome(attempts, id, o)
      PROVE  LineageKept
  BY <1>4, FinalizeLineage
<1>5. CASE UNCHANGED <<attempts, checkpoints, leases>>
  BY <1>5, StillLineage
<1>6. CASE AdvanceSegment(c, r)
  <2> DEFINE next == run.segment + 1
             rec == [requests[r] EXCEPT !.stage = "queued", !.currentSegment = next]
             on == [run EXCEPT !.segment = next, !.attempt = 0, !.id = 0, !.arg = "none"]
  <2>1. LoopTurn(c, r, rec, leases, IdleAgain(run), on)
    BY <1>6 DEF AdvanceSegment, run
  <2>2. on.segment \in Segments
    <3>1. run.segment \in Segments /\ run.segment # FinalSegment
      BY <1>1, <1>6 DEF AdvanceSegment, run, RunRecord, RunSound
    <3>2. next \in Segments
      BY <3>1, SegmentFacts
    <3> HIDE DEF next
    <3> QED
      BY <1>1, <3>2 DEF RunRecord
  <2> HIDE DEF on, rec
  <2> QED
    BY <1>3, <2>1, <2>2, LoopTurnLineage
<1>7. CASE AdvanceRefused(c, r)
  BY <1>2, <1>3, <1>4, <1>5, <1>7 DEF AdvanceRefused, run, Outcomes
<1>8. CASE ReturnVerdict(c, r)
  BY <1>2, <1>3, <1>4, <1>5, <1>8 DEF ReturnVerdict, run, Outcomes
<1>9. CASE RejectVerdict(c, r)
  <2>1. /\ run.id \in DOMAIN attempts
        /\ attempts' = updateAttemptOutcome(attempts, run.id, "suppressed")
        /\ finalizeStage(r, requests[r], isolatedLeases(IdleAgain(run), leases, run.id),
                         "failed", acceptanceErrorCode(run.arg))
    BY <1>2, <1>9 DEF RejectVerdict, run
  <2> QED
    BY <1>3, <1>4, <2>1 DEF Outcomes
<1>10. CASE ExecutorFails(c, r)
  <2>1. run.id \in DOMAIN attempts
    BY <1>2, <1>10 DEF ExecutorFails, run
  <2>2. CASE /\ attempts' = updateAttemptOutcome(attempts, run.id, "failed")
             /\ leases' = reclaimByRequest(leases, r)
             /\ UNCHANGED checkpoints
    BY <1>3, <2>1, <2>2, LeaseLineage DEF Outcomes
  <2>3. ASSUME NEW kind,
               attempts' = updateAttemptOutcome(attempts, run.id, "failed"),
               finalizeStage(r, requests[r], reclaimByRequest(leases, r), "failed", kind)
        PROVE  LineageKept
    BY <1>3, <1>4, <2>1, <2>3 DEF Outcomes
  <2> QED
    BY <1>5, <1>10, <2>2, <2>3 DEF ExecutorFails, run
<1>11. CASE DelayOver(c, r)
  <2> DEFINE on == [run EXCEPT !.attempt = @ + 1]
  <2>1. CASE LoopTurn(c, r, requests[r], leases, workers, on)
    <3>1. on.segment \in Segments
      BY <1>1 DEF RunRecord
    <3> HIDE DEF on
    <3> QED
      BY <1>3, <2>1, <3>1, LoopTurnLineage
  <2> QED
    BY <1>5, <1>11, <2>1 DEF DelayOver, run
<1>12. CASE RunEnds(c, r)
  <2> DEFINE stage == Settlement(run)[1]
             code == Settlement(run)[2]
  <2>1. stage \in {"failed", "cancelled"}
    BY DEF Settlement
  <2>2. UNCHANGED attempts
    BY <1>12 DEF RunEnds
  <2>3. UNCHANGED <<checkpoints, leases>> \/ finalizeStage(r, requests[r], leases, stage, code)
    BY <1>12 DEF RunEnds, run
  <2> HIDE DEF stage, code
  <2> QED
    BY <1>3, <1>4, <1>5, <2>1, <2>2, <2>3
<1> QED
  BY <1>6, <1>7, <1>8, <1>9, <1>10, <1>11, <1>12

\* Results, verdicts and failures of attempts.
LEMMA ResultLineage ==
  ASSUME IInv, LineageInv, NEW c \in Coordinators,
         \/ \E r \in Requests : ExecutorResolves(c, r) \/ CheckpointValidated(c, r)
         \/ \E id \in DOMAIN attempts : PushResult(c, id) \/ PushFailure(c, id)
         \/ \E p \in pushes : PushValidated(p)
  PROVE  LineageKept
<1>1. ASSUME NEW r \in Requests, ExecutorResolves(c, r) PROVE LineageKept
  <2> DEFINE id == runs[c][r].id
  <2>1. id \in DOMAIN attempts
    BY <1>1, AssignedFacts, Zenon DEF ExecutorResolves, Assigned
  <2>2. PICK payload \in Payloads : ApplyFirstVerdict(id, FirstVerdict(id, payload))
    BY <1>1, Zenon DEF ExecutorResolves
  <2> HIDE DEF id
  <2> QED
    BY <2>1, <2>2, FirstVerdictLineage, Zenon
<1>2. ASSUME NEW r \in Requests, CheckpointValidated(c, r) PROVE LineageKept
  <2> DEFINE id == runs[c][r].id
             payload == runs[c][r].arg
  <2>1. id \in DOMAIN attempts /\ payload \in CheckedPayloads
    BY <1>2, AssignedFacts, ZenonT(30) DEF CheckpointValidated, Assigned, RunSound
  <2>2. ApplySecondVerdict(id, payload, SecondVerdict(id, payload))
    BY <1>2 DEF CheckpointValidated
  <2> HIDE DEF id, payload
  <2> QED
    BY <2>1, <2>2, SecondVerdictLineage, Zenon
<1>3. ASSUME NEW id \in DOMAIN attempts, PushResult(c, id) PROVE LineageKept
  BY <1>3, FirstVerdictLineage DEF PushResult
<1>4. ASSUME NEW p \in pushes, PushValidated(p) PROVE LineageKept
  <2>1. p.id \in DOMAIN attempts /\ p.payload \in CheckedPayloads
    BY DEF IInv, PushSound
  <2> QED
    BY <1>4, <2>1, SecondVerdictLineage DEF PushValidated
<1>5. ASSUME NEW id \in DOMAIN attempts, PushFailure(c, id) PROVE LineageKept
  <2>1. attempts[id].request \in Requests
    BY AttemptTyped DEF IInv, TypeOK
  <2> PICK r \in Requests : r = attempts[id].request
    BY <2>1
  <2>2. CASE /\ attempts' = updateAttemptOutcome(attempts, id, "cancelled")
             /\ finalizeStage(r, requests[r], leases, "cancelled", "none")
    BY <2>2, Unchanged, FinalizeLineage DEF Outcomes
  <2>3. CASE /\ attempts' = updateAttemptOutcome(attempts, id, "failed")
             /\ leases' \in {isolatedLeases(workers, reclaimByRequest(leases, r), id),
                             reclaimByRequest(leases, r)}
             /\ UNCHANGED checkpoints
    <3>1. Shrunk(reclaimByRequest(leases, r))
      BY Unchanged, Reclaimed
    <3>2. Shrunk(isolatedLeases(workers, reclaimByRequest(leases, r), id))
      BY <3>1, Reclaimed
    <3> QED
      BY <2>3, <3>1, <3>2, LeaseLineage DEF Outcomes
  <2> QED
    BY <1>5, <2>2, <2>3 DEF PushFailure
<1> QED
  BY <1>1, <1>2, <1>3, <1>4, <1>5

LEMMA CancelLineage ==
  ASSUME IInv, LineageInv, NEW c \in Coordinators, NEW r \in Requests, Cancel(c, r)
  PROVE  LineageKept
<1>1. finalizeStage(r, requests[r], leases, "cancelled", "none")
  BY DEF Cancel
<1>2. \/ UNCHANGED attempts
      \/ isActive(leases, r) /\ attempts' = updateAttemptOutcome(attempts, leases[r].id, "cancelled")
  BY DEF Cancel
<1>3. isActive(leases, r) => leases[r].id \in DOMAIN attempts
  BY DEF IInv, LeaseSound, isActive
<1> QED
  BY <1>1, <1>2, <1>3, Unchanged, FinalizeLineage DEF Outcomes

\* Workers come and go, leases and checkpoints run out.
LEMMA OutsideLineage ==
  ASSUME IInv, LineageInv,
         \/ \E w \in Workers : RegisterWorker(w) \/ RemoveWorker(w) \/ HeartbeatTimeout(w)
         \/ \E r \in Requests : LeaseGrowsOld(r)
         \/ \E r \in Requests, s \in Segments : CheckpointExpires(r, s)
         \/ CheckpointCleanup
  PROVE  LineageKept
<1>0. /\ leases \in [Requests -> LeaseRecord]
      /\ checkpoints \in [Requests -> [Segments -> CheckpointRecord]]
  BY DEF IInv, TypeOK, LeaseRecord
<1>1. ASSUME NEW w \in Workers, RegisterWorker(w) \/ RemoveWorker(w) \/ HeartbeatTimeout(w)
      PROVE  LineageKept
  <2>1. UNCHANGED <<attempts, checkpoints>>
    BY <1>1 DEF RegisterWorker, RemoveWorker, HeartbeatTimeout
  <2>2. leases' \in {leases, reclaimByWorkerGeneration(leases, attempts, w, workers[w].gen)}
    BY <1>1 DEF RegisterWorker, RemoveWorker, HeartbeatTimeout
  <2>3. Shrunk(leases')
    BY <2>2, Unchanged, Reclaimed
  <2> QED
    BY <2>1, <2>3, LeaseLineage
<1>2. ASSUME NEW r \in Requests, LeaseGrowsOld(r) PROVE LineageKept
  <2>1. leases' = [leases EXCEPT ![r] = Older(leases[r])] /\ UNCHANGED <<attempts, checkpoints>>
    BY <1>2 DEF LeaseGrowsOld
  <2>2. Older(leases[r]) \in LeaseRecord /\ Older(leases[r]).id = leases[r].id
    BY <1>0 DEF Older, LeaseRecord, LeaseAges
  <2>3. Shrunk(leases')
    BY <1>0, <2>1, <2>2 DEF Shrunk
  <2> QED
    BY <2>1, <2>3, LeaseLineage
<1>3. ASSUME NEW r \in Requests, NEW s \in Segments, CheckpointExpires(r, s) PROVE LineageKept
  <2>1. checkpoints' = [checkpoints EXCEPT ![r][s].expired = TRUE] /\ UNCHANGED <<attempts, leases>>
    BY <1>3 DEF CheckpointExpires
  <2>2. CheckpointsShrink
    BY <1>0, <2>1 DEF CheckpointsShrink, CheckpointRecord
  <2> QED
    BY <2>1, <2>2, KeptLineage, Unchanged
<1>4. CASE CheckpointCleanup
  <2>1. CheckpointsShrink /\ UNCHANGED <<attempts, leases>>
    BY <1>4 DEF CheckpointCleanup, CheckpointsShrink, NoCheckpoint
  <2> QED
    BY <2>1, KeptLineage, Unchanged
<1> QED
  BY <1>1, <1>2, <1>3, <1>4

------------------------------------------------------------------------------
(* The specification                                                        *)

LEMMA StepLineage == IInv /\ LineageInv /\ [Next]_vars => LineageKept
<1> SUFFICES ASSUME IInv, LineageInv, [Next]_vars PROVE LineageKept
  OBVIOUS
<1>1. CASE UNCHANGED <<attempts, checkpoints, leases>>
  BY <1>1, StillLineage
<1>2. ASSUME NEW c \in Coordinators, NEW r \in Requests, Continuation(c, r) PROVE LineageKept
  <2>1. CASE ExecutionAborted(c, r) \/ RecoverySleepAborted(c, r)
    BY <1>1, <2>1 DEF ExecutionAborted, RecoverySleepAborted, durable
  <2> QED
    BY <1>2, <2>1, ResultLineage, RunLineage DEF Continuation
<1>3. CASE Call
  <2>1. ASSUME NEW c \in Coordinators, NEW r \in Requests, Recover(c, r) PROVE LineageKept
    BY <2>1, BeginRecoveryLineage DEF Recover
  <2>2. ASSUME NEW c \in Coordinators, NEW r \in Requests, CallerAborts(c, r) PROVE LineageKept
    BY <1>1, <2>2 DEF CallerAborts, durable
  <2>3. ASSUME NEW w \in Workers, WorkerHeartbeat(w) PROVE LineageKept
    BY <1>1, <2>3 DEF WorkerHeartbeat
  <2> QED
    BY <1>3, <2>1, <2>2, <2>3, SubmitLineage, CancelLineage, ResultLineage, OutsideLineage DEF Call
<1>4. CASE Task
  <2>1. ASSUME NEW c \in Coordinators, NEW r \in Requests, RecoveryPoll(c, r) PROVE LineageKept
    BY <2>1, BeginRecoveryLineage DEF RecoveryPoll
  <2>2. ASSUME NEW c \in Coordinators, NEW r \in Requests, RenewOwnership(c, r) \/ DeadlineTimer(c, r)
        PROVE  LineageKept
    BY <1>1, <2>2 DEF RenewOwnership, DeadlineTimer, durable
  <2>3. ASSUME NEW r \in Requests, DeadlinePasses(r) \/ ClaimExpires(r) PROVE LineageKept
    BY <1>1, <2>3 DEF DeadlinePasses, ClaimExpires
  <2>4. ASSUME NEW p \in pushes, PushValidated(p) PROVE LineageKept
    <3>1. p.coordinator \in Coordinators
      BY DEF IInv, TypeOK
    <3> QED
      BY <2>4, <3>1, ResultLineage
  <2> QED
    BY <1>4, <2>1, <2>2, <2>3, <2>4, RunLineage, ResultLineage, OutsideLineage DEF Task
<1>5. ASSUME NEW c \in Coordinators, Crash(c) PROVE LineageKept
  BY <1>1, <1>5 DEF Crash
<1>6. CASE UNCHANGED vars
  BY <1>1, <1>6 DEF vars
<1> QED
  BY <1>2, <1>3, <1>4, <1>5, <1>6 DEF Next

\* A segment is only ever started from what an attempt at the segment before it produced and had
\* accepted, and every stored checkpoint is such an output: no retry, takeover, late or pushed
\* result, expiry or crash breaks the chain (durable-coordinator-core-impl.ts,
\* executeSegmentWithRetry and acceptResult).
THEOREM Lineage == Spec => []CheckpointLineage
<1>1. Init => LineageInv
  <2>1. Init => DOMAIN attempts = {}
    BY EmptySeq, LenProperties DEF Init
  <2> QED
    BY <2>1 DEF Init, LineageInv, CheckpointLineage, LeasesUnspent, NoCheckpoints, NoCheckpoint,
                NoLease
<1>2. IInv /\ LineageInv /\ [Next]_vars => LineageInv'
  BY StepLineage DEF LineageKept
<1>3. LineageInv => CheckpointLineage
  BY DEF LineageInv
<1> QED
  BY <1>1, <1>2, <1>3, Invariance, PTL DEF Spec


------------------------------------------------------------------------------
(***************************************************************************)
(* What a step does to the runs.  New work comes from a turn of the        *)
(* attempt loop alone: every other step leaves each run where it was,      *)
(* aborts it, or takes it further towards its end.                         *)
(***************************************************************************)

\* The run executes a segment, or waits to execute it again.
Working(run) == run.pc = "delay" \/ Assigned(run)

\* A run that was old and is new has taken up nothing new.
Onward(old, new) ==
  /\ new.pc # "none" => old.pc # "none" /\ new.mode = old.mode
  /\ InRequest(new) => InRequest(old)
  /\ Working(new) => Working(old) /\ new.segment = old.segment
  /\ Assigned(new) => Assigned(old) /\ new.id = old.id

RunsGoOn == \A c \in Coordinators, r \in Requests : Onward(runs[c][r], runs'[c][r])

\* Requests keep their place and their count of retries, attempts what they are.
ProgressKept ==
  /\ \A r \in Requests :
       /\ requests'[r].currentSegment = requests[r].currentSegment
       /\ requests'[r].retryCount = requests[r].retryCount
  /\ SameAttempts

\* A run that stays, goes away, is aborted or ends.
LEMMA OnwardRuns ==
  ASSUME NEW old \in RunRecord
  PROVE  /\ Onward(old, old)
         /\ Onward(old, NoRun)
         /\ \A new \in RunRecord :
              AbortedFrom(new, old) /\ new.mode = old.mode => Onward(old, new)
         /\ InRequest(old) => \A how : Onward(old, Ending(old, how))
<1>1. Onward(old, old)
  BY DEF Onward
<1>2. Onward(old, NoRun)
  <2>1. NoRun.pc = "none"
    BY DEF NoRun
  <2> QED
    BY <2>1 DEF Onward, InRequest, Working, Assigned
<1>3. \A new \in RunRecord : AbortedFrom(new, old) /\ new.mode = old.mode => Onward(old, new)
  BY DEF AbortedFrom, Onward, InRequest, Working, Assigned
<1>4. ASSUME InRequest(old), NEW how
      PROVE  Onward(old, Ending(old, how))
  <2>1. Ending(old, how).pc = "ending" /\ Ending(old, how).mode = old.mode
    BY DEF Ending, RunRecord
  <2> QED
    BY <1>4, <2>1 DEF Onward, InRequest, Working, Assigned
<1> QED
  BY <1>1, <1>2, <1>3, <1>4

\* One run goes on, the others stay.
LEMMA OneRunOnward ==
  ASSUME IInv, NEW c \in Coordinators, NEW r \in Requests, NEW run,
         Onward(runs[c][r], run), SetRun(c, r, run)
  PROVE  RunsGoOn
<1>1. runs \in [Coordinators -> [Requests -> RunRecord]]
  BY Parts
<1>2. runs' = [runs EXCEPT ![c] = [runs[c] EXCEPT ![r] = run]]
  BY DEF SetRun
<1>3. ASSUME NEW d \in Coordinators, NEW q \in Requests
      PROVE  runs'[d][q] = IF d = c /\ q = r THEN run ELSE runs[d][q]
  BY <1>1, <1>2
<1> QED
  BY <1>1, <1>3, OnwardRuns DEF RunsGoOn

LEMMA RunsStay ==
  ASSUME IInv, UNCHANGED runs
  PROVE  RunsGoOn
BY Parts, OnwardRuns DEF RunsGoOn

\* Requests and attempts that do not change.
LEMMA ProgressStays ==
  ASSUME IInv, UNCHANGED <<requests, attempts>>
  PROVE  ProgressKept
BY AttemptsAfter DEF ProgressKept

\* finalizeStage writes the stage and the error code of one record.
LEMMA FinalizeKeepsProgress ==
  ASSUME IInv, NEW r \in Requests, NEW rec \in RequestRecord, NEW ls, NEW stage, NEW code,
         finalizeStage(r, rec, ls, stage, code)
  PROVE  /\ requests'[r].currentSegment = rec.currentSegment
         /\ requests'[r].retryCount = rec.retryCount
         /\ \A q \in Requests \ {r} : requests'[q] = requests[q]
<1>1. requests \in [Requests -> RequestRecord]
  BY DEF IInv, TypeOK
<1> DEFINE new == [rec EXCEPT !.stage = stage, !.lastErrorCode = code]
<1>2. new.currentSegment = rec.currentSegment /\ new.retryCount = rec.retryCount
  BY DEF RequestRecord
<1>3. requests' = [requests EXCEPT ![r] = new] \/ requests' = [requests EXCEPT ![r] = rec]
  BY DEF finalizeStage
<1> HIDE DEF new
<1> QED
  BY <1>1, <1>2, <1>3

\* A terminal record stays as it is, another one takes the stage if that is legal.
LEMMA FinalizeStages ==
  ASSUME IInv, NEW r \in Requests, NEW rec \in RequestRecord, NEW ls, NEW stage, NEW code,
         finalizeStage(r, rec, ls, stage, code)
  PROVE  \/ requests'[r].stage = rec.stage /\ ~isLegalTransition(rec.stage, stage)
         \/ requests'[r].stage = stage /\ rec.stage \notin TERMINAL_STAGES
<1>1. requests \in [Requests -> RequestRecord]
  BY DEF IInv, TypeOK
<1> DEFINE new == [rec EXCEPT !.stage = stage, !.lastErrorCode = code]
<1>2. new.stage = stage
  BY DEF RequestRecord
<1>3. isLegalTransition(rec.stage, stage) => rec.stage \notin TERMINAL_STAGES
  BY DEF isLegalTransition, TRANSITIONS, TERMINAL_STAGES, REQUEST_STAGES
<1>4. \/ isLegalTransition(rec.stage, stage) /\ requests' = [requests EXCEPT ![r] = new]
      \/ ~isLegalTransition(rec.stage, stage) /\ requests' = [requests EXCEPT ![r] = rec]
  BY DEF finalizeStage
<1> HIDE DEF new
<1> QED
  BY <1>1, <1>2, <1>3, <1>4

\* A request is settled and perhaps one outcome recorded.
LEMMA SettlingKeepsProgress ==
  ASSUME IInv, NEW r \in Requests, NEW ls, NEW stage, NEW code,
         finalizeStage(r, requests[r], ls, stage, code) \/ UNCHANGED requests,
         \/ UNCHANGED attempts
         \/ \E id \in DOMAIN attempts, o \in Outcomes : attempts' = updateAttemptOutcome(attempts, id, o)
  PROVE  ProgressKept
<1>1. requests[r] \in RequestRecord
  BY DEF IInv, TypeOK
<1>2. SameAttempts
  BY AttemptsAfter
<1>3. \A q \in Requests :
        /\ requests'[q].currentSegment = requests[q].currentSegment
        /\ requests'[q].retryCount = requests[q].retryCount
  BY <1>1, FinalizeKeepsProgress
<1> QED
  BY <1>2, <1>3 DEF ProgressKept


------------------------------------------------------------------------------
(* The steps without a turn of the loop                                     *)

\* The continuations, timers and calls that move the run of c for r and start
\* nothing.
OwnStep(c, r) ==
  \/ ExecutorResolves(c, r) \/ CheckpointValidated(c, r) \/ ExecutorFails(c, r)
  \/ ExecutionAborted(c, r) \/ RecoverySleepAborted(c, r) \/ AdvanceRefused(c, r)
  \/ ReturnVerdict(c, r) \/ RejectVerdict(c, r) \/ RunEnds(c, r)
  \/ RenewOwnership(c, r) \/ DeadlineTimer(c, r) \/ Cancel(c, r) \/ CallerAborts(c, r)

\* What happens outside the runs.
OutsideStep ==
  \/ \E c \in Coordinators, id \in DOMAIN attempts : PushResult(c, id) \/ PushFailure(c, id)
  \/ \E p \in pushes : PushValidated(p)
  \/ \E w \in Workers :
       RegisterWorker(w) \/ WorkerHeartbeat(w) \/ RemoveWorker(w) \/ HeartbeatTimeout(w)
  \/ \E r \in Requests : DeadlinePasses(r) \/ LeaseGrowsOld(r) \/ ClaimExpires(r)
  \/ \E r \in Requests, s \in Segments : CheckpointExpires(r, s)
  \/ CheckpointCleanup

\* A step is one of these, a crash, or starts with a turn of the loop.
LEMMA StepCases ==
  ASSUME [Next]_vars
  PROVE  \/ \E c \in Coordinators, r \in Requests : OwnStep(c, r)
         \/ OutsideStep
         \/ \E c \in Coordinators : Crash(c)
         \/ \E c \in Coordinators, r \in Requests :
              \/ Submit(c, r)
              \/ Recover(c, r) \/ RecoveryPoll(c, r)
              \/ AdvanceSegment(c, r)
              \/ DelayOver(c, r)
         \/ UNCHANGED vars
<1>1. CASE \E c \in Coordinators, r \in Requests : Continuation(c, r)
  BY <1>1 DEF Continuation, OwnStep
<1>2. CASE Call
  BY <1>2 DEF Call, OwnStep, OutsideStep
<1>3. CASE ~ContinuationPending /\ Task
  BY <1>3 DEF Task, OwnStep, OutsideStep
<1> QED
  BY <1>1, <1>2, <1>3 DEF Next

\* The run on its way through acceptResult.
AtVerdict(run, pc, arg) == [run EXCEPT !.pc = pc, !.arg = arg]

LEMMA AtVerdictOnward ==
  ASSUME NEW run \in RunRecord, Assigned(run), NEW pc \in {"validating", "decided"}, NEW arg
  PROVE  Onward(run, AtVerdict(run, pc, arg))
<1> DEFINE new == AtVerdict(run, pc, arg)
<1>1. new.pc = pc /\ new.mode = run.mode /\ new.id = run.id /\ new.segment = run.segment
  BY DEF AtVerdict, RunRecord
<1> HIDE DEF new
<1>2. Onward(run, new)
  BY <1>1 DEF Onward, InRequest, Working, Assigned
<1> QED
  BY <1>2 DEF new

LEMMA DecidingOnward ==
  ASSUME IInv, NEW c \in Coordinators, NEW r \in Requests,
         ExecutorResolves(c, r) \/ CheckpointValidated(c, r)
  PROVE  \E run : Onward(runs[c][r], run) /\ SetRun(c, r, run)
<1> PICK run \in RunRecord : run = runs[c][r]
  BY Parts
<1>1. CASE ExecutorResolves(c, r)
  <2>1. PICK payload \in Payloads :
          /\ run.pc = "executing"
          /\ SetRun(c, r, IF FirstVerdict(run.id, payload) = "validate"
                            THEN [run EXCEPT !.pc = "validating", !.arg = payload]
                            ELSE [run EXCEPT !.pc = "decided",
                                             !.arg = FirstVerdict(run.id, payload)])
    BY <1>1, Zenon DEF ExecutorResolves
  <2> DEFINE verdict == FirstVerdict(run.id, payload)
  <2>2. Assigned(run)
    BY <2>1 DEF Assigned
  <2>3. CASE verdict = "validate"
    <3>1. SetRun(c, r, AtVerdict(run, "validating", payload))
      BY <2>1, <2>3 DEF AtVerdict
    <3> QED
      BY <2>2, <3>1, AtVerdictOnward
  <2>4. CASE verdict # "validate"
    <3>1. SetRun(c, r, AtVerdict(run, "decided", verdict))
      BY <2>1, <2>4 DEF AtVerdict
    <3> HIDE DEF verdict
    <3> QED
      BY <2>2, <3>1, AtVerdictOnward
  <2> QED
    BY <2>3, <2>4, Zenon
<1>2. CASE CheckpointValidated(c, r)
  <2> DEFINE verdict == SecondVerdict(run.id, run.arg)
  <2>1. run.pc = "validating" /\ SetRun(c, r, AtVerdict(run, "decided", verdict))
    BY <1>2 DEF CheckpointValidated, AtVerdict
  <2>2. Assigned(run)
    BY <2>1 DEF Assigned
  <2> HIDE DEF verdict
  <2> QED
    BY <2>1, <2>2, AtVerdictOnward
<1> QED
  BY <1>1, <1>2

\* A step of one run's own starts nothing.
LEMMA OwnStepRuns ==
  ASSUME IInv, NEW c \in Coordinators, NEW r \in Requests, OwnStep(c, r)
  PROVE  RunsGoOn
<1> DEFINE run == runs[c][r]
<1>1. run \in RunRecord
  BY Parts
<1> HIDE DEF run
<1>2. ASSUME InRequest(run), NEW how, SetRun(c, r, Ending(run, how)) PROVE RunsGoOn
  BY <1>1, <1>2, OnwardRuns, OneRunOnward DEF run
<1>3. ASSUME SetRun(c, r, NoRun) PROVE RunsGoOn
  BY <1>1, <1>3, OnwardRuns, OneRunOnward DEF run
<1>4. ASSUME NEW kind \in {"user", "deadline", "recovery-ownership"},
             NEW new \in AbortByCall(run, kind) \cup {[Abort(run, kind) EXCEPT !.lost = TRUE]},
             SetRun(c, r, new)
      PROVE  RunsGoOn
  <2>1. new \in RunRecord /\ AbortedFrom(new, run)
    BY <1>1, AbortTyped
  <2>2. new.mode = run.mode
    BY <1>1 DEF AbortByCall, Abort, RunRecord
  <2> QED
    BY <1>1, <1>4, <2>1, <2>2, OnwardRuns, OneRunOnward DEF run
<1>5. CASE ExecutorResolves(c, r) \/ CheckpointValidated(c, r)
  BY <1>5, DecidingOnward, OneRunOnward
<1>7. CASE ExecutorFails(c, r)
  <2> DEFINE waiting == [run EXCEPT !.pc = "delay", !.id = 0]
  <2>1. /\ run.pc = "executing"
        /\ \/ \E how : SetRun(c, r, Ending(run, how))
           \/ SetRun(c, r, waiting)
    BY <1>7 DEF ExecutorFails, run
  <2>2. waiting.pc = "delay" /\ waiting.mode = run.mode /\ waiting.segment = run.segment
    BY <1>1 DEF RunRecord
  <2> HIDE DEF waiting
  <2>3. Onward(run, waiting)
    BY <2>1, <2>2 DEF Onward, InRequest, Working, Assigned
  <2>4. InRequest(run)
    BY <2>1 DEF InRequest
  <2> QED
    BY <1>2, <2>1, <2>3, <2>4, OneRunOnward DEF run
<1>8. CASE \/ ExecutionAborted(c, r) \/ AdvanceRefused(c, r) \/ ReturnVerdict(c, r)
           \/ RejectVerdict(c, r)
  <2>1. run.pc \in {"rejecting", "decided"} /\ \E how : SetRun(c, r, Ending(run, how))
    BY <1>8 DEF ExecutionAborted, AdvanceRefused, ReturnVerdict, RejectVerdict, run
  <2> QED
    BY <1>2, <2>1 DEF InRequest
<1>9. CASE RecoverySleepAborted(c, r) \/ RunEnds(c, r)
  BY <1>3, <1>9 DEF RecoverySleepAborted, RunEnds
<1>10. CASE RenewOwnership(c, r)
  <2>1. CASE UNCHANGED runs
    BY <2>1, RunsStay
  <2>2. CASE ~UNCHANGED runs
    <3> DEFINE kind == IF run.aborted THEN run.cancelKind ELSE "recovery-ownership"
    <3>1. SetRun(c, r, [Abort(run, kind) EXCEPT !.lost = TRUE])
      BY <1>10, <2>2 DEF RenewOwnership, run
    <3>2. kind \in {"user", "deadline", "recovery-ownership"}
      BY <1>1 DEF RunRecord
    <3> HIDE DEF kind
    <3> QED
      BY <1>4, <3>1, <3>2
  <2> QED
    BY <2>1, <2>2
<1>11. CASE DeadlineTimer(c, r) \/ Cancel(c, r) \/ CallerAborts(c, r)
  <2>1. \/ UNCHANGED runs
        \/ \E kind \in {"user", "deadline", run.cancelKind} :
             \E new \in AbortByCall(run, kind) : SetRun(c, r, new)
    BY <1>11 DEF DeadlineTimer, Cancel, CallerAborts, AbortByCall, run
  <2>2. run.cancelKind \in {"user", "deadline", "recovery-ownership"}
    BY <1>1 DEF RunRecord
  <2> QED
    BY <1>4, <2>1, <2>2, RunsStay
<1> QED
  BY <1>5, <1>7, <1>8, <1>9, <1>10, <1>11 DEF OwnStep

\* acceptResult up to its await keeps every request's place.
LEMMA FirstVerdictProgress ==
  ASSUME IInv, NEW id \in DOMAIN attempts, NEW payload \in Payloads,
         ApplyFirstVerdict(id, FirstVerdict(id, payload))
  PROVE  ProgressKept
<1> DEFINE r == attempts[id].request
           verdict == FirstVerdict(id, payload)
<1>1. r \in Requests
  BY Parts, AttemptTyped
<1>2. CASE verdict = "committed"
  <2>1. /\ requests' = [requests EXCEPT ![r].stage = "completed"]
        /\ attempts' = updateAttemptOutcome(attempts, id, "completed")
    BY <1>2 DEF ApplyFirstVerdict
  <2> HIDE DEF r
  <2>2. \A q \in Requests :
          /\ requests'[q].currentSegment = requests[q].currentSegment
          /\ requests'[q].retryCount = requests[q].retryCount
    BY <1>1, <2>1 DEF IInv, TypeOK, RequestRecord
  <2>3. SameAttempts
    BY <2>1, AttemptsAfter DEF Outcomes
  <2> QED
    BY <2>2, <2>3 DEF ProgressKept
<1>3. CASE verdict # "committed"
  <2>1. UNCHANGED attempts
        /\ (UNCHANGED requests \/ finalizeStage(r, requests[r], leases, "cancelled", "none"))
    BY <1>3 DEF ApplyFirstVerdict
  <2> HIDE DEF r
  <2> QED
    BY <1>1, <2>1, SettlingKeepsProgress
<1> QED
  BY <1>2, <1>3

\* acceptResult after its await.
LEMMA SecondVerdictProgress ==
  ASSUME IInv, NEW id \in DOMAIN attempts, NEW payload \in CheckedPayloads,
         ApplySecondVerdict(id, payload, SecondVerdict(id, payload))
  PROVE  ProgressKept
<1> DEFINE r == attempts[id].request
           verdict == SecondVerdict(id, payload)
<1>1. r \in Requests
  BY Parts, AttemptTyped
<1>2. CASE verdict = "accepted"
  <2>1. /\ attempts' = [attempts EXCEPT ![id].outcome = "completed", ![id].output = payload]
        /\ UNCHANGED requests
    BY <1>2 DEF ApplySecondVerdict
  <2> PICK digest \in Digests : digest = payload
    BY <1>2, SecondVerdictFacts
  <2>2. attempts' = [attempts EXCEPT ![id].outcome = "completed", ![id].output = digest]
    BY <2>1
  <2>3. SameAttempts
    BY <2>2, OutputRecorded, Zenon
  <2> QED
    BY <2>1, <2>3 DEF ProgressKept
<1>3. CASE verdict # "accepted"
  <2>1. UNCHANGED attempts
        /\ (UNCHANGED requests \/ finalizeStage(r, requests[r], leases, "cancelled", "none"))
    BY <1>3 DEF ApplySecondVerdict
  <2> HIDE DEF r
  <2> QED
    BY <1>1, <2>1, SettlingKeepsProgress
<1> QED
  BY <1>2, <1>3

\* A run's own steps, but for a failed execution, keep every request's place.
LEMMA OwnStepProgress ==
  ASSUME IInv, NEW c \in Coordinators, NEW r \in Requests, OwnStep(c, r), ~ExecutorFails(c, r)
  PROVE  ProgressKept
<1> DEFINE run == runs[c][r]
<1>1. CASE ExecutorResolves(c, r)
  <2> DEFINE id == run.id
  <2>1. id \in DOMAIN attempts
    BY <1>1, AssignedFacts DEF ExecutorResolves, Assigned
  <2>2. PICK payload \in Payloads : ApplyFirstVerdict(id, FirstVerdict(id, payload))
    BY <1>1 DEF ExecutorResolves
  <2> HIDE DEF id
  <2> QED
    BY <2>1, <2>2, FirstVerdictProgress
<1>2. CASE CheckpointValidated(c, r)
  <2> DEFINE id == run.id
             payload == run.arg
  <2>1. id \in DOMAIN attempts /\ payload \in CheckedPayloads
    BY <1>2, AssignedFacts DEF CheckpointValidated, Assigned, RunSound
  <2>2. ApplySecondVerdict(id, payload, SecondVerdict(id, payload))
    BY <1>2 DEF CheckpointValidated
  <2> HIDE DEF id, payload
  <2> QED
    BY <2>1, <2>2, SecondVerdictProgress
<1>3. CASE \/ ExecutionAborted(c, r) \/ RecoverySleepAborted(c, r) \/ RenewOwnership(c, r)
           \/ DeadlineTimer(c, r) \/ CallerAborts(c, r)
  <2>1. UNCHANGED <<requests, attempts>>
    BY <1>3 DEF ExecutionAborted, RecoverySleepAborted, RenewOwnership, DeadlineTimer, CallerAborts,
                durable
  <2> QED
    BY <2>1, ProgressStays
<1>4. CASE AdvanceRefused(c, r) \/ ReturnVerdict(c, r) \/ RejectVerdict(c, r)
  <2>1. run.id \in DOMAIN attempts
    BY <1>4, AssignedFacts DEF AdvanceRefused, ReturnVerdict, RejectVerdict, Assigned
  <2>2. \/ UNCHANGED attempts
        \/ \E o \in Outcomes : attempts' = updateAttemptOutcome(attempts, run.id, o)
    BY <1>4 DEF AdvanceRefused, ReturnVerdict, RejectVerdict, Outcomes
  <2>3. \/ UNCHANGED requests
        \/ \E ls, stage, code : finalizeStage(r, requests[r], ls, stage, code)
    <3>1. CASE AdvanceRefused(c, r)
      BY <3>1 DEF AdvanceRefused
    <3>2. CASE ReturnVerdict(c, r)
      BY <3>2 DEF ReturnVerdict
    <3>3. CASE RejectVerdict(c, r)
      BY <3>3 DEF RejectVerdict
    <3> QED
      BY <1>4, <3>1, <3>2, <3>3
  <2> QED
    BY <2>1, <2>2, <2>3, SettlingKeepsProgress
<1>5. CASE RunEnds(c, r)
  <2>1. UNCHANGED attempts
    BY <1>5 DEF RunEnds
  <2>2. \/ UNCHANGED requests
        \/ finalizeStage(r, requests[r], leases, Settlement(run)[1], Settlement(run)[2])
    BY <1>5 DEF RunEnds
  <2> QED
    BY <2>1, <2>2, SettlingKeepsProgress
<1>6. CASE Cancel(c, r)
  <2>1. finalizeStage(r, requests[r], leases, "cancelled", "none")
    BY <1>6 DEF Cancel
  <2>2. \/ UNCHANGED attempts
        \/ isActive(leases, r) /\ attempts' = updateAttemptOutcome(attempts, leases[r].id, "cancelled")
    BY <1>6 DEF Cancel
  <2>3. isActive(leases, r) => leases[r].id \in DOMAIN attempts
    BY DEF IInv, LeaseSound, isActive
  <2> QED
    BY <2>1, <2>2, <2>3, SettlingKeepsProgress DEF Outcomes
<1> QED
  BY <1>1, <1>2, <1>3, <1>4, <1>5, <1>6 DEF OwnStep

\* A failed execution counts a retry or gives up.
LEMMA ExecutorFailsProgress ==
  ASSUME IInv, NEW c \in Coordinators, NEW r \in Requests, ExecutorFails(c, r)
  PROVE  /\ SameAttempts
         /\ \A q \in Requests : requests'[q].currentSegment = requests[q].currentSegment
<1> DEFINE id == runs[c][r].id
<1>1. id \in DOMAIN attempts
  BY AssignedFacts DEF ExecutorFails, Assigned
<1>2. UNCHANGED attempts \/ attempts' = updateAttemptOutcome(attempts, id, "failed")
  BY DEF ExecutorFails
<1> HIDE DEF id
<1>3. SameAttempts
  BY <1>1, <1>2, AttemptsAfter DEF Outcomes
<1>4. \/ UNCHANGED requests
      \/ \E ls, stage, code : finalizeStage(r, requests[r], ls, stage, code)
      \/ requests' = [requests EXCEPT ![r].retryCount = @ + 1,
                                      ![r].stage = IF @ = "running" THEN "retry-wait" ELSE @]
  BY DEF ExecutorFails
<1>5. ASSUME requests' = [requests EXCEPT ![r].retryCount = @ + 1,
                                          ![r].stage = IF @ = "running" THEN "retry-wait" ELSE @]
      PROVE  \A q \in Requests : requests'[q].currentSegment = requests[q].currentSegment
  BY <1>5 DEF IInv, TypeOK, RequestRecord
<1>6. ASSUME NEW ls, NEW stage, NEW code, finalizeStage(r, requests[r], ls, stage, code)
      PROVE  \A q \in Requests : requests'[q].currentSegment = requests[q].currentSegment
  <2>1. requests[r] \in RequestRecord
    BY DEF IInv, TypeOK
  <2> QED
    BY <1>6, <2>1, FinalizeKeepsProgress
<1> QED
  BY <1>3, <1>4, <1>5, <1>6

\* What happens outside the runs leaves them, and every request's place, alone.
LEMMA OutsideStepEffect ==
  ASSUME IInv, OutsideStep
  PROVE  UNCHANGED <<runs, up>> /\ ProgressKept
<1>1. UNCHANGED <<runs, up>>
  BY DEF OutsideStep, PushResult, PushFailure, PushValidated, RegisterWorker, WorkerHeartbeat,
         RemoveWorker, HeartbeatTimeout, DeadlinePasses, LeaseGrowsOld, ClaimExpires,
         CheckpointExpires, CheckpointCleanup
<1>2. ASSUME UNCHANGED <<requests, attempts>> PROVE ProgressKept
  BY <1>2, ProgressStays
<1>3. ASSUME NEW c \in Coordinators, NEW id \in DOMAIN attempts, PushResult(c, id)
      PROVE  ProgressKept
  <2>1. PICK payload \in Payloads : ApplyFirstVerdict(id, FirstVerdict(id, payload))
    BY <1>3 DEF PushResult
  <2> QED
    BY <2>1, FirstVerdictProgress
<1>4. ASSUME NEW c \in Coordinators, NEW id \in DOMAIN attempts, PushFailure(c, id)
      PROVE  ProgressKept
  <2> DEFINE r == attempts[id].request
  <2>1. r \in Requests
    BY Parts, AttemptTyped
  <2>2. \/ UNCHANGED requests
        \/ finalizeStage(r, requests[r], leases, "cancelled", "none")
    BY <1>4 DEF PushFailure
  <2>3. \E o \in Outcomes : attempts' = updateAttemptOutcome(attempts, id, o)
    BY <1>4 DEF PushFailure, Outcomes
  <2> HIDE DEF r
  <2> QED
    BY <2>1, <2>2, <2>3, SettlingKeepsProgress
<1>5. ASSUME NEW p \in pushes, PushValidated(p)
      PROVE  ProgressKept
  <2>1. p.id \in DOMAIN attempts /\ p.payload \in CheckedPayloads
    BY DEF IInv, PushSound
  <2>2. ApplySecondVerdict(p.id, p.payload, SecondVerdict(p.id, p.payload))
    BY <1>5 DEF PushValidated
  <2> QED
    BY <2>1, <2>2, SecondVerdictProgress
<1>6. ASSUME NEW w \in Workers,
             RegisterWorker(w) \/ WorkerHeartbeat(w) \/ RemoveWorker(w) \/ HeartbeatTimeout(w)
      PROVE  ProgressKept
  BY <1>2, <1>6 DEF RegisterWorker, WorkerHeartbeat, RemoveWorker, HeartbeatTimeout
<1>7. ASSUME NEW r \in Requests, LeaseGrowsOld(r) \/ ClaimExpires(r)
      PROVE  ProgressKept
  BY <1>2, <1>7 DEF LeaseGrowsOld, ClaimExpires
<1>8. ASSUME NEW r \in Requests, DeadlinePasses(r)
      PROVE  ProgressKept
  <2>1. requests' = [requests EXCEPT ![r].deadline = "passed"] /\ UNCHANGED attempts
    BY <1>8 DEF DeadlinePasses
  <2>2. \A q \in Requests :
          /\ requests'[q].currentSegment = requests[q].currentSegment
          /\ requests'[q].retryCount = requests[q].retryCount
    BY <2>1 DEF IInv, TypeOK, RequestRecord
  <2>3. SameAttempts
    BY <2>1, AttemptsAfter
  <2> QED
    BY <2>2, <2>3 DEF ProgressKept
<1>9. CASE CheckpointCleanup \/ \E r \in Requests, s \in Segments : CheckpointExpires(r, s)
  BY <1>2, <1>9 DEF CheckpointExpires, CheckpointCleanup
<1> QED
  BY <1>1, <1>3, <1>4, <1>5, <1>6, <1>7, <1>8, <1>9 DEF OutsideStep

\* A crash ends the runs of its instance and no other.
LEMMA CrashEffect ==
  ASSUME IInv, NEW c \in Coordinators, Crash(c)
  PROVE  /\ RunsGoOn
         /\ \A d \in Coordinators \ {c} : runs'[d] = runs[d]
         /\ \A r \in Requests : runs'[c][r] = NoRun
         /\ up' = up \ {c}
         /\ UNCHANGED <<attempts, leases, ownerships>> /\ ProgressKept
<1>1. /\ runs' = [runs EXCEPT ![c] = [r \in Requests |-> NoRun]] /\ up' = up \ {c}
      /\ UNCHANGED <<attempts, leases, ownerships>>
  BY DEF Crash
<1>2. runs \in [Coordinators -> [Requests -> RunRecord]]
  BY Parts
<1>3. /\ \A d \in Coordinators \ {c} : runs'[d] = runs[d]
      /\ \A r \in Requests : runs'[c][r] = NoRun
  BY <1>1, <1>2
<1>4. ASSUME NEW d \in Coordinators, NEW r \in Requests
      PROVE  Onward(runs[d][r], runs'[d][r])
  <2>1. runs[d][r] \in RunRecord
    BY <1>2
  <2> QED
    BY <1>3, <2>1, OnwardRuns
<1>5. ProgressKept
  BY <1>1, CrashAdvances, AttemptsAfter DEF ProgressKept
<1> QED
  BY <1>1, <1>3, <1>4, <1>5 DEF RunsGoOn


------------------------------------------------------------------------------
(* A turn of the loop                                                       *)

\* Attempt id is new, is one for r on the generation that w has in ws, and has
\* no outcome; the earlier ones stay.
Issued(r, id, w, ws) ==
  /\ id = Len(attempts) + 1
  /\ DOMAIN attempts' = 1 .. id
  /\ \A i \in DOMAIN attempts : attempts'[i] = attempts[i]
  /\ attempts'[id].request = r
  /\ attempts'[id].worker = w
  /\ attempts'[id].gen = ws[w].gen
  /\ attempts'[id].outcome = "none"

\* What aborted a run, and whether it lost its claim.
SameMarks(new, old) ==
  new.lost = old.lost /\ new.aborted = old.aborted /\ new.cancelKind = old.cancelKind

\* What a turn that c makes for r leaves of the record rec, the workers ws and
\* the run it entered with: the run waits or ends, or it has an assignment.  It
\* ends with an AbortError only when it is aborted, and the request is cancelled
\* only when it was or its cancellation is on record.
Turned(c, r, rec, ws, run) ==
  /\ \A d \in Coordinators, q \in Requests : runs'[d][q] = runs[d][q] \/ (d = c /\ q = r)
  /\ runs'[c][r].mode = run.mode
  /\ SameMarks(runs'[c][r], run)
  /\ runs'[c][r].pc = "ending" /\ runs'[c][r].arg = "AbortError" => run.aborted
  /\ requests'[r].stage = "cancelled" => rec.stage = "cancelled" \/ cancellations[r] # "none"
  /\ requests'[r].currentSegment = rec.currentSegment
  /\ requests'[r].retryCount = rec.retryCount
  /\ \A q \in Requests \ {r} : requests'[q] = requests[q]
  /\ \/ /\ \/ runs'[c][r].pc = "ending"
           \/ runs'[c][r].pc = "delay" /\ runs'[c][r].segment = run.segment
        /\ workers' = ws
        /\ attempts' = attempts
     \/ \E w \in availableWorkers(ws), id \in Nat :
          /\ Issued(r, id, w, ws)
          /\ \/ runs'[c][r].pc = "ending" /\ workers' = ws
             \/ /\ runs'[c][r].pc = "executing"
                /\ runs'[c][r].segment = run.segment
                /\ runs'[c][r].id = id
                /\ workers' = markStage(ws, w, ws[w].gen, "busy")

\* The run that a turn leaves, and the others.
LEMMA RunWritten ==
  ASSUME IInv, NEW c \in Coordinators, NEW r \in Requests, NEW run, SetRun(c, r, run)
  PROVE  /\ runs'[c][r] = run
         /\ \A d \in Coordinators, q \in Requests : runs'[d][q] = runs[d][q] \/ (d = c /\ q = r)
BY Parts DEF SetRun

Waiting(run) == [run EXCEPT !.pc = "delay", !.id = 0]
Executing(run, id) == [run EXCEPT !.pc = "executing", !.id = id]

LEMMA RunEnded ==
  ASSUME IInv, NEW c \in Coordinators, NEW r \in Requests, NEW run \in RunRecord, NEW how,
         SetRun(c, r, Ending(run, how))
  PROVE  /\ runs'[c][r].pc = "ending" /\ runs'[c][r].mode = run.mode
         /\ runs'[c][r].arg = how /\ SameMarks(runs'[c][r], run)
<1>1. /\ Ending(run, how).pc = "ending" /\ Ending(run, how).mode = run.mode
      /\ Ending(run, how).arg = how /\ SameMarks(Ending(run, how), run)
  BY DEF Ending, RunRecord, SameMarks
<1> QED
  BY <1>1, RunWritten

LEMMA RunWaits ==
  ASSUME IInv, NEW c \in Coordinators, NEW r \in Requests, NEW run \in RunRecord,
         SetRun(c, r, Waiting(run))
  PROVE  /\ runs'[c][r].pc = "delay"
         /\ runs'[c][r].mode = run.mode
         /\ runs'[c][r].segment = run.segment
         /\ SameMarks(runs'[c][r], run)
<1>1. /\ Waiting(run).pc = "delay"
      /\ Waiting(run).mode = run.mode
      /\ Waiting(run).segment = run.segment
      /\ SameMarks(Waiting(run), run)
  BY DEF Waiting, RunRecord, SameMarks
<1> QED
  BY <1>1, RunWritten

LEMMA RunExecutes ==
  ASSUME IInv, NEW c \in Coordinators, NEW r \in Requests, NEW run \in RunRecord, NEW id \in Nat,
         SetRun(c, r, Executing(run, id))
  PROVE  /\ runs'[c][r].pc = "executing"
         /\ runs'[c][r].mode = run.mode
         /\ runs'[c][r].segment = run.segment
         /\ runs'[c][r].id = id
         /\ SameMarks(runs'[c][r], run)
<1>1. /\ Executing(run, id).pc = "executing"
      /\ Executing(run, id).mode = run.mode
      /\ Executing(run, id).segment = run.segment
      /\ Executing(run, id).id = id
      /\ SameMarks(Executing(run, id), run)
  BY DEF Executing, RunRecord, SameMarks
<1> QED
  BY <1>1, RunWritten

\* A record is written back.
LEMMA RecordWritten ==
  ASSUME IInv, NEW r \in Requests, NEW rec, requests' = [requests EXCEPT ![r] = rec]
  PROVE  requests'[r] = rec /\ \A q \in Requests \ {r} : requests'[q] = requests[q]
BY DEF IInv, TypeOK

LEMMA AssignTurned ==
  ASSUME IInv, NEW c \in Coordinators, NEW r \in Requests, NEW rec \in RequestRecord,
         NEW ls, NEW ws, NEW run \in RunRecord, Assign(c, r, rec, ls, ws, run)
  PROVE  Turned(c, r, rec, ws, run)
<1> DEFINE id == Len(attempts) + 1
<1>1. PICK w \in availableWorkers(ws) :
        LET attempt == [request |-> r, worker |-> w, gen |-> ws[w].gen,
                        segment |-> run.segment, outcome |-> "none",
                        input |-> IF run.segment = 0 THEN "none"
                                  ELSE checkpoints[r][run.segment - 1].digest,
                        output |-> "none"]
        IN /\ attempts' = Append(attempts, attempt)
           /\ \/ /\ requests' = [requests EXCEPT ![r] = [rec EXCEPT !.stage = "running"]]
                 /\ workers' = markStage(ws, w, ws[w].gen, "busy")
                 /\ SetRun(c, r, [run EXCEPT !.pc = "executing", !.id = id])
              \/ /\ requests' = [requests EXCEPT ![r] = rec]
                 /\ workers' = ws
                 /\ SetRun(c, r, Ending(run, "StateTransitionViolation"))
  BY DEF Assign
<1> DEFINE attempt == [request |-> r, worker |-> w, gen |-> ws[w].gen,
                       segment |-> run.segment, outcome |-> "none",
                       input |-> IF run.segment = 0 THEN "none"
                                 ELSE checkpoints[r][run.segment - 1].digest,
                       output |-> "none"]
           running == [rec EXCEPT !.stage = "running"]
<1>2. /\ attempts \in Seq(AttemptRecord) /\ Len(attempts) \in Nat
      /\ DOMAIN attempts = 1 .. Len(attempts)
  BY Parts, LenProperties
<1>3. /\ attempt.request = r /\ attempt.worker = w /\ attempt.gen = ws[w].gen
      /\ attempt.outcome = "none"
  OBVIOUS
<1>4. /\ running.currentSegment = rec.currentSegment /\ running.retryCount = rec.retryCount
      /\ running.stage = "running"
  BY DEF RequestRecord
<1>5. attempts' = Append(attempts, attempt)
  BY <1>1
<1>6. \/ /\ requests' = [requests EXCEPT ![r] = running]
         /\ workers' = markStage(ws, w, ws[w].gen, "busy")
         /\ SetRun(c, r, [run EXCEPT !.pc = "executing", !.id = id])
      \/ /\ requests' = [requests EXCEPT ![r] = rec]
         /\ workers' = ws
         /\ SetRun(c, r, Ending(run, "StateTransitionViolation"))
  BY <1>1
<1> HIDE DEF attempt, running
<1>7. Issued(r, id, w, ws)
  BY <1>2, <1>3, <1>5 DEF Issued
<1>8. id \in Nat
  BY <1>2
<1> HIDE DEF id
<1>9. CASE /\ requests' = [requests EXCEPT ![r] = running]
           /\ workers' = markStage(ws, w, ws[w].gen, "busy")
           /\ SetRun(c, r, [run EXCEPT !.pc = "executing", !.id = id])
  <2>1. /\ runs'[c][r].pc = "executing" /\ runs'[c][r].mode = run.mode
        /\ runs'[c][r].segment = run.segment /\ runs'[c][r].id = id
        /\ SameMarks(runs'[c][r], run)
    <3>1. SetRun(c, r, Executing(run, id))
      BY <1>9 DEF Executing
    <3> QED
      BY <1>8, <3>1, RunExecutes
  <2>2. requests'[r] = running /\ \A q \in Requests \ {r} : requests'[q] = requests[q]
    BY <1>9, RecordWritten
  <2>3. \A d \in Coordinators, q \in Requests : runs'[d][q] = runs[d][q] \/ (d = c /\ q = r)
    BY <1>9, RunWritten
  <2>4. workers' = markStage(ws, w, ws[w].gen, "busy")
    BY <1>9
  <2> QED
    BY <1>4, <1>7, <1>8, <2>1, <2>2, <2>3, <2>4 DEF Turned
<1>10. CASE /\ requests' = [requests EXCEPT ![r] = rec]
            /\ workers' = ws
            /\ SetRun(c, r, Ending(run, "StateTransitionViolation"))
  <2>1. /\ runs'[c][r].pc = "ending" /\ runs'[c][r].mode = run.mode
        /\ runs'[c][r].arg = "StateTransitionViolation" /\ SameMarks(runs'[c][r], run)
    BY <1>10, RunEnded
  <2>2. requests'[r] = rec /\ \A q \in Requests \ {r} : requests'[q] = requests[q]
    BY <1>10, RecordWritten
  <2>3. \A d \in Coordinators, q \in Requests : runs'[d][q] = runs[d][q] \/ (d = c /\ q = r)
    BY <1>10, RunWritten
  <2>4. workers' = ws
    BY <1>10
  <2> QED
    BY <1>7, <1>8, <2>1, <2>2, <2>3, <2>4 DEF Turned
<1> QED
  BY <1>6, <1>9, <1>10

LEMMA LoopTurnTurned ==
  ASSUME IInv, NEW c \in Coordinators, NEW r \in Requests, NEW rec \in RequestRecord,
         NEW ls, NEW ws, NEW run \in RunRecord, LoopTurn(c, r, rec, ls, ws, run)
  PROVE  Turned(c, r, rec, ws, run)
<1> DEFINE cur == IF rec.stage = "retry-wait" THEN [rec EXCEPT !.stage = "queued"] ELSE rec
           stopped == rec.stage \in TERMINAL_STAGES \/ cancellations[r] # "none"
<1>1. /\ cur \in RequestRecord /\ cur.currentSegment = rec.currentSegment
      /\ cur.retryCount = rec.retryCount
      /\ cur.stage = "cancelled" => rec.stage = "cancelled"
  BY DEF RequestRecord, REQUEST_STAGES
<1> HIDE DEF cur
<1>2. ASSUME NEW how, SetRun(c, r, Ending(run, how)), workers' = ws, attempts' = attempts,
             how = "AbortError" => run.aborted,
             NEW old \in {rec, cur},
             \/ requests' = [requests EXCEPT ![r] = old]
             \/ \E stage, code :
                  /\ finalizeStage(r, old, ls, stage, code)
                  /\ stage = "cancelled" => old = rec /\ stopped
      PROVE  Turned(c, r, rec, ws, run)
  <2>1. /\ requests'[r].currentSegment = rec.currentSegment
        /\ requests'[r].retryCount = rec.retryCount
        /\ \A q \in Requests \ {r} : requests'[q] = requests[q]
    BY <1>1, <1>2, RecordWritten, FinalizeKeepsProgress
  <2>2. /\ runs'[c][r].pc = "ending" /\ runs'[c][r].mode = run.mode
        /\ runs'[c][r].arg = how /\ SameMarks(runs'[c][r], run)
    BY <1>2, RunEnded
  <2>3. \A d \in Coordinators, q \in Requests : runs'[d][q] = runs[d][q] \/ (d = c /\ q = r)
    BY <1>2, RunWritten
  <2>4. requests'[r].stage = "cancelled" => rec.stage = "cancelled" \/ cancellations[r] # "none"
    <3>1. CASE requests' = [requests EXCEPT ![r] = old]
      BY <1>1, <1>2, <3>1, RecordWritten
    <3>2. ASSUME NEW stage, NEW code, finalizeStage(r, old, ls, stage, code),
                 stage = "cancelled" => old = rec /\ stopped
          PROVE  requests'[r].stage = "cancelled" => rec.stage = "cancelled" \/ cancellations[r] # "none"
      <4>1. \/ requests'[r].stage = old.stage
            \/ requests'[r].stage = stage /\ old.stage \notin TERMINAL_STAGES
        BY <1>1, <1>2, <3>2, FinalizeStages
      <4> QED
        BY <1>1, <1>2, <3>2, <4>1
    <3> QED
      BY <1>2, <3>1, <3>2
  <2> QED
    BY <1>2, <2>1, <2>2, <2>3, <2>4 DEF Turned
<1>3. CASE /\ requests' = [requests EXCEPT ![r] = cur]
           /\ workers' = ws /\ attempts' = attempts
           /\ SetRun(c, r, [run EXCEPT !.pc = "delay", !.id = 0])
  <2>1. /\ requests'[r].currentSegment = rec.currentSegment
        /\ requests'[r].retryCount = rec.retryCount
        /\ \A q \in Requests \ {r} : requests'[q] = requests[q]
        /\ requests'[r].stage = "cancelled" => rec.stage = "cancelled"
    <3>1. requests' = [requests EXCEPT ![r] = cur]
      BY <1>3
    <3> QED
      BY <1>1, <3>1, RecordWritten
  <2>2. /\ runs'[c][r].pc = "delay" /\ runs'[c][r].mode = run.mode
        /\ runs'[c][r].segment = run.segment /\ SameMarks(runs'[c][r], run)
    <3>1. SetRun(c, r, Waiting(run))
      BY <1>3 DEF Waiting
    <3> QED
      BY <3>1, RunWaits
  <2>3. \A d \in Coordinators, q \in Requests : runs'[d][q] = runs[d][q] \/ (d = c /\ q = r)
    BY <1>3, RunWritten
  <2>4. workers' = ws /\ attempts' = attempts
    BY <1>3
  <2> QED
    BY <2>1, <2>2, <2>3, <2>4 DEF Turned
<1>4. CASE Assign(c, r, cur, ls, ws, run)
  <2>1. Turned(c, r, cur, ws, run)
    BY <1>1, <1>4, AssignTurned
  <2> QED
    BY <1>1, <2>1 DEF Turned
<1> QED
  BY <1>2, <1>3, <1>4 DEF LoopTurn, cur

\* A new request's first turn.
LEMMA SubmitTurned ==
  ASSUME IInv, NEW c \in Coordinators, NEW r \in Requests, Submit(c, r)
  PROVE  /\ c \in up /\ requests[r].stage = "absent"
         /\ UNCHANGED <<results, ownerships, pushes, up>>
         /\ \E rec, run :
              /\ Turned(c, r, rec, workers, run)
              /\ rec.currentSegment = 0 /\ rec.retryCount = 0 /\ rec.stage = "queued"
              /\ run.mode = "submit" /\ run.segment = 0 /\ ~run.lost
              /\ run.cancelKind = "user"
              /\ run.aborted => "caller-abort" \in Environment
<1>1. PICK deadline \in {"none", "armed"}, aborted \in BOOLEAN :
        /\ LoopTurn(c, r, NewRequest(deadline), leases, workers,
                    [NewRun("submit", 0) EXCEPT !.aborted = aborted])
        /\ aborted => "caller-abort" \in Environment
  BY DEF Submit
<1>2. /\ NewRequest(deadline) \in RequestRecord
      /\ NewRequest(deadline).currentSegment = 0 /\ NewRequest(deadline).retryCount = 0
      /\ NewRequest(deadline).stage = "queued"
  BY SegmentFacts, CoordinatorAssumption DEF NewRequest, NoRequest, RequestRecord, REQUEST_STAGES
<1> DEFINE run == [NewRun("submit", 0) EXCEPT !.aborted = aborted]
<1>3. /\ run \in RunRecord /\ run.mode = "submit" /\ run.segment = 0
      /\ ~run.lost /\ run.cancelKind = "user" /\ run.aborted = aborted
  <2>1. NewRun("submit", 0) \in RunRecord
    BY SegmentFacts, NewRunTyped
  <2>2. /\ NewRun("submit", 0).mode = "submit" /\ NewRun("submit", 0).segment = 0
        /\ ~NewRun("submit", 0).lost /\ NewRun("submit", 0).cancelKind = "user"
    BY DEF NewRun, NoRun
  <2> QED
    BY <2>1, <2>2 DEF RunRecord
<1>4. LoopTurn(c, r, NewRequest(deadline), leases, workers, run)
  BY <1>1
<1> HIDE DEF run
<1>5. Turned(c, r, NewRequest(deadline), workers, run)
  BY <1>2, <1>3, <1>4, LoopTurnTurned
<1>6. c \in up /\ requests[r].stage = "absent" /\ UNCHANGED <<results, ownerships, pushes, up>>
  BY DEF Submit
<1> QED
  BY <1>1, <1>2, <1>3, <1>5, <1>6

\* The turn after an accepted intermediate result.
LEMMA AdvanceTurned ==
  ASSUME IInv, NEW c \in Coordinators, NEW r \in Requests, AdvanceSegment(c, r)
  PROVE  /\ runs[c][r].pc = "decided" /\ runs[c][r].arg = "accepted"
         /\ requests[r].stage = "running"
         /\ UNCHANGED <<results, ownerships, pushes, up>>
         /\ \E rec, run :
              /\ Turned(c, r, rec, IdleAgain(runs[c][r]), run)
              /\ rec.currentSegment = runs[c][r].segment + 1
              /\ rec.retryCount = requests[r].retryCount /\ rec.stage = "queued"
              /\ run.mode = runs[c][r].mode
              /\ run.segment = runs[c][r].segment + 1
              /\ SameMarks(run, runs[c][r])
<1> PICK run \in RunRecord : run = runs[c][r]
  BY Parts
<1> DEFINE next == run.segment + 1
           rec == [requests[r] EXCEPT !.stage = "queued", !.currentSegment = next]
           on == [run EXCEPT !.segment = next, !.attempt = 0, !.id = 0, !.arg = "none"]
<1>1. /\ LoopTurn(c, r, rec, leases, IdleAgain(run), on)
      /\ requests[r].stage = "running" /\ run.pc = "decided" /\ run.arg = "accepted"
      /\ UNCHANGED <<results, ownerships, pushes, up>>
  BY DEF AdvanceSegment
<1>2. next \in Segments
  <2>1. run.segment \in Segments /\ run.segment # FinalSegment
    BY <1>1 DEF RunRecord, RunSound, IInv
  <2> QED
    BY <2>1, SegmentFacts
<1> HIDE DEF next
<1>3. /\ rec \in RequestRecord /\ rec.currentSegment = next
      /\ rec.retryCount = requests[r].retryCount /\ rec.stage = "queued"
  <2>1. requests[r] \in RequestRecord
    BY DEF IInv, TypeOK
  <2> QED
    BY <1>2, <2>1 DEF RequestRecord, REQUEST_STAGES
<1>4. on \in RunRecord /\ on.mode = run.mode /\ on.segment = next /\ SameMarks(on, run)
  <2>1. 0 \in 0 .. MaxRetries /\ 0 \in Nat
    BY SegmentFacts
  <2> DEFINE one == [run EXCEPT !.segment = next, !.attempt = 0]
  <2>2. one \in RunRecord /\ one.mode = run.mode /\ one.segment = next /\ SameMarks(one, run)
    BY <1>2, <2>1 DEF RunRecord, SameMarks
  <2>3. on = [one EXCEPT !.id = 0, !.arg = "none"]
    OBVIOUS
  <2> HIDE DEF one
  <2> QED
    BY <2>1, <2>2, <2>3 DEF RunRecord, SameMarks
<1> HIDE DEF rec, on
<1>5. Turned(c, r, rec, IdleAgain(run), on)
  BY <1>1, <1>3, <1>4, LoopTurnTurned
<1> QED
  BY <1>1, <1>3, <1>4, <1>5 DEF next

\* The turn after a delay, or none.
LEMMA DelayTurned ==
  ASSUME IInv, NEW c \in Coordinators, NEW r \in Requests, DelayOver(c, r)
  PROVE  /\ runs[c][r].pc = "delay"
         /\ UNCHANGED <<results, ownerships, pushes, up>>
         /\ \E run :
              /\ Turned(c, r, requests[r], workers, run)
              /\ run.mode = runs[c][r].mode
              /\ run.segment = runs[c][r].segment
              /\ SameMarks(run, runs[c][r])
<1> PICK run \in RunRecord : run = runs[c][r]
  BY Parts
<1>1. run.pc = "delay" /\ UNCHANGED <<results, ownerships, pushes, up>>
  BY DEF DelayOver
<1>2. CASE attemptsLeft(run)
  <2> DEFINE on == [run EXCEPT !.attempt = @ + 1]
  <2>1. LoopTurn(c, r, requests[r], leases, workers, on)
    BY <1>2 DEF DelayOver
  <2>2. run.attempt + 1 \in 0 .. MaxRetries
    BY <1>2, CoordinatorAssumption DEF attemptsLeft, RunRecord
  <2>3. /\ on \in RunRecord /\ on.mode = run.mode /\ on.segment = run.segment
        /\ SameMarks(on, run)
    BY <2>2 DEF RunRecord, SameMarks
  <2>4. requests[r] \in RequestRecord
    BY DEF IInv, TypeOK
  <2> HIDE DEF on
  <2>5. Turned(c, r, requests[r], workers, on)
    BY <2>1, <2>3, <2>4, LoopTurnTurned
  <2> QED
    BY <1>1, <2>3, <2>5
<1>3. CASE ~attemptsLeft(run)
  <2>1. SetRun(c, r, Ending(run, "return")) /\ UNCHANGED <<requests, workers, attempts>>
    BY <1>3 DEF DelayOver
  <2>2. /\ runs'[c][r].pc = "ending" /\ runs'[c][r].mode = run.mode
        /\ runs'[c][r].arg = "return" /\ SameMarks(runs'[c][r], run)
    BY <2>1, RunEnded
  <2>3. \A d \in Coordinators, q \in Requests : runs'[d][q] = runs[d][q] \/ (d = c /\ q = r)
    BY <2>1, RunWritten
  <2>4. Turned(c, r, requests[r], workers, run)
    BY <2>1, <2>2, <2>3 DEF Turned
  <2> QED
    BY <1>1, <2>4 DEF SameMarks
<1> QED
  BY <1>2, <1>3

\* A round of recovery without a turn: the run sleeps or is over, the claim
\* stays or is given back.
Rested(c, r) ==
  /\ \A d \in Coordinators, q \in Requests : runs'[d][q] = runs[d][q] \/ (d = c /\ q = r)
  /\ runs'[c][r].pc \in {"none", "sleep"}
  /\ ~runs'[c][r].aborted /\ ~runs'[c][r].lost /\ runs'[c][r].cancelKind = "user"
  /\ \A q \in Requests :
       /\ requests'[q].currentSegment = requests[q].currentSegment
       /\ requests'[q].retryCount = requests[q].retryCount
  /\ \A q \in Requests \ {r} : requests'[q] = requests[q]
  /\ requests'[r].stage = "cancelled" =>
       requests[r].stage = "cancelled" \/ cancellations[r] # "none"
  /\ UNCHANGED <<attempts, workers>>
  /\ \/ UNCHANGED ownerships
     \/ ~OwnedByPeer(r, c) /\ ownerships' = [ownerships EXCEPT ![r] = NoClaim]

\* A round of recovery rests, or claims the request and turns.
LEMMA RecoveryTurned ==
  ASSUME IInv, NEW c \in Coordinators, NEW r \in Requests, requests[r].stage # "absent",
         BeginRecovery(c, r)
  PROVE  \/ Rested(c, r)
         \/ /\ ~OwnedByPeer(r, c)
            /\ ownerships' = [ownerships EXCEPT ![r] = [owner |-> c, live |-> TRUE]]
            /\ requests[r].stage \notin TERMINAL_STAGES
            /\ \E rec, run :
                 /\ Turned(c, r, rec, workers, run)
                 /\ rec.currentSegment = requests[r].currentSegment
                 /\ rec.retryCount = requests[r].retryCount /\ rec.stage = "queued"
                 /\ run.mode = "recovery" /\ run.segment = requests[r].currentSegment
                 /\ ~run.lost /\ ~run.aborted /\ run.cancelKind = "user"
<1> DEFINE plan == PlanFor(r)
           asleep == [NewRun("recovery", 0) EXCEPT !.pc = "sleep"]
           ended == IF plan.kind = "cancel" THEN "cancelled" ELSE "failed"
           claimed == ~OwnedByPeer(r, c)
                      /\ ownerships' = [ownerships EXCEPT ![r] = NoClaim]
           rec == [requests[r] EXCEPT !.stage = "queued"]
           run == NewRun("recovery", resumeSegment(r))
<1>1. requests \in [Requests -> RequestRecord]
  BY DEF IInv, TypeOK
<1>2. /\ asleep.pc = "sleep" /\ ~asleep.aborted /\ ~asleep.lost /\ asleep.cancelKind = "user"
      /\ NoRun.pc = "none" /\ ~NoRun.aborted /\ ~NoRun.lost /\ NoRun.cancelKind = "user"
  BY DEF NewRun, NoRun
<1>3. \/ SetRun(c, r, NoRun) /\ UNCHANGED durable
      \/ SetRun(c, r, asleep) /\ UNCHANGED durable
      \/ claimed /\ SetRun(c, r, asleep) /\ UNCHANGED <<requests, attempts, workers>>
      \/ /\ claimed /\ SetRun(c, r, NoRun) /\ UNCHANGED <<attempts, workers>>
         /\ requests' = [requests EXCEPT ![r].stage = ended, ![r].lastErrorCode = plan.code]
         /\ ended = "cancelled" => plan.kind = "cancel"
      \/ /\ plan.kind = "resume"
         /\ ~OwnedByPeer(r, c)
         /\ ownerships' = [ownerships EXCEPT ![r] = [owner |-> c, live |-> TRUE]]
         /\ LoopTurn(c, r, rec, reclaimByRequest(leases, r), workers, run)
  BY DEF BeginRecovery, terminalize
<1>0. plan.kind = "cancel" => cancellations[r] # "none"
  BY DEF PlanFor, planDurableRequestRecovery, Plan, leaseHeld, recoverable
<1> HIDE DEF asleep, plan, ended, rec, run
<1>4. ASSUME SetRun(c, r, NoRun) \/ SetRun(c, r, asleep),
             UNCHANGED <<requests, attempts, workers>>, UNCHANGED ownerships \/ claimed
      PROVE  Rested(c, r)
  BY <1>2, <1>4, RunWritten DEF Rested
<1>5. ASSUME claimed, SetRun(c, r, NoRun), UNCHANGED <<attempts, workers>>,
             requests' = [requests EXCEPT ![r].stage = ended, ![r].lastErrorCode = plan.code],
             ended = "cancelled" => plan.kind = "cancel"
      PROVE  Rested(c, r)
  <2>1. \A q \in Requests :
          /\ requests'[q].currentSegment = requests[q].currentSegment
          /\ requests'[q].retryCount = requests[q].retryCount
          /\ q # r => requests'[q] = requests[q]
    BY <1>1, <1>5 DEF RequestRecord
  <2>3. requests'[r].stage = ended
    BY <1>1, <1>5 DEF RequestRecord
  <2>2. /\ runs'[c][r].pc \in {"none", "sleep"}
        /\ ~runs'[c][r].aborted /\ ~runs'[c][r].lost /\ runs'[c][r].cancelKind = "user"
        /\ \A d \in Coordinators, q \in Requests : runs'[d][q] = runs[d][q] \/ (d = c /\ q = r)
    BY <1>2, <1>5, RunWritten
  <2> QED
    BY <1>0, <1>5, <2>1, <2>2, <2>3 DEF Rested
<1>6. CASE /\ plan.kind = "resume"
           /\ ~OwnedByPeer(r, c)
           /\ ownerships' = [ownerships EXCEPT ![r] = [owner |-> c, live |-> TRUE]]
           /\ LoopTurn(c, r, rec, reclaimByRequest(leases, r), workers, run)
  <2>1. requests[r].stage \notin TERMINAL_STAGES
    BY <1>6, PlanFacts DEF plan, PlanFor
  <2>2. /\ rec \in RequestRecord /\ rec.currentSegment = requests[r].currentSegment
        /\ rec.retryCount = requests[r].retryCount /\ rec.stage = "queued"
    BY <1>1 DEF rec, RequestRecord, REQUEST_STAGES
  <2>3. /\ run \in RunRecord /\ run.mode = "recovery" /\ run.segment = requests[r].currentSegment
        /\ ~run.lost /\ ~run.aborted /\ run.cancelKind = "user"
    <3>1. requests[r].currentSegment \in Segments
      BY <1>1 DEF RequestRecord
    <3>2. NewRun("recovery", requests[r].currentSegment) \in RunRecord
      BY <3>1, NewRunTyped
    <3> QED
      BY <3>2 DEF run, resumeSegment, NewRun, NoRun
  <2>4. Turned(c, r, rec, workers, run)
    BY <1>6, <2>2, <2>3, LoopTurnTurned
  <2> QED
    BY <1>6, <2>1, <2>2, <2>3, <2>4
<1> QED
  BY <1>3, <1>4, <1>5, <1>6 DEF durable

------------------------------------------------------------------------------
(***************************************************************************)
(* The third result: as long as holders renew their claims in time, no two *)
(* live instances recover a request at once.  A recovery inside runRequest *)
(* holds the live claim of its request.                                    *)
(***************************************************************************)

Recovering(c, r) == c \in up /\ InRequest(runs[c][r]) /\ runs[c][r].mode = "recovery"

HoldersRun ==
  \A c \in Coordinators, r \in Requests :
    Recovering(c, r) => ownerships[r].owner = c /\ ownerships[r].live

\* No claim runs out under a holder that is up and inside runRequest: its
\* renewal timer fires in time.
HoldersRenew ==
  [][\A r \in Requests, c \in Coordinators :
       ClaimExpires(r) /\ Recovering(c, r) => ownerships[r].owner # c]_vars

\* The claims a step leaves agree with the recoveries it leaves.
LEMMA HoldersStay ==
  ASSUME IInv, HoldersRun, up' \subseteq up, UNCHANGED ownerships,
         \A c \in Coordinators, r \in Requests : Recovering(c, r)' => Recovering(c, r)
  PROVE  HoldersRun'
BY DEF HoldersRun

LEMMA OnlyHolderRecovers ==
  ASSUME IInv, HoldersRun, NEW c \in Coordinators, NEW r \in Requests, ~OwnedByPeer(r, c),
         \A d \in Coordinators, q \in Requests : Recovering(d, q)' => Recovering(d, q) \/ (d = c /\ q = r),
         \/ UNCHANGED ownerships
         \/ ownerships' = [ownerships EXCEPT ![r] = [owner |-> c, live |-> TRUE]]
         \/ ownerships' = [ownerships EXCEPT ![r] = NoClaim],
         Recovering(c, r)' => ownerships'[r].owner = c /\ ownerships'[r].live
  PROVE  HoldersRun'
<1>1. NoOwner \notin Coordinators
  BY CoordinatorAssumption
<1>2. ownerships \in [Requests -> [owner : Coordinators \cup {NoOwner}, live : BOOLEAN]]
  BY DEF IInv, TypeOK
<1>3. ASSUME NEW d \in Coordinators, NEW q \in Requests, Recovering(d, q)'
      PROVE  ownerships'[q].owner = d /\ ownerships'[q].live
  <2>1. CASE d = c /\ q = r
    BY <1>3, <2>1
  <2>2. CASE ~(d = c /\ q = r)
    <3>1. ownerships[q].owner = d /\ ownerships[q].live
      BY <1>3, <2>2 DEF HoldersRun
    <3>2. q # r
      BY <1>1, <2>2, <3>1 DEF OwnedByPeer
    <3>3. ownerships'[q] = ownerships[q]
      BY <1>2, <3>2
    <3> QED
      BY <3>1, <3>3
  <2> QED
    BY <2>1, <2>2
<1> QED
  BY <1>3 DEF HoldersRun

\* Instances go away in crashes alone, and a run touches its claim when it renews
\* it or ends.
LEMMA OwnStepClaims ==
  ASSUME NEW c \in Coordinators, NEW r \in Requests, OwnStep(c, r)
  PROVE  /\ UNCHANGED up
         /\ ~RunEnds(c, r) /\ ~RenewOwnership(c, r) => UNCHANGED ownerships
<1>1. CASE \/ ExecutorResolves(c, r) \/ CheckpointValidated(c, r) \/ ExecutorFails(c, r)
           \/ ExecutionAborted(c, r) \/ AdvanceRefused(c, r) \/ ReturnVerdict(c, r)
           \/ RejectVerdict(c, r)
  <2>1. CASE ExecutorResolves(c, r)
    BY <2>1 DEF ExecutorResolves
  <2>2. CASE CheckpointValidated(c, r)
    BY <2>2 DEF CheckpointValidated
  <2>3. CASE ExecutorFails(c, r)
    BY <2>3 DEF ExecutorFails
  <2>4. CASE ExecutionAborted(c, r) \/ AdvanceRefused(c, r)
    BY <2>4 DEF ExecutionAborted, AdvanceRefused
  <2>5. CASE ReturnVerdict(c, r) \/ RejectVerdict(c, r)
    BY <2>5 DEF ReturnVerdict, RejectVerdict
  <2> QED
    BY <1>1, <2>1, <2>2, <2>3, <2>4, <2>5
<1>2. CASE RecoverySleepAborted(c, r) \/ DeadlineTimer(c, r) \/ CallerAborts(c, r)
  BY <1>2 DEF RecoverySleepAborted, DeadlineTimer, CallerAborts, durable
<1>3. CASE RunEnds(c, r) \/ RenewOwnership(c, r)
  BY <1>3 DEF RunEnds, RenewOwnership
<1>4. CASE Cancel(c, r)
  BY <1>4 DEF Cancel
<1> QED
  BY <1>1, <1>2, <1>3, <1>4 DEF OwnStep

LEMMA StepHolders ==
  ASSUME IInv, HoldersRun, [Next]_vars,
         \A r \in Requests, c \in Coordinators :
           ClaimExpires(r) /\ Recovering(c, r) => ownerships[r].owner # c
  PROVE  HoldersRun'
<1>1. ASSUME RunsGoOn, up' \subseteq up
      PROVE  \A c \in Coordinators, r \in Requests : Recovering(c, r)' => Recovering(c, r)
  <2>1. ASSUME NEW c \in Coordinators, NEW r \in Requests, Recovering(c, r)'
        PROVE  Recovering(c, r)
    <3>1. Onward(runs[c][r], runs'[c][r])
      BY <1>1 DEF RunsGoOn
    <3>2. c \in up /\ InRequest(runs'[c][r]) /\ runs'[c][r].mode = "recovery"
      BY <1>1, <2>1 DEF Recovering, InRequest
    <3> QED
      BY <3>1, <3>2 DEF Onward, Recovering, InRequest
  <2> QED
    BY <2>1
<1>2. ASSUME NEW c \in Coordinators, NEW r \in Requests, OwnStep(c, r)
      PROVE  HoldersRun'
  <2>1. /\ UNCHANGED up
        /\ ~RunEnds(c, r) /\ ~RenewOwnership(c, r) => UNCHANGED ownerships
    BY <1>2, OwnStepClaims
  <2>2. \A d \in Coordinators, q \in Requests : Recovering(d, q)' => Recovering(d, q)
    BY <1>1, <1>2, <2>1, OwnStepRuns
  <2>3. CASE RunEnds(c, r)
    <3>1. SetRun(c, r, NoRun)
      BY <2>3 DEF RunEnds
    <3>2. ~Recovering(c, r)'
      <4>1. runs'[c][r] = NoRun
        BY <3>1, RunWritten
      <4> QED
        BY <4>1 DEF Recovering, InRequest, NoRun
    <3>3. \/ UNCHANGED ownerships
          \/ ownerships[r].owner = c /\ ownerships' = [ownerships EXCEPT ![r] = NoClaim]
      BY <2>3 DEF RunEnds
    <3>4. ownerships[r].owner = c => ~OwnedByPeer(r, c)
      BY DEF OwnedByPeer
    <3> QED
      BY <2>1, <2>2, <3>2, <3>3, <3>4, HoldersStay, OnlyHolderRecovers
  <2>4. CASE RenewOwnership(c, r)
    <3>1. \/ UNCHANGED ownerships
          \/ /\ ~OwnedByPeer(r, c)
             /\ ownerships' = [ownerships EXCEPT ![r] = [owner |-> c, live |-> TRUE]]
      BY <2>4 DEF RenewOwnership
    <3>2. ASSUME ownerships' = [ownerships EXCEPT ![r] = [owner |-> c, live |-> TRUE]]
          PROVE  ownerships'[r].owner = c /\ ownerships'[r].live
      BY <3>2 DEF IInv, TypeOK
    <3> QED
      BY <2>1, <2>2, <3>1, <3>2, HoldersStay, OnlyHolderRecovers
  <2>5. CASE ~RunEnds(c, r) /\ ~RenewOwnership(c, r)
    BY <2>1, <2>2, <2>5, HoldersStay
  <2> QED
    BY <2>3, <2>4, <2>5
<1>3. CASE OutsideStep
  <2>1. UNCHANGED <<runs, up>>
    BY <1>3, OutsideStepEffect
  <2>2. \A d \in Coordinators, q \in Requests : Recovering(d, q)' = Recovering(d, q)
    BY <2>1 DEF Recovering, InRequest
  <2>3. ASSUME NEW r \in Requests, ClaimExpires(r)
        PROVE  HoldersRun'
    <3>1. ownerships' = [ownerships EXCEPT ![r].live = FALSE]
      BY <2>3 DEF ClaimExpires
    <3>2. ownerships \in [Requests -> [owner : Coordinators \cup {NoOwner}, live : BOOLEAN]]
      BY DEF IInv, TypeOK
    <3>3. ASSUME NEW d \in Coordinators, NEW q \in Requests, Recovering(d, q)'
          PROVE  ownerships'[q].owner = d /\ ownerships'[q].live
      <4>1. Recovering(d, q) /\ ownerships[q].owner = d /\ ownerships[q].live
        BY <2>2, <3>3 DEF HoldersRun
      <4>2. q # r
        BY <2>3, <4>1
      <4> QED
        BY <3>1, <3>2, <4>1, <4>2
    <3> QED
      BY <3>3 DEF HoldersRun
  <2>4. CASE \A r \in Requests : ~ClaimExpires(r)
    <3>1. UNCHANGED ownerships
      BY <1>3, <2>4 DEF OutsideStep, PushResult, PushFailure, PushValidated, RegisterWorker,
           WorkerHeartbeat, RemoveWorker, HeartbeatTimeout, DeadlinePasses, LeaseGrowsOld,
           CheckpointExpires, CheckpointCleanup
    <3> QED
      BY <2>1, <2>2, <3>1, HoldersStay
  <2> QED
    BY <2>3, <2>4
<1>4. ASSUME NEW c \in Coordinators, Crash(c)
      PROVE  HoldersRun'
  <2>1. RunsGoOn /\ up' \subseteq up /\ UNCHANGED ownerships
    BY <1>4, CrashEffect
  <2> QED
    BY <1>1, <2>1, HoldersStay
<1>5. ASSUME NEW c \in Coordinators, NEW r \in Requests, NEW rec, NEW ws, NEW run,
             Turned(c, r, rec, ws, run), UNCHANGED up
      PROVE  /\ \A d \in Coordinators, q \in Requests :
                  Recovering(d, q)' => Recovering(d, q) \/ (d = c /\ q = r)
             /\ Recovering(c, r)' => run.mode = "recovery"
  BY <1>5 DEF Turned, Recovering, InRequest
<1>6. ASSUME NEW c \in Coordinators, NEW r \in Requests, Submit(c, r)
      PROVE  HoldersRun'
  <2>1. PICK rec, run : Turned(c, r, rec, workers, run) /\ run.mode = "submit"
    BY <1>6, SubmitTurned
  <2>2. UNCHANGED <<ownerships, up>>
    BY <1>6, SubmitTurned
  <2>3. \A d \in Coordinators, q \in Requests : Recovering(d, q)' => Recovering(d, q)
    BY <1>5, <2>1, <2>2
  <2> QED
    BY <2>2, <2>3, HoldersStay
<1>7. ASSUME NEW c \in Coordinators, NEW r \in Requests, AdvanceSegment(c, r) \/ DelayOver(c, r)
      PROVE  HoldersRun'
  <2>1. /\ \E rec, ws, run : Turned(c, r, rec, ws, run) /\ run.mode = runs[c][r].mode
        /\ runs[c][r].pc \in {"decided", "delay"}
        /\ UNCHANGED <<ownerships, up>>
    <3>1. CASE AdvanceSegment(c, r)
      BY <3>1, AdvanceTurned
    <3>2. CASE DelayOver(c, r)
      BY <3>2, DelayTurned
    <3> QED
      BY <1>7, <3>1, <3>2
  <2>2. PICK rec, ws, run : Turned(c, r, rec, ws, run) /\ run.mode = runs[c][r].mode
    BY <2>1
  <2>3. Recovering(c, r)' => Recovering(c, r)
    <3>1. Recovering(c, r)' => c \in up /\ run.mode = "recovery"
      BY <1>5, <2>1, <2>2 DEF Recovering
    <3> QED
      BY <2>1, <2>2, <3>1 DEF Recovering, InRequest
  <2>4. \A d \in Coordinators, q \in Requests : Recovering(d, q)' => Recovering(d, q)
    BY <1>5, <2>1, <2>2, <2>3
  <2> QED
    BY <2>1, <2>4, HoldersStay
<1>8. ASSUME NEW c \in Coordinators, NEW r \in Requests, Recover(c, r) \/ RecoveryPoll(c, r)
      PROVE  HoldersRun'
  <2>1. BeginRecovery(c, r) /\ UNCHANGED up
    BY <1>8 DEF Recover, RecoveryPoll
  <2>2. requests[r].stage # "absent"
    BY <1>8, RunSubmitted DEF Recover, RecoveryPoll, REQUEST_STAGES
  <2>3. CASE Rested(c, r)
    <3>1. ~Recovering(c, r)'
      BY <2>3 DEF Rested, Recovering, InRequest
    <3>2. \A d \in Coordinators, q \in Requests : Recovering(d, q)' => Recovering(d, q)
      BY <2>1, <2>3, <3>1 DEF Rested, Recovering, InRequest
    <3>3. \/ UNCHANGED ownerships
          \/ ~OwnedByPeer(r, c) /\ ownerships' = [ownerships EXCEPT ![r] = NoClaim]
      BY <2>3 DEF Rested
    <3> QED
      BY <2>1, <3>1, <3>2, <3>3, HoldersStay, OnlyHolderRecovers
  <2>4. CASE ~Rested(c, r)
    <3>1. /\ ~OwnedByPeer(r, c)
          /\ ownerships' = [ownerships EXCEPT ![r] = [owner |-> c, live |-> TRUE]]
          /\ \E rec, run : Turned(c, r, rec, workers, run)
      BY <2>1, <2>2, <2>4, RecoveryTurned
    <3>2. \A d \in Coordinators, q \in Requests :
            Recovering(d, q)' => Recovering(d, q) \/ (d = c /\ q = r)
      BY <1>5, <2>1, <3>1
    <3>3. ownerships'[r].owner = c /\ ownerships'[r].live
      BY <3>1 DEF IInv, TypeOK
    <3> QED
      BY <3>1, <3>2, <3>3, OnlyHolderRecovers
  <2> QED
    BY <2>3, <2>4
<1>9. CASE UNCHANGED vars
  <2>1. UNCHANGED <<ownerships, up, runs>>
    BY <1>9 DEF vars
  <2>2. \A d \in Coordinators, q \in Requests : Recovering(d, q)' = Recovering(d, q)
    BY <2>1 DEF Recovering, InRequest
  <2> QED
    BY <2>1, <2>2, HoldersStay
<1> QED
  BY <1>2, <1>3, <1>4, <1>6, <1>7, <1>8, <1>9, StepCases

LEMMA HoldersExclude ==
  ASSUME IInv, HoldersRun
  PROVE  RecoveryExclusive
<1> SUFFICES ASSUME NEW r \in Requests
             PROVE  Cardinality({c \in up : InRequest(runs[c][r]) /\ runs[c][r].mode = "recovery"}) <= 1
  BY DEF RecoveryExclusive
<1> DEFINE S == {c \in up : InRequest(runs[c][r]) /\ runs[c][r].mode = "recovery"}
           holder == ownerships[r].owner
<1>1. S \subseteq {holder}
  <2>1. up \subseteq Coordinators
    BY DEF IInv, TypeOK
  <2> QED
    BY <2>1 DEF HoldersRun, Recovering
<1>2. IsFiniteSet({holder}) /\ Cardinality({holder}) = 1
  BY FS_Singleton
<1>3. Cardinality(S) <= Cardinality({holder})
  BY <1>1, <1>2, FS_Subset
<1> QED
  BY <1>2, <1>3

\* claimRecoveryOwnership, the renewal timer and the release at the end of a run
\* (durable-recovery-runner.ts) keep a request in the hands of one recovering
\* instance, whatever crashes, takes over or polls, while renewals come in time.
THEOREM RecoveriesExclusive == Spec /\ HoldersRenew => []RecoveryExclusive
<1>1. Init => HoldersRun
  BY DEF Init, HoldersRun, Recovering, InRequest, NoRun
<1>2. /\ IInv /\ HoldersRun /\ [Next]_vars
      /\ [\A r \in Requests, c \in Coordinators :
            ClaimExpires(r) /\ Recovering(c, r) => ownerships[r].owner # c]_vars
      => HoldersRun'
  <2> SUFFICES ASSUME IInv, HoldersRun, [Next]_vars,
                      [\A r \in Requests, c \in Coordinators :
                         ClaimExpires(r) /\ Recovering(c, r) => ownerships[r].owner # c]_vars
               PROVE  HoldersRun'
    OBVIOUS
  <2>1. CASE \A r \in Requests, c \in Coordinators :
               ClaimExpires(r) /\ Recovering(c, r) => ownerships[r].owner # c
    BY <2>1, StepHolders
  <2>2. CASE UNCHANGED vars
    BY <2>2 DEF vars, HoldersRun, Recovering, InRequest
  <2> QED
    BY <2>1, <2>2
<1>3. IInv /\ HoldersRun => RecoveryExclusive
  BY HoldersExclude
<1> QED
  BY <1>1, <1>2, <1>3, Invariance, PTL DEF Spec, HoldersRenew

------------------------------------------------------------------------------
(***************************************************************************)
(* The fourth result: no two runs have one worker generation at work for   *)
(* them, as long as no busy worker is taken for lost.  A run's generation, *)
(* while it is current, is marked busy, and only idle workers are          *)
(* assigned.                                                               *)
(***************************************************************************)

\* The worker generation a run's assignment is on.
Place(c, r) == <<attempts[runs[c][r].id].worker, attempts[runs[c][r].id].gen>>

\* Worker w, if g is its current generation, is busy.
BusyAt(ws, w, g) == ws[w].gen >= g /\ (isCurrent(ws, w, g) => ws[w].stage = "busy")

WorkerInv ==
  /\ \A i \in DOMAIN attempts : attempts[i].gen <= workers[attempts[i].worker].gen
  /\ \A c \in Coordinators, r \in Requests :
       Assigned(runs[c][r]) => BusyAt(workers, Place(c, r)[1], Place(c, r)[2])
  /\ \A c, d \in Coordinators, r, q \in Requests :
       Assigned(runs[c][r]) /\ Assigned(runs[d][q]) /\ Place(c, r) = Place(d, q) =>
         c = d /\ r = q

\* The heartbeat monitor never finds a worker timed out that is at work.
BusyWorkersAreHeard ==
  [][\A w \in Workers : HeartbeatTimeout(w) => workers[w].stage # "busy"]_vars

\* From ws to new no generation comes back, and a busy one stays busy until it
\* is revoked, but for those in freed.
FreesOnly(ws, new, freed) ==
  \A w \in Workers :
    /\ ws[w].gen <= new[w].gen
    /\ ws[w].gen = new[w].gen =>
         /\ ws[w].stage = "absent" => new[w].stage = "absent"
         /\ ws[w].stage = "busy" =>
              new[w].stage \in {"busy", "absent"} \/ <<w, ws[w].gen>> \in freed

LEMMA FreesNothing ==
  ASSUME NEW ws, WorkersTyped(ws)
  PROVE  \A freed : FreesOnly(ws, ws, freed)
BY DEF FreesOnly, WorkersTyped

LEMMA MarkFrees ==
  ASSUME NEW ws, WorkersTyped(ws), NEW w \in Workers, NEW g \in Nat,
         NEW stage \in {"idle", "disconnected"}
  PROVE  FreesOnly(ws, markStage(ws, w, g, stage), {<<w, g>>})
BY DEF FreesOnly, WorkersTyped, markStage, isCurrent

LEMMA RevokeFrees ==
  ASSUME NEW ws, WorkersTyped(ws), NEW w \in Workers, NEW g \in Nat
  PROVE  \A freed : FreesOnly(ws, revokeGeneration(ws, w, g), freed)
BY DEF FreesOnly, WorkersTyped, revokeGeneration, markStage, isCurrent

LEMMA FreesTwice ==
  ASSUME NEW ws, NEW mid, NEW new, WorkersTyped(ws), WorkersTyped(mid), WorkersTyped(new), NEW freed,
         FreesOnly(ws, mid, freed), FreesOnly(mid, new, freed)
  PROVE  FreesOnly(ws, new, freed)
<1> SUFFICES ASSUME NEW w \in Workers
             PROVE  /\ ws[w].gen <= new[w].gen
                    /\ ws[w].gen = new[w].gen =>
                         /\ ws[w].stage = "absent" => new[w].stage = "absent"
                         /\ ws[w].stage = "busy" =>
                              new[w].stage \in {"busy", "absent"} \/ <<w, ws[w].gen>> \in freed
  BY Zenon DEF FreesOnly
<1>1. ws[w].gen \in Nat /\ mid[w].gen \in Nat /\ new[w].gen \in Nat
  BY DEF WorkersTyped
<1>2. ws[w].gen <= mid[w].gen /\ mid[w].gen <= new[w].gen
  BY DEF FreesOnly
<1>3. ASSUME ws[w].gen = new[w].gen
      PROVE  ws[w].gen = mid[w].gen /\ mid[w].gen = new[w].gen
  BY <1>1, <1>2, <1>3
<1>4. ws[w].gen <= new[w].gen
  BY <1>1, <1>2
<1> QED
  BY <1>3, <1>4 DEF FreesOnly

\* What was busy is, unless it was freed.
LEMMA StillBusy ==
  ASSUME NEW ws, NEW new, WorkersTyped(ws), WorkersTyped(new), NEW freed, FreesOnly(ws, new, freed),
         NEW w \in Workers, NEW g \in Nat, BusyAt(ws, w, g), <<w, g>> \notin freed
  PROVE  BusyAt(new, w, g)
<1>1. /\ ws[w].gen \in Nat /\ new[w].gen \in Nat /\ ws[w].gen <= new[w].gen /\ g <= ws[w].gen
      /\ ws[w].stage \in WorkerStages
  BY DEF WorkersTyped, FreesOnly, BusyAt
<1>2. ASSUME isCurrent(new, w, g)
      PROVE  new[w].stage = "busy"
  <2>1. ws[w].gen = g /\ new[w].gen = g /\ new[w].stage # "absent"
    BY <1>1, <1>2 DEF isCurrent
  <2>2. ws[w].stage # "absent"
    BY <2>1 DEF FreesOnly
  <2>3. ws[w].stage = "busy"
    BY <2>1, <2>2 DEF BusyAt, isCurrent
  <2> QED
    BY <2>1, <2>3 DEF FreesOnly
<1> QED
  BY <1>1, <1>2 DEF BusyAt

\* No run has a new assignment.
AssignmentsGoOn ==
  \A c \in Coordinators, r \in Requests :
    Assigned(runs'[c][r]) => Assigned(runs[c][r]) /\ runs'[c][r].id = runs[c][r].id

\* The place of a run that keeps its assignment.
LEMMA PlaceKept ==
  ASSUME IInv, SameAttempts, AssignmentsGoOn, NEW c \in Coordinators, NEW r \in Requests,
         Assigned(runs'[c][r])
  PROVE  /\ Assigned(runs[c][r])
         /\ Place(c, r)' = Place(c, r)
         /\ Place(c, r)[1] \in Workers /\ Place(c, r)[2] \in Nat
<1>1. Assigned(runs[c][r]) /\ runs'[c][r].id = runs[c][r].id
  BY DEF AssignmentsGoOn
<1>2. runs[c][r].id \in DOMAIN attempts
  BY <1>1, AssignedFacts
<1>3. attempts[runs[c][r].id].worker \in Workers /\ attempts[runs[c][r].id].gen \in Nat
  BY <1>2, Parts, AttemptTyped
<1> QED
  BY <1>1, <1>2, <1>3 DEF SameAttempts, AttemptsKept, Place

\* A step that issues nothing, and frees nobody but the place of a run that
\* gives up its assignment.
LEMMA WorkerInvKept ==
  ASSUME IInv, IInv', WorkerInv, SameAttempts, AssignmentsGoOn, NEW freed,
         FreesOnly(workers, workers', freed),
         \A c \in Coordinators, r \in Requests : Assigned(runs'[c][r]) => Place(c, r) \notin freed
  PROVE  WorkerInv'
<1>1. WorkersTyped(workers) /\ WorkersTyped(workers')
  BY DEF IInv, TypeOK, WorkersTyped
<1>2. ASSUME NEW i \in DOMAIN attempts'
      PROVE  attempts'[i].gen <= workers'[attempts'[i].worker].gen
  <2>1. i \in DOMAIN attempts
    BY DEF SameAttempts
  <2>2. attempts[i].worker \in Workers /\ attempts[i].gen \in Nat
    BY <2>1, Parts, AttemptTyped
  <2>3. attempts'[i].worker = attempts[i].worker /\ attempts'[i].gen = attempts[i].gen
    BY <2>1 DEF SameAttempts, AttemptsKept
  <2>4. attempts[i].gen <= workers[attempts[i].worker].gen
    BY <2>1 DEF WorkerInv
  <2>5. workers[attempts[i].worker].gen <= workers'[attempts[i].worker].gen
    BY <2>2 DEF FreesOnly
  <2>6. workers[attempts[i].worker].gen \in Nat /\ workers'[attempts[i].worker].gen \in Nat
    BY <1>1, <2>2 DEF WorkersTyped
  <2> QED
    BY <2>2, <2>3, <2>4, <2>5, <2>6
<1>3. ASSUME NEW c \in Coordinators, NEW r \in Requests, Assigned(runs'[c][r])
      PROVE  BusyAt(workers', Place(c, r)'[1], Place(c, r)'[2])
  <2>1. /\ Assigned(runs[c][r]) /\ Place(c, r)' = Place(c, r)
        /\ Place(c, r)[1] \in Workers /\ Place(c, r)[2] \in Nat
    BY <1>3, PlaceKept
  <2>2. BusyAt(workers, Place(c, r)[1], Place(c, r)[2])
    BY <2>1 DEF WorkerInv
  <2>3. <<Place(c, r)[1], Place(c, r)[2]>> \notin freed
    BY <1>3 DEF Place
  <2> QED
    BY <1>1, <2>1, <2>2, <2>3, StillBusy
<1>4. ASSUME NEW c \in Coordinators, NEW d \in Coordinators, NEW r \in Requests, NEW q \in Requests,
             Assigned(runs'[c][r]), Assigned(runs'[d][q]), Place(c, r)' = Place(d, q)'
      PROVE  c = d /\ r = q
  <2>1. /\ Assigned(runs[c][r]) /\ Place(c, r)' = Place(c, r)
        /\ Assigned(runs[d][q]) /\ Place(d, q)' = Place(d, q)
    BY <1>4, PlaceKept
  <2> QED
    BY <1>4, <2>1 DEF WorkerInv
<1>5. \A c \in Coordinators, r \in Requests :
        Assigned(runs[c][r])' => BusyAt(workers, Place(c, r)[1], Place(c, r)[2])'
  BY <1>3 DEF Assigned, BusyAt, isCurrent
<1>6. \A c, d \in Coordinators, r, q \in Requests :
        (Assigned(runs[c][r]) /\ Assigned(runs[d][q]) /\ Place(c, r) = Place(d, q))' =>
          c = d /\ r = q
  BY <1>4 DEF Assigned
<1> QED
  BY <1>2, <1>5, <1>6 DEF WorkerInv

LEMMA FirstVerdictFrees ==
  ASSUME IInv, NEW id \in DOMAIN attempts, NEW payload \in Payloads,
         ApplyFirstVerdict(id, FirstVerdict(id, payload))
  PROVE  FreesOnly(workers, workers', {})
<1>1. UNCHANGED workers \/ workers' = isolatedWorkers(workers, id)
  BY DEF ApplyFirstVerdict
<1>2. WorkersTyped(workers) /\ attempts[id].worker \in Workers /\ attempts[id].gen \in Nat
  BY Parts, AttemptTyped
<1> QED
  BY <1>1, <1>2, FreesNothing, RevokeFrees DEF isolatedWorkers

LEMMA SecondVerdictFrees ==
  ASSUME IInv, NEW id \in DOMAIN attempts, NEW payload,
         ApplySecondVerdict(id, payload, SecondVerdict(id, payload))
  PROVE  FreesOnly(workers, workers', {})
<1>1. UNCHANGED workers \/ workers' = isolatedWorkers(workers, id)
  BY DEF ApplySecondVerdict
<1>2. WorkersTyped(workers) /\ attempts[id].worker \in Workers /\ attempts[id].gen \in Nat
  BY Parts, AttemptTyped
<1> QED
  BY <1>1, <1>2, FreesNothing, RevokeFrees DEF isolatedWorkers

\* A run that gives up its assignment frees its own place, and no other.
LEMMA GivenUp ==
  ASSUME IInv, NEW c \in Coordinators, NEW r \in Requests, Assigned(runs[c][r])
  PROVE  LET id == runs[c][r].id
             idle == IdleAgain(runs[c][r])
         IN /\ WorkersTyped(idle)
            /\ FreesOnly(workers, idle, {Place(c, r)})
            /\ FreesOnly(workers, isolatedWorkers(idle, id), {Place(c, r)})
            /\ FreesOnly(workers,
                         markStage(idle, attempts[id].worker, attempts[id].gen, "disconnected"),
                         {Place(c, r)})
<1> DEFINE id == runs[c][r].id
           w == attempts[id].worker
           g == attempts[id].gen
           idle == IdleAgain(runs[c][r])
           gone == markStage(idle, w, g, "disconnected")
           isolated == revokeGeneration(idle, w, g)
<1>1. id \in DOMAIN attempts
  BY AssignedFacts
<1>2. WorkersTyped(workers) /\ w \in Workers /\ g \in Nat
  BY <1>1, Parts, AttemptTyped
<1>3. Place(c, r) = <<w, g>> /\ idle = markStage(workers, w, g, "idle")
      /\ isolatedWorkers(idle, id) = isolated
  BY DEF Place, IdleAgain, isolatedWorkers
<1> HIDE DEF w, g, id, idle, gone, isolated
<1>4. WorkersTyped(idle) /\ FreesOnly(workers, idle, {<<w, g>>})
  BY <1>2, <1>3, MarkFrees, MarkEffect
<1>5. WorkersTyped(gone) /\ FreesOnly(idle, gone, {<<w, g>>})
  BY <1>2, <1>4, MarkFrees, MarkEffect DEF gone
<1>6. WorkersTyped(isolated) /\ FreesOnly(idle, isolated, {<<w, g>>})
  <2>1. WorkersTyped(isolated)
    BY <1>2, <1>4 DEF isolated, revokeGeneration, markStage, isCurrent, WorkersTyped, WorkerStages
  <2> QED
    BY <1>2, <1>4, <2>1, RevokeFrees DEF isolated
<1>7. FreesOnly(workers, gone, {<<w, g>>}) /\ FreesOnly(workers, isolated, {<<w, g>>})
  BY <1>2, <1>4, <1>5, <1>6, FreesTwice
<1>8. /\ WorkersTyped(idle) /\ FreesOnly(workers, idle, {Place(c, r)})
      /\ FreesOnly(workers, isolatedWorkers(idle, id), {Place(c, r)})
      /\ FreesOnly(workers, gone, {Place(c, r)})
  BY <1>3, <1>4, <1>7, Zenon
<1> QED
  BY <1>8, Zenon DEF w, g, id, idle, gone

\* What a run's own step does to the workers.
LEMMA OwnStepFrees ==
  ASSUME IInv, NEW c \in Coordinators, NEW r \in Requests, OwnStep(c, r)
  PROVE  \/ FreesOnly(workers, workers', {})
         \/ /\ FreesOnly(workers, workers', {Place(c, r)})
            /\ Assigned(runs[c][r]) /\ ~Assigned(runs'[c][r])
<1> DEFINE run == runs[c][r]
           id == run.id
<1>1. run \in RunRecord /\ WorkersTyped(workers)
  BY Parts
<1>2. CASE ExecutorResolves(c, r)
  <2>1. id \in DOMAIN attempts
    BY <1>2, AssignedFacts DEF ExecutorResolves, Assigned
  <2>2. PICK payload \in Payloads : ApplyFirstVerdict(id, FirstVerdict(id, payload))
    BY <1>2 DEF ExecutorResolves
  <2> HIDE DEF id
  <2> QED
    BY <2>1, <2>2, FirstVerdictFrees
<1>3. CASE CheckpointValidated(c, r)
  <2>1. id \in DOMAIN attempts
    BY <1>3, AssignedFacts DEF CheckpointValidated, Assigned
  <2>2. ApplySecondVerdict(id, run.arg, SecondVerdict(id, run.arg))
    BY <1>3 DEF CheckpointValidated
  <2> QED
    BY <2>1, <2>2, SecondVerdictFrees
<1>4. CASE \/ ExecutorFails(c, r) \/ ExecutionAborted(c, r) \/ AdvanceRefused(c, r)
           \/ ReturnVerdict(c, r) \/ RejectVerdict(c, r)
  <2> DEFINE idle == IdleAgain(run)
             gone == markStage(idle, attempts[id].worker, attempts[id].gen, "disconnected")
  <2>1. Assigned(run)
    BY <1>4 DEF ExecutorFails, ExecutionAborted, AdvanceRefused, ReturnVerdict, RejectVerdict,
                Assigned
  <2>2. workers' \in {idle, gone, isolatedWorkers(idle, id)}
    <3>1. CASE ExecutorFails(c, r)
      BY <3>1 DEF ExecutorFails
    <3>2. CASE ~ExecutorFails(c, r)
      BY <1>4, <3>2 DEF ExecutionAborted, AdvanceRefused, ReturnVerdict, RejectVerdict
    <3> QED
      BY <3>1, <3>2
  <2>3. \/ \E how : SetRun(c, r, Ending(run, how))
        \/ SetRun(c, r, Waiting(run))
    <3>1. CASE ExecutorFails(c, r)
      BY <3>1 DEF ExecutorFails, Waiting
    <3>2. CASE ~ExecutorFails(c, r)
      BY <1>4, <3>2 DEF ExecutionAborted, AdvanceRefused, ReturnVerdict, RejectVerdict
    <3> QED
      BY <3>1, <3>2
  <2> HIDE DEF run
  <2>4. runs'[c][r].pc \in {"ending", "delay"}
    BY <1>1, <2>3, RunEnded, RunWaits
  <2>5. FreesOnly(workers, workers', {Place(c, r)})
    BY <2>1, <2>2, GivenUp DEF run
  <2> QED
    BY <2>1, <2>4, <2>5 DEF Assigned, run
<1>5. CASE \/ RecoverySleepAborted(c, r) \/ RunEnds(c, r) \/ RenewOwnership(c, r)
           \/ DeadlineTimer(c, r) \/ Cancel(c, r) \/ CallerAborts(c, r)
  <2>1. UNCHANGED workers
    BY <1>5 DEF RecoverySleepAborted, RunEnds, RenewOwnership, DeadlineTimer, Cancel, CallerAborts,
                durable
  <2> QED
    BY <1>1, <2>1, FreesNothing
<1> QED
  BY <1>2, <1>3, <1>4, <1>5 DEF OwnStep

\* And what happens outside the runs.
LEMMA OutsideStepFrees ==
  ASSUME IInv, OutsideStep, \A w \in Workers : HeartbeatTimeout(w) => workers[w].stage # "busy"
  PROVE  FreesOnly(workers, workers', {})
<1>1. WorkersTyped(workers)
  BY Parts
<1>2. ASSUME NEW c \in Coordinators, NEW id \in DOMAIN attempts, PushResult(c, id) \/ PushFailure(c, id)
      PROVE  FreesOnly(workers, workers', {})
  <2>1. CASE PushResult(c, id)
    BY <2>1, FirstVerdictFrees DEF PushResult
  <2>2. CASE PushFailure(c, id)
    <3>1. UNCHANGED workers \/ workers' = isolatedWorkers(workers, id)
      BY <2>2 DEF PushFailure
    <3>2. attempts[id].worker \in Workers /\ attempts[id].gen \in Nat
      BY Parts, AttemptTyped
    <3> QED
      BY <1>1, <3>1, <3>2, FreesNothing, RevokeFrees DEF isolatedWorkers
  <2> QED
    BY <1>2, <2>1, <2>2
<1>3. ASSUME NEW p \in pushes, PushValidated(p)
      PROVE  FreesOnly(workers, workers', {})
  <2>1. p.id \in DOMAIN attempts
    BY DEF IInv, PushSound
  <2> QED
    BY <1>3, <2>1, SecondVerdictFrees DEF PushValidated
<1>4. ASSUME NEW w \in Workers, RegisterWorker(w) \/ WorkerHeartbeat(w)
      PROVE  FreesOnly(workers, workers', {})
  <2>1. workers' = connect(workers, w) \/ workers' = heartbeat(workers, w)
    BY <1>4 DEF RegisterWorker, WorkerHeartbeat
  <2> QED
    BY <1>1, <2>1 DEF connect, heartbeat, FreesOnly, WorkersTyped
<1>5. ASSUME NEW w \in Workers, RemoveWorker(w)
      PROVE  FreesOnly(workers, workers', {})
  <2>1. workers' = revokeGeneration(workers, w, workers[w].gen) /\ workers[w].gen \in Nat
    BY <1>1, <1>5 DEF RemoveWorker, WorkersTyped
  <2> QED
    BY <1>1, <2>1, RevokeFrees
<1>6. ASSUME NEW w \in Workers, HeartbeatTimeout(w)
      PROVE  FreesOnly(workers, workers', {})
  <2>1. /\ workers' = markStage(workers, w, workers[w].gen, "disconnected")
        /\ workers[w].stage \notin {"absent", "busy"}
    BY <1>6 DEF HeartbeatTimeout
  <2> QED
    BY <1>1, <2>1 DEF markStage, isCurrent, FreesOnly, WorkersTyped
<1>7. CASE \/ \E r \in Requests : DeadlinePasses(r) \/ LeaseGrowsOld(r) \/ ClaimExpires(r)
           \/ \E r \in Requests, s \in Segments : CheckpointExpires(r, s)
           \/ CheckpointCleanup
  <2>1. UNCHANGED workers
    BY <1>7 DEF DeadlinePasses, LeaseGrowsOld, ClaimExpires, CheckpointExpires, CheckpointCleanup
  <2> QED
    BY <1>1, <2>1, FreesNothing
<1> QED
  BY <1>2, <1>3, <1>4, <1>5, <1>6, <1>7 DEF OutsideStep

\* A turn assigns only an idle worker, and no run has an assignment on it.
LEMMA TurnWorkerInv ==
  ASSUME IInv, IInv', WorkerInv, NEW c \in Coordinators, NEW r \in Requests, NEW rec,
         NEW ws, WorkersTyped(ws), NEW run, Turned(c, r, rec, ws, run),
         NEW freed, FreesOnly(workers, ws, freed),
         freed = {} \/ (freed = {Place(c, r)} /\ Assigned(runs[c][r]))
  PROVE  WorkerInv'
<1>1. /\ WorkersTyped(workers) /\ WorkersTyped(workers')
      /\ DOMAIN attempts = 1 .. Len(attempts) /\ Len(attempts) \in Nat
  BY Parts, LenProperties DEF IInv, TypeOK, WorkersTyped
<1> DEFINE Other(d, q) == ~(d = c /\ q = r)
           Issues(id) == \E w \in availableWorkers(ws) : Issued(r, id, w, ws)
<1>2. \A i \in DOMAIN attempts : i \in DOMAIN attempts' /\ attempts'[i] = attempts[i]
  BY <1>1 DEF Turned, Issued
<1>3. ASSUME NEW d \in Coordinators, NEW q \in Requests, Other(d, q)
      PROVE  /\ runs'[d][q] = runs[d][q]
             /\ Assigned(runs[d][q]) =>
                  /\ Place(d, q)' = Place(d, q)
                  /\ Place(d, q)[1] \in Workers /\ Place(d, q)[2] \in Nat
                  /\ BusyAt(ws, Place(d, q)[1], Place(d, q)[2])
  <2>1. runs'[d][q] = runs[d][q]
    BY <1>3 DEF Turned
  <2>2. ASSUME Assigned(runs[d][q])
        PROVE  /\ Place(d, q)' = Place(d, q)
               /\ Place(d, q)[1] \in Workers /\ Place(d, q)[2] \in Nat
    <3>1. runs[d][q].id \in DOMAIN attempts
      BY <2>2, AssignedFacts
    <3>2. attempts[runs[d][q].id].worker \in Workers /\ attempts[runs[d][q].id].gen \in Nat
      BY <3>1, Parts, AttemptTyped
    <3> QED
      BY <1>2, <2>1, <3>1, <3>2 DEF Place
  <2>3. ASSUME Assigned(runs[d][q])
        PROVE  BusyAt(ws, Place(d, q)[1], Place(d, q)[2])
    <3>1. BusyAt(workers, Place(d, q)[1], Place(d, q)[2])
      BY <2>3 DEF WorkerInv
    <3>2. Place(d, q) \notin freed
      BY <1>3, <2>3 DEF WorkerInv
    <3>3. <<Place(d, q)[1], Place(d, q)[2]>> \notin freed
      BY <3>2 DEF Place
    <3> QED
      BY <1>1, <2>2, <2>3, <3>1, <3>3, StillBusy
  <2> QED
    BY <2>1, <2>2, <2>3
<1>4. ASSUME NEW i \in DOMAIN attempts
      PROVE  attempts'[i].gen <= ws[attempts'[i].worker].gen
  <2>1. attempts[i].worker \in Workers /\ attempts[i].gen \in Nat
    BY Parts, AttemptTyped
  <2>2. /\ attempts[i].gen <= workers[attempts[i].worker].gen
        /\ workers[attempts[i].worker].gen <= ws[attempts[i].worker].gen
    BY <2>1 DEF WorkerInv, FreesOnly
  <2>3. workers[attempts[i].worker].gen \in Nat /\ ws[attempts[i].worker].gen \in Nat
    BY <1>1, <2>1 DEF WorkersTyped
  <2> QED
    BY <1>2, <2>1, <2>2, <2>3
<1>5. CASE workers' = ws /\ ~Assigned(runs'[c][r])
  <2>1. ASSUME NEW i \in DOMAIN attempts'
        PROVE  attempts'[i].gen <= workers'[attempts'[i].worker].gen
    <3>1. CASE i \in DOMAIN attempts
      BY <1>4, <1>5, <3>1
    <3>2. CASE i \notin DOMAIN attempts
      <4>1. PICK w \in availableWorkers(ws) : attempts'[i].worker = w /\ attempts'[i].gen = ws[w].gen
        BY <1>1, <3>2 DEF Turned, Issued
      <4>2. ws[w].gen \in Nat
        BY DEF availableWorkers, WorkersTyped
      <4> QED
        BY <1>5, <4>1, <4>2
    <3> QED
      BY <3>1, <3>2
  <2>2. \A d \in Coordinators, q \in Requests :
          Assigned(runs[d][q])' => Other(d, q) /\ Assigned(runs[d][q])
    BY <1>3, <1>5 DEF Assigned
  <2>3. \A d \in Coordinators, q \in Requests :
          Assigned(runs[d][q])' => BusyAt(workers, Place(d, q)[1], Place(d, q)[2])'
    BY <1>3, <1>5, <2>2 DEF BusyAt, isCurrent
  <2>4. \A d, e \in Coordinators, q, p \in Requests :
          (Assigned(runs[d][q]) /\ Assigned(runs[e][p]) /\ Place(d, q) = Place(e, p))' =>
            d = e /\ q = p
    BY <1>3, <2>2 DEF WorkerInv
  <2> QED
    BY <2>1, <2>3, <2>4 DEF WorkerInv
<1>6. ASSUME NEW w \in availableWorkers(ws), NEW id \in Nat, Issued(r, id, w, ws),
             runs'[c][r].pc = "executing", runs'[c][r].id = id,
             workers' = markStage(ws, w, ws[w].gen, "busy")
      PROVE  WorkerInv'
  <2>1. w \in Workers /\ ws[w].stage = "idle" /\ ws[w].gen \in Nat
    BY DEF availableWorkers, WorkersTyped
  <2>2. /\ workers'[w].stage = "busy" /\ workers'[w].gen = ws[w].gen
        /\ \A v \in Workers \ {w} : workers'[v] = ws[v]
    BY <1>6, <2>1 DEF markStage, isCurrent, WorkersTyped
  <2>3. \A v \in Workers, g \in Nat : BusyAt(ws, v, g) => BusyAt(workers', v, g)
    BY <2>2 DEF BusyAt, isCurrent
  <2>4. /\ Place(c, r)' = <<w, ws[w].gen>>
        /\ BusyAt(workers', w, ws[w].gen)
    BY <1>6, <2>1, <2>2 DEF Place, Issued, BusyAt, isCurrent
  <2>5. ASSUME NEW i \in DOMAIN attempts'
        PROVE  attempts'[i].gen <= workers'[attempts'[i].worker].gen
    <3>1. CASE i \in DOMAIN attempts
      <4>1. attempts'[i].worker \in Workers
        BY <1>2, <3>1, Parts, AttemptTyped
      <4>2. workers'[attempts'[i].worker].gen = ws[attempts'[i].worker].gen
        BY <2>2, <4>1
      <4> QED
        BY <1>4, <3>1, <4>2
    <3>2. CASE i \notin DOMAIN attempts
      <4>1. attempts'[i].worker = w /\ attempts'[i].gen = ws[w].gen
        BY <1>1, <1>6, <3>2 DEF Issued
      <4> QED
        BY <2>1, <2>2, <4>1
    <3> QED
      BY <3>1, <3>2
  <2>6. ASSUME NEW d \in Coordinators, NEW q \in Requests, Other(d, q), Assigned(runs'[d][q])
        PROVE  /\ Assigned(runs[d][q])
               /\ Place(d, q)' = Place(d, q)
               /\ BusyAt(workers', Place(d, q)'[1], Place(d, q)'[2])
               /\ Place(d, q)' # Place(c, r)'
    <3>1. /\ Assigned(runs[d][q])
          /\ Place(d, q)' = Place(d, q)
          /\ Place(d, q)[1] \in Workers /\ Place(d, q)[2] \in Nat
          /\ BusyAt(ws, Place(d, q)[1], Place(d, q)[2])
      BY <1>3, <2>6
    <3>2. ~BusyAt(ws, w, ws[w].gen)
      BY <2>1 DEF BusyAt, isCurrent
    <3>3. Place(d, q)' # Place(c, r)'
      BY <2>4, <3>1, <3>2
    <3> QED
      BY <2>3, <3>1, <3>3
  <2>7. \A d \in Coordinators, q \in Requests :
          Assigned(runs[d][q])' => BusyAt(workers, Place(d, q)[1], Place(d, q)[2])'
    <3>1. ASSUME NEW d \in Coordinators, NEW q \in Requests, Assigned(runs'[d][q])
          PROVE  BusyAt(workers', Place(d, q)'[1], Place(d, q)'[2])
      BY <2>4, <2>6, <3>1
    <3> QED
      BY <3>1 DEF Assigned, BusyAt, isCurrent
  <2>8. \A d, e \in Coordinators, q, p \in Requests :
          (Assigned(runs[d][q]) /\ Assigned(runs[e][p]) /\ Place(d, q) = Place(e, p))' =>
            d = e /\ q = p
    <3>1. ASSUME NEW d \in Coordinators, NEW e \in Coordinators, NEW q \in Requests, NEW p \in Requests,
                 Assigned(runs'[d][q]), Assigned(runs'[e][p]), Place(d, q)' = Place(e, p)'
          PROVE  d = e /\ q = p
      <4>1. CASE Other(d, q) /\ Other(e, p)
        BY <2>6, <3>1, <4>1 DEF WorkerInv
      <4>2. CASE ~(Other(d, q) /\ Other(e, p))
        BY <2>6, <3>1, <4>2
      <4> QED
        BY <4>1, <4>2
    <3> QED
      BY <3>1 DEF Assigned
  <2> QED
    BY <2>5, <2>7, <2>8 DEF WorkerInv
<1>7. \/ workers' = ws /\ runs'[c][r].pc \in {"ending", "delay"}
      \/ \E w \in availableWorkers(ws), id \in Nat :
           /\ Issued(r, id, w, ws)
           /\ runs'[c][r].pc = "executing" /\ runs'[c][r].id = id
           /\ workers' = markStage(ws, w, ws[w].gen, "busy")
  BY DEF Turned
<1> QED
  BY <1>5, <1>6, <1>7 DEF Assigned

LEMMA StepWorkerInv ==
  ASSUME IInv, IInv', WorkerInv, [Next]_vars,
         \A w \in Workers : HeartbeatTimeout(w) => workers[w].stage # "busy"
  PROVE  WorkerInv'
<1>1. WorkersTyped(workers) /\ FreesOnly(workers, workers, {})
  BY Parts, FreesNothing
<1>2. ASSUME SameAttempts, AssignmentsGoOn, FreesOnly(workers, workers', {})
      PROVE  WorkerInv'
  BY <1>2, WorkerInvKept
<1>11. RunsGoOn => AssignmentsGoOn
  BY DEF RunsGoOn, Onward, AssignmentsGoOn
<1>3. ASSUME NEW c \in Coordinators, NEW r \in Requests, OwnStep(c, r)
      PROVE  WorkerInv'
  <2>1. SameAttempts /\ AssignmentsGoOn
    BY <1>3, <1>11, OwnStepRuns, OwnStepProgress, ExecutorFailsProgress DEF ProgressKept
  <2>2. CASE FreesOnly(workers, workers', {})
    BY <1>2, <2>1, <2>2
  <2>3. CASE /\ FreesOnly(workers, workers', {Place(c, r)})
             /\ Assigned(runs[c][r]) /\ ~Assigned(runs'[c][r])
    <3>1. ASSUME NEW d \in Coordinators, NEW q \in Requests, Assigned(runs'[d][q])
          PROVE  Place(d, q) \notin {Place(c, r)}
      <4>1. Assigned(runs[d][q])
        BY <2>1, <3>1 DEF AssignmentsGoOn
      <4> QED
        BY <2>3, <3>1, <4>1 DEF WorkerInv
    <3> QED
      BY <2>1, <2>3, <3>1, WorkerInvKept
  <2> QED
    BY <1>3, <2>2, <2>3, OwnStepFrees
<1>4. CASE OutsideStep
  <2>1. UNCHANGED <<runs, up>> /\ ProgressKept
    BY <1>4, OutsideStepEffect
  <2>2. SameAttempts /\ AssignmentsGoOn
    BY <1>11, <2>1, RunsStay DEF ProgressKept
  <2> QED
    BY <1>2, <1>4, <2>2, OutsideStepFrees
<1>5. ASSUME NEW c \in Coordinators, Crash(c)
      PROVE  WorkerInv'
  <2>1. AssignmentsGoOn /\ SameAttempts /\ \A r \in Requests : runs'[c][r] = NoRun
    BY <1>5, <1>11, CrashEffect DEF ProgressKept
  <2>2. CASE UNCHANGED workers
    BY <1>1, <1>2, <2>1, <2>2
  <2>3. ASSUME NEW r \in Requests, BetweenHops(c, r)
        PROVE  WorkerInv'
    <3>1. Assigned(runs[c][r]) /\ workers' = IdleAgain(runs[c][r])
      BY <2>3 DEF BetweenHops, Assigned
    <3>2. FreesOnly(workers, workers', {Place(c, r)})
      BY <3>1, GivenUp
    <3>3. ~Assigned(runs'[c][r])
      BY <2>1 DEF NoRun, Assigned
    <3>4. ASSUME NEW d \in Coordinators, NEW q \in Requests, Assigned(runs'[d][q])
          PROVE  Place(d, q) \notin {Place(c, r)}
      <4>1. Assigned(runs[d][q])
        BY <2>1, <3>4 DEF AssignmentsGoOn
      <4> QED
        BY <3>1, <3>3, <3>4, <4>1 DEF WorkerInv
    <3> QED
      BY <2>1, <3>2, <3>4, WorkerInvKept
  <2> QED
    BY <1>5, <2>2, <2>3 DEF Crash
<1>6. ASSUME NEW c \in Coordinators, NEW r \in Requests, NEW rec, NEW run,
             Turned(c, r, rec, workers, run)
      PROVE  WorkerInv'
  <2> DEFINE nobody == {}
  <2>1. FreesOnly(workers, workers, nobody) /\ nobody = {}
    BY <1>1
  <2> HIDE DEF nobody
  <2> QED
    BY <1>1, <1>6, <2>1, TurnWorkerInv
<1>7. ASSUME NEW c \in Coordinators, NEW r \in Requests, AdvanceSegment(c, r)
      PROVE  WorkerInv'
  <2> DEFINE ws == IdleAgain(runs[c][r])
  <2>1. PICK rec, run : Turned(c, r, rec, ws, run)
    BY <1>7, AdvanceTurned
  <2>2. Assigned(runs[c][r])
    BY <1>7 DEF AdvanceSegment, Assigned
  <2>3. WorkersTyped(ws) /\ FreesOnly(workers, ws, {Place(c, r)})
    BY <2>2, GivenUp
  <2> HIDE DEF ws
  <2> QED
    BY <2>1, <2>2, <2>3, TurnWorkerInv
<1>8. ASSUME NEW c \in Coordinators, NEW r \in Requests, Recover(c, r) \/ RecoveryPoll(c, r)
      PROVE  WorkerInv'
  <2>1. BeginRecovery(c, r)
    BY <1>8 DEF Recover, RecoveryPoll
  <2>2. requests[r].stage # "absent"
    BY <1>8, RunSubmitted DEF Recover, RecoveryPoll, REQUEST_STAGES
  <2>3. CASE Rested(c, r)
    <3>1. /\ UNCHANGED <<attempts, workers>>
          /\ runs'[c][r].pc \in {"none", "sleep"}
          /\ \A d \in Coordinators, q \in Requests : runs'[d][q] = runs[d][q] \/ (d = c /\ q = r)
      BY <2>3 DEF Rested
    <3>2. SameAttempts
      BY <3>1, AttemptsAfter
    <3>3. AssignmentsGoOn
      BY <3>1 DEF Assigned, AssignmentsGoOn
    <3> QED
      BY <1>1, <1>2, <3>1, <3>2, <3>3
  <2>4. CASE ~Rested(c, r)
    BY <1>6, <2>1, <2>2, <2>4, RecoveryTurned
  <2> QED
    BY <2>3, <2>4
<1>9. CASE UNCHANGED vars
  <2>1. UNCHANGED <<runs, workers, attempts>>
    BY <1>9 DEF vars
  <2>2. SameAttempts /\ AssignmentsGoOn
    BY <1>11, <2>1, AttemptsAfter, RunsStay
  <2> QED
    BY <1>1, <1>2, <2>1, <2>2
<1>10. ASSUME NEW c \in Coordinators, NEW r \in Requests, Submit(c, r) \/ DelayOver(c, r)
       PROVE  WorkerInv'
  BY <1>6, <1>10, SubmitTurned, DelayTurned
<1> QED
  BY <1>3, <1>4, <1>5, <1>7, <1>8, <1>9, <1>10, StepCases

\* A generation executes for one run at a time: a worker is assigned only while
\* it is idle, markIdle and markDisconnected reach no newer connection, and a
\* new connection is a new generation (worker-registry.ts), across retries,
\* takeovers, reconnects and isolation, as long as a worker at work is heard.
THEOREM WorkersExclusive == Spec /\ BusyWorkersAreHeard => []WorkerExclusive
<1>1. Init => WorkerInv
  BY DEF Init, WorkerInv, Assigned, NoRun
<1>2. /\ IInv /\ IInv' /\ WorkerInv /\ [Next]_vars
      /\ [\A w \in Workers : HeartbeatTimeout(w) => workers[w].stage # "busy"]_vars
      => WorkerInv'
  <2> SUFFICES ASSUME IInv, IInv', WorkerInv, [Next]_vars,
                      [\A w \in Workers : HeartbeatTimeout(w) => workers[w].stage # "busy"]_vars
               PROVE  WorkerInv'
    OBVIOUS
  <2>1. CASE \A w \in Workers : HeartbeatTimeout(w) => workers[w].stage # "busy"
    BY <2>1, StepWorkerInv, SMTT(30)
  <2>2. CASE UNCHANGED vars
    BY <2>2 DEF vars, WorkerInv, Assigned, Place, BusyAt, isCurrent
  <2> QED
    BY <2>1, <2>2
<1>3. WorkerInv => WorkerExclusive
  <2> SUFFICES ASSUME WorkerInv, NEW c \in Coordinators, NEW d \in Coordinators,
                      NEW r \in Requests, NEW q \in Requests, <<c, r>> # <<d, q>>,
                      runs[c][r].pc = "executing", runs[d][q].pc = "executing"
               PROVE  Place(c, r) # Place(d, q)
    BY DEF WorkerExclusive, Place
  <2>1. Assigned(runs[c][r]) /\ Assigned(runs[d][q])
    BY DEF Assigned
  <2> QED
    BY <2>1 DEF WorkerInv
<1> QED
  BY <1>1, <1>2, <1>3, Invariance, PTL DEF Spec, BusyWorkersAreHeard

------------------------------------------------------------------------------
(***************************************************************************)
(* The fifth result: the segment cursor never moves back, when a request   *)
(* is recovered only where no live instance runs it.  Then it has one run  *)
(* at a time, and a run at work stands at the cursor.                      *)
(***************************************************************************)

SoloInv ==
  /\ \A c, d \in Coordinators, r \in Requests :
       runs[c][r].pc # "none" /\ runs[d][r].pc # "none" => c = d
  /\ \A c \in Coordinators, r \in Requests :
       /\ runs[c][r].pc # "none" => c \in up
       /\ Working(runs[c][r]) => runs[c][r].segment = requests[r].currentSegment
  /\ \A r \in Requests : requests[r].stage = "absent" => requests[r].currentSegment = 0

CursorForward == \A r \in Requests : requests'[r].currentSegment >= requests[r].currentSegment

LEMMA CursorKept ==
  ASSUME IInv, \A r \in Requests : requests'[r].currentSegment = requests[r].currentSegment
  PROVE  CursorForward
<1>1. \A r \in Requests : requests[r].currentSegment \in Nat
  BY SegmentFacts DEF IInv, TypeOK, RequestRecord
<1> QED
  BY <1>1 DEF CursorForward

\* Runs that only go on.
LEMMA SoloKept ==
  ASSUME IInv, IInv', [Next]_vars, SoloInv, RunsGoOn,
         \A r \in Requests : requests'[r].currentSegment = requests[r].currentSegment,
         \A c \in Coordinators, r \in Requests : runs'[c][r].pc # "none" => c \in up' \/ c \notin up
  PROVE  SoloInv' /\ CursorForward
<1>1. ASSUME NEW c \in Coordinators, NEW r \in Requests
      PROVE  /\ runs'[c][r].pc # "none" => runs[c][r].pc # "none"
             /\ Working(runs'[c][r]) => Working(runs[c][r]) /\ runs'[c][r].segment = runs[c][r].segment
  BY DEF RunsGoOn, Onward
<1>2. \A c \in Coordinators, r \in Requests :
        Working(runs'[c][r]) => runs'[c][r].segment = requests'[r].currentSegment
  BY <1>1 DEF SoloInv
<1>3. \A c, d \in Coordinators, r \in Requests :
        runs'[c][r].pc # "none" /\ runs'[d][r].pc # "none" => c = d
  BY <1>1 DEF SoloInv
<1>4. \A c \in Coordinators, r \in Requests : runs'[c][r].pc # "none" => c \in up'
  BY <1>1 DEF SoloInv
<1>5. \A r \in Requests : requests'[r].stage = "absent" => requests'[r].currentSegment = 0
  BY StagesStay DEF SoloInv
<1> QED
  BY <1>2, <1>3, <1>4, <1>5, CursorKept DEF SoloInv, Working, Assigned

\* A step of the only run of a request.
LEMMA SoloTurn ==
  ASSUME IInv, IInv', [Next]_vars, SoloInv, NEW c \in Coordinators, NEW r \in Requests,
         \A d \in Coordinators : runs[d][r].pc # "none" => d = c,
         \A d \in Coordinators, q \in Requests : runs'[d][q] = runs[d][q] \/ (d = c /\ q = r),
         Working(runs'[c][r]) => runs'[c][r].segment = requests'[r].currentSegment,
         \A q \in Requests \ {r} : requests'[q].currentSegment = requests[q].currentSegment,
         requests'[r].currentSegment >= requests[r].currentSegment,
         requests'[r].stage = "absent" => requests'[r].currentSegment = 0,
         UNCHANGED up, c \in up
  PROVE  SoloInv' /\ CursorForward
<1>1. \A q \in Requests \ {r} : requests'[q].currentSegment >= requests[q].currentSegment
  <2>1. \A q \in Requests : requests[q].currentSegment \in Nat
    BY SegmentFacts DEF IInv, TypeOK, RequestRecord
  <2> QED
    BY <2>1
<1>2. \A d \in Coordinators, q \in Requests :
        Working(runs'[d][q]) => runs'[d][q].segment = requests'[q].currentSegment
  <2>1. ASSUME NEW d \in Coordinators, NEW q \in Requests, Working(runs'[d][q])
        PROVE  runs'[d][q].segment = requests'[q].currentSegment
    <3>1. CASE d = c /\ q = r
      BY <2>1, <3>1
    <3>2. CASE ~(d = c /\ q = r)
      <4>1. runs'[d][q] = runs[d][q] /\ Working(runs[d][q])
        BY <2>1, <3>2
      <4>2. runs[d][q].pc # "none"
        BY <4>1 DEF Working, Assigned
      <4>3. q # r
        BY <3>2, <4>2
      <4> QED
        BY <4>1, <4>3 DEF SoloInv
    <3> QED
      BY <3>1, <3>2
  <2> QED
    BY <2>1
<1>3. \A d, e \in Coordinators, q \in Requests :
        runs'[d][q].pc # "none" /\ runs'[e][q].pc # "none" => d = e
  BY DEF SoloInv
<1>4. \A d \in Coordinators, q \in Requests : runs'[d][q].pc # "none" => d \in up'
  BY DEF SoloInv
<1>5. \A q \in Requests : requests'[q].stage = "absent" => requests'[q].currentSegment = 0
  BY StagesStay DEF SoloInv
<1> QED
  BY <1>1, <1>2, <1>3, <1>4, <1>5 DEF SoloInv, CursorForward, Working, Assigned

\* The turn of a run that stands at the cursor.
LEMMA SoloTurned ==
  ASSUME IInv, IInv', [Next]_vars, SoloInv, NEW c \in Coordinators, NEW r \in Requests,
         NEW rec, NEW ws, NEW run, Turned(c, r, rec, ws, run),
         \A d \in Coordinators : runs[d][r].pc # "none" => d = c,
         run.segment = rec.currentSegment,
         rec.currentSegment >= requests[r].currentSegment,
         requests[r].stage = "absent" => rec.currentSegment = 0,
         UNCHANGED up, c \in up
  PROVE  SoloInv' /\ CursorForward
<1>1. /\ \A d \in Coordinators, q \in Requests : runs'[d][q] = runs[d][q] \/ (d = c /\ q = r)
      /\ requests'[r].currentSegment = rec.currentSegment
      /\ \A q \in Requests \ {r} : requests'[q] = requests[q]
      /\ \/ runs'[c][r].pc = "ending"
         \/ runs'[c][r].pc \in {"delay", "executing"} /\ runs'[c][r].segment = run.segment
  BY DEF Turned
<1>2. Working(runs'[c][r]) => runs'[c][r].segment = requests'[r].currentSegment
  BY <1>1 DEF Working, Assigned
<1>3. requests'[r].stage = "absent" => requests'[r].currentSegment = 0
  BY <1>1, StagesStay
<1>4. \A q \in Requests \ {r} : requests'[q].currentSegment = requests[q].currentSegment
  BY <1>1
<1> QED
  BY <1>1, <1>2, <1>3, <1>4, SoloTurn

LEMMA StepSolo ==
  ASSUME IInv, IInv', [Next]_vars, SoloInv, "recover" \notin Environment
  PROVE  SoloInv' /\ CursorForward
<1>1. \A r \in Requests : requests[r].currentSegment \in Nat
  BY SegmentFacts DEF IInv, TypeOK, RequestRecord
<1>2. ASSUME NEW c \in Coordinators, NEW r \in Requests, OwnStep(c, r)
      PROVE  SoloInv' /\ CursorForward
  <2>1. RunsGoOn /\ UNCHANGED up
    BY <1>2, OwnStepRuns, OwnStepClaims
  <2>2. \A q \in Requests : requests'[q].currentSegment = requests[q].currentSegment
    BY <1>2, OwnStepProgress, ExecutorFailsProgress DEF ProgressKept
  <2> QED
    BY <2>1, <2>2, SoloKept
<1>3. CASE OutsideStep
  <2>1. UNCHANGED <<runs, up>> /\ ProgressKept
    BY <1>3, OutsideStepEffect
  <2>2. RunsGoOn
    BY <2>1, RunsStay
  <2> QED
    BY <2>1, <2>2, SoloKept DEF ProgressKept
<1>4. ASSUME NEW c \in Coordinators, Crash(c)
      PROVE  SoloInv' /\ CursorForward
  <2>1. RunsGoOn /\ up' = up \ {c} /\ ProgressKept
        /\ \A r \in Requests : runs'[c][r] = NoRun
    BY <1>4, CrashEffect
  <2>2. NoRun.pc = "none"
    BY DEF NoRun
  <2>3. \A d \in Coordinators, r \in Requests : runs'[d][r].pc # "none" => d \in up' \/ d \notin up
    BY <2>1, <2>2
  <2> QED
    BY <2>1, <2>3, SoloKept DEF ProgressKept
<1>5. ASSUME NEW c \in Coordinators, NEW r \in Requests, Submit(c, r)
      PROVE  SoloInv' /\ CursorForward
  <2>1. /\ c \in up /\ requests[r].stage = "absent" /\ UNCHANGED up
    BY <1>5, SubmitTurned
  <2>2. PICK rec, run : /\ Turned(c, r, rec, workers, run)
                        /\ rec.currentSegment = 0 /\ run.segment = 0
    BY <1>5, SubmitTurned
  <2>3. \A d \in Coordinators : runs[d][r].pc = "none"
    BY <2>1, RunSubmitted
  <2>4. requests[r].currentSegment = 0
    BY <2>1 DEF SoloInv
  <2> QED
    BY <2>1, <2>2, <2>3, <2>4, SoloTurned
<1>6. ASSUME NEW c \in Coordinators, NEW r \in Requests, AdvanceSegment(c, r) \/ DelayOver(c, r)
      PROVE  SoloInv' /\ CursorForward
  <2>1. /\ runs[c][r].pc \in {"decided", "delay"} /\ UNCHANGED up
        /\ \E rec, ws, run : /\ Turned(c, r, rec, ws, run)
                             /\ run.segment = rec.currentSegment
                             /\ \/ rec.currentSegment = requests[r].currentSegment
                                \/ rec.currentSegment = requests[r].currentSegment + 1
    <3>1. Working(runs[c][r]) => runs[c][r].segment = requests[r].currentSegment
      BY DEF SoloInv
    <3>2. CASE AdvanceSegment(c, r)
      BY <3>1, <3>2, AdvanceTurned DEF Working, Assigned
    <3>3. CASE DelayOver(c, r)
      BY <3>1, <3>3, DelayTurned DEF Working
    <3> QED
      BY <1>6, <3>2, <3>3
  <2>2. PICK rec, ws, run : /\ Turned(c, r, rec, ws, run)
                            /\ run.segment = rec.currentSegment
                            /\ \/ rec.currentSegment = requests[r].currentSegment
                               \/ rec.currentSegment = requests[r].currentSegment + 1
    BY <2>1
  <2>3. rec.currentSegment >= requests[r].currentSegment
    BY <1>1, <2>2
  <2>4. c \in up /\ requests[r].stage # "absent" /\ \A d \in Coordinators : runs[d][r].pc # "none" => d = c
    BY <2>1, RunSubmitted DEF SoloInv
  <2> QED
    BY <2>1, <2>2, <2>3, <2>4, SoloTurned
<1>7. ASSUME NEW c \in Coordinators, NEW r \in Requests, Recover(c, r) \/ RecoveryPoll(c, r)
      PROVE  SoloInv' /\ CursorForward
  <2>1. BeginRecovery(c, r) /\ UNCHANGED up
    BY <1>7 DEF Recover, RecoveryPoll
  <2>2. requests[r].stage # "absent"
    BY <1>7, RunSubmitted DEF Recover, RecoveryPoll, REQUEST_STAGES
  <2>3. c \in up /\ \A d \in Coordinators : runs[d][r].pc # "none" => d = c
    <3>1. CASE Recover(c, r)
      <4>1. c \in up /\ \A d \in up : runs[d][r].pc = "none"
        BY <3>1 DEF Recover
      <4> QED
        BY <4>1 DEF SoloInv
    <3>2. CASE RecoveryPoll(c, r)
      BY <3>2 DEF RecoveryPoll, SoloInv
    <3> QED
      BY <1>7, <3>1, <3>2
  <2>4. CASE Rested(c, r)
    <3>1. /\ \A d \in Coordinators, q \in Requests : runs'[d][q] = runs[d][q] \/ (d = c /\ q = r)
          /\ \A q \in Requests : requests'[q].currentSegment = requests[q].currentSegment
          /\ ~Working(runs'[c][r])
      BY <2>4 DEF Rested, Working, Assigned
    <3>2. requests'[r].currentSegment >= requests[r].currentSegment
      BY <1>1, <3>1
    <3>3. requests'[r].stage = "absent" => requests'[r].currentSegment = 0
      BY <2>2, StagesStay
    <3> QED
      BY <2>1, <2>3, <3>1, <3>2, <3>3, SoloTurn
  <2>5. CASE ~Rested(c, r)
    <3>1. PICK rec, run : /\ Turned(c, r, rec, workers, run)
                          /\ rec.currentSegment = requests[r].currentSegment
                          /\ run.segment = requests[r].currentSegment
      BY <2>1, <2>2, <2>5, RecoveryTurned
    <3>2. rec.currentSegment >= requests[r].currentSegment
      BY <1>1, <3>1
    <3> QED
      BY <2>1, <2>2, <2>3, <3>1, <3>2, SoloTurned
  <2> QED
    BY <2>4, <2>5
<1>8. CASE UNCHANGED vars
  <2>1. UNCHANGED <<requests, runs, up>>
    BY <1>8 DEF vars
  <2>2. RunsGoOn
    BY <2>1, RunsStay
  <2> QED
    BY <2>1, <2>2, SoloKept
<1> QED
  BY <1>2, <1>3, <1>4, <1>5, <1>6, <1>7, <1>8, StepCases

\* Every segment whose checkpoint was accepted stays behind the cursor
\* (advanceSegment, and recovery at the cursor, durable-recovery-command.ts),
\* when recovery is the startup scan: it takes no request from a live run.
THEOREM CursorNeverBack ==
  ASSUME "recover" \notin Environment
  PROVE  Spec => CursorMonotone
<1>1. Init => SoloInv
  BY DEF Init, SoloInv, NoRun, NoRequest, Working, Assigned
<1>2. IInv /\ IInv' /\ SoloInv /\ [Next]_vars => SoloInv' /\ CursorForward
  BY StepSolo
<1>3. CursorForward =>
        [\A r \in Requests : requests'[r].currentSegment >= requests[r].currentSegment]_vars
  BY DEF CursorForward
<1> QED
  BY <1>1, <1>2, <1>3, Invariance, PTL DEF Spec, CursorMonotone

------------------------------------------------------------------------------
(* The outcomes a step records                                              *)

\* Attempt id gets outcome o, and no other attempt a new one.
Recorded(id, o) ==
  /\ SameAttempts
  /\ id \in DOMAIN attempts
  /\ attempts'[id].outcome = o
  /\ \A i \in DOMAIN attempts : i # id => attempts'[i].outcome = attempts[i].outcome

OutcomesKept ==
  /\ SameAttempts
  /\ \A i \in DOMAIN attempts : attempts'[i].outcome = attempts[i].outcome

LEMMA OutcomeRecorded ==
  ASSUME IInv, NEW id \in DOMAIN attempts, NEW o \in Outcomes,
         attempts' = updateAttemptOutcome(attempts, id, o)
  PROVE  Recorded(id, o)
<1> DEFINE new == [attempts[id] EXCEPT !.outcome = o]
<1>1. /\ SameAttempts
      /\ DOMAIN attempts = 1 .. Len(attempts)
      /\ attempts \in Seq(AttemptRecord)
  BY AttemptsAfter, Parts, LenProperties
<1>2. attempts[id] \in AttemptRecord
  BY <1>1, AttemptTyped
<1>3. new.outcome = o
  BY <1>2 DEF AttemptRecord
<1>4. attempts' = [attempts EXCEPT ![id] = new]
  BY DEF updateAttemptOutcome
<1> HIDE DEF new
<1> QED
  BY <1>1, <1>3, <1>4 DEF Recorded

LEMMA OutputOutcome ==
  ASSUME IInv, NEW id \in DOMAIN attempts, NEW digest \in Digests,
         attempts' = [attempts EXCEPT ![id].outcome = "completed", ![id].output = digest]
  PROVE  Recorded(id, "completed")
<1> DEFINE new == [attempts[id] EXCEPT !.outcome = "completed", !.output = digest]
<1>1. SameAttempts
  BY OutputRecorded, Zenon
<1>2. attempts \in Seq(AttemptRecord) /\ attempts[id] \in AttemptRecord
  BY Parts, AttemptTyped
<1>3. new.outcome = "completed"
  BY <1>2 DEF AttemptRecord
<1>4. attempts' = [attempts EXCEPT ![id] = new]
  BY <1>2
<1> HIDE DEF new
<1> QED
  BY <1>1, <1>2, <1>3, <1>4, LenProperties DEF Recorded

LEMMA OutcomesStay ==
  ASSUME IInv, UNCHANGED attempts
  PROVE  OutcomesKept
BY AttemptsAfter DEF OutcomesKept

\* A request that has been submitted is settled by finalizeStage.
LEMMA Settled ==
  ASSUME IInv, NEW r \in Requests, requests[r].stage # "absent", NEW ls,
         NEW stage \in {"failed", "cancelled"}, NEW code,
         finalizeStage(r, requests[r], ls, stage, code)
  PROVE  /\ requests'[r].stage \in TERMINAL_STAGES
         /\ \A q \in Requests \ {r} : requests'[q] = requests[q]
<1> DEFINE rec == requests[r]
           new == [rec EXCEPT !.stage = stage, !.lastErrorCode = code]
<1>1. requests \in [Requests -> RequestRecord] /\ rec.stage \notin {"accepted", "leased"}
  BY DEF IInv, TypeOK, RequestsSound, RecordSound
<1>2. rec \in RequestRecord /\ new.stage = stage
  BY <1>1 DEF RequestRecord
<1>3. isLegalTransition(rec.stage, stage) <=> rec.stage \notin TERMINAL_STAGES \cup {"absent"}
  BY <1>1, <1>2, TransitionFacts
<1>4. IF isLegalTransition(rec.stage, stage)
        THEN requests' = [requests EXCEPT ![r] = new]
        ELSE requests' = [requests EXCEPT ![r] = rec]
  BY DEF finalizeStage
<1> HIDE DEF rec, new
<1>5. requests'[r] = (IF isLegalTransition(rec.stage, stage) THEN new ELSE rec)
      /\ \A q \in Requests \ {r} : requests'[q] = requests[q]
  BY <1>1, <1>4
<1>6. rec.stage # "absent" /\ stage \in TERMINAL_STAGES
  BY DEF rec, TERMINAL_STAGES
<1> QED
  BY <1>2, <1>3, <1>5, <1>6

\* The outcomes of acceptResult.
LEMMA FirstVerdictOutcome ==
  ASSUME IInv, NEW id \in DOMAIN attempts, NEW payload \in Payloads,
         ApplyFirstVerdict(id, FirstVerdict(id, payload))
  PROVE  \/ OutcomesKept
         \/ /\ Recorded(id, "completed")
            /\ requests[attempts[id].request].stage = "running"
            /\ requests'[attempts[id].request].stage = "completed"
<1> DEFINE r == attempts[id].request
           verdict == FirstVerdict(id, payload)
<1>1. r \in Requests /\ requests \in [Requests -> RequestRecord]
  BY Parts, AttemptTyped DEF IInv, TypeOK
<1>2. CASE verdict = "committed"
  <2>1. /\ requests' = [requests EXCEPT ![r].stage = "completed"]
        /\ attempts' = updateAttemptOutcome(attempts, id, "completed")
    BY <1>2 DEF ApplyFirstVerdict
  <2>2. requests[r].stage = "running"
    BY <1>2, FirstVerdictFacts
  <2> HIDE DEF r
  <2>3. requests'[r].stage = "completed"
    BY <1>1, <2>1 DEF RequestRecord
  <2>4. Recorded(id, "completed")
    BY <2>1, OutcomeRecorded DEF Outcomes
  <2> QED
    BY <2>2, <2>3, <2>4 DEF r
<1>3. CASE verdict # "committed"
  <2>1. UNCHANGED attempts
    BY <1>3 DEF ApplyFirstVerdict
  <2> QED
    BY <2>1, OutcomesStay
<1> QED
  BY <1>2, <1>3

LEMMA SecondVerdictOutcome ==
  ASSUME IInv, NEW id \in DOMAIN attempts, NEW payload \in CheckedPayloads,
         ApplySecondVerdict(id, payload, SecondVerdict(id, payload))
  PROVE  \/ OutcomesKept
         \/ /\ Recorded(id, "completed")
            /\ SecondVerdict(id, payload) = "accepted"
            /\ requests[attempts[id].request].stage = "running" /\ UNCHANGED requests
<1> DEFINE verdict == SecondVerdict(id, payload)
<1>1. CASE verdict = "accepted"
  <2>1. attempts' = [attempts EXCEPT ![id].outcome = "completed", ![id].output = payload]
        /\ UNCHANGED requests
    BY <1>1 DEF ApplySecondVerdict
  <2>2. payload \in Digests /\ requests[attempts[id].request].stage = "running"
    BY <1>1, SecondVerdictFacts
  <2> PICK digest \in Digests : digest = payload
    BY <2>2
  <2>3. attempts' = [attempts EXCEPT ![id].outcome = "completed", ![id].output = digest]
    BY <2>1
  <2>4. Recorded(id, "completed")
    BY <2>3, OutputOutcome, Zenon
  <2> QED
    BY <1>1, <2>1, <2>2, <2>4
<1>2. CASE verdict # "accepted"
  <2>1. UNCHANGED attempts
    BY <1>2 DEF ApplySecondVerdict
  <2> QED
    BY <2>1, OutcomesStay
<1> QED
  BY <1>1, <1>2


\* The run's own result is taken: it completes the request, or the run holds the
\* verdict "accepted" for it while the request is running.
TakesResult(c, r) ==
  /\ runs[c][r].pc \in {"executing", "validating"}
  /\ Recorded(runs[c][r].id, "completed")
  /\ requests[r].stage = "running"
  /\ \/ requests'[r].stage = "completed"
     \/ /\ requests'[r].stage = "running"
        /\ runs'[c][r].pc = "decided" /\ runs'[c][r].arg = "accepted"
        /\ runs'[c][r].id = runs[c][r].id

\* The run's execution counts as failed: the request counts a retry, or it is
\* settled and the run at its end.
CountsFailure(c, r) ==
  /\ Working(runs[c][r])
  /\ Recorded(runs[c][r].id, "failed")
  /\ attempts[runs[c][r].id].request = r
  /\ \/ requests'[r].retryCount = requests[r].retryCount + 1
     \/ /\ requests'[r].retryCount = requests[r].retryCount
        /\ requests'[r].stage \in TERMINAL_STAGES
        /\ ~Working(runs'[c][r])
  /\ \A q \in Requests \ {r} : requests'[q] = requests[q]

LEMMA ExecutorFailsOutcome ==
  ASSUME IInv, NEW c \in Coordinators, NEW r \in Requests, ExecutorFails(c, r)
  PROVE  (OutcomesKept /\ UNCHANGED requests) \/ CountsFailure(c, r)
<1> PICK run \in RunRecord : run = runs[c][r]
  BY Parts
<1> DEFINE id == run.id
           rec == requests[r]
           waiting == Waiting(run)
<1>1. run.pc = "executing" /\ Working(run)
  BY DEF ExecutorFails, Working, Assigned
<1>2. id \in DOMAIN attempts /\ attempts[id].request = r /\ rec.stage # "absent"
  BY <1>1, AssignedFacts DEF Working, Assigned
<1>3. requests \in [Requests -> RequestRecord]
  BY DEF IInv, TypeOK
<1>4. \/ UNCHANGED <<requests, attempts>>
      \/ /\ attempts' = updateAttemptOutcome(attempts, id, "failed")
         /\ requests' = [requests EXCEPT ![r].retryCount = @ + 1,
                                         ![r].stage = IF @ = "running" THEN "retry-wait" ELSE @]
      \/ /\ attempts' = updateAttemptOutcome(attempts, id, "failed")
         /\ \E ls, kind : finalizeStage(r, rec, ls, "failed", kind)
         /\ SetRun(c, r, Ending(run, "return"))
  BY DEF ExecutorFails
<1>5. CASE UNCHANGED <<requests, attempts>>
  BY <1>5, OutcomesStay
<1>6. ASSUME attempts' = updateAttemptOutcome(attempts, id, "failed") PROVE Recorded(id, "failed")
  BY <1>2, <1>6, OutcomeRecorded DEF Outcomes
<1>7. CASE /\ attempts' = updateAttemptOutcome(attempts, id, "failed")
           /\ requests' = [requests EXCEPT ![r].retryCount = @ + 1,
                                           ![r].stage = IF @ = "running" THEN "retry-wait" ELSE @]
  <2>1. /\ requests'[r].retryCount = requests[r].retryCount + 1
        /\ \A q \in Requests \ {r} : requests'[q] = requests[q]
    BY <1>3, <1>7 DEF RequestRecord
  <2> QED
    BY <1>1, <1>2, <1>6, <1>7, <2>1 DEF CountsFailure
<1>8. CASE /\ attempts' = updateAttemptOutcome(attempts, id, "failed")
           /\ \E ls, kind : finalizeStage(r, rec, ls, "failed", kind)
           /\ SetRun(c, r, Ending(run, "return"))
  <2>1. PICK ls, kind : finalizeStage(r, rec, ls, "failed", kind)
    BY <1>8
  <2>2. requests'[r].stage \in TERMINAL_STAGES /\ \A q \in Requests \ {r} : requests'[q] = requests[q]
    BY <1>2, <2>1, Settled
  <2>3. requests'[r].retryCount = requests[r].retryCount
    BY <1>3, <2>1, FinalizeKeepsProgress
  <2>4. ~Working(runs'[c][r])
    BY <1>8, RunEnded DEF Working, Assigned
  <2> QED
    BY <1>1, <1>2, <1>6, <1>8, <2>2, <2>3, <2>4 DEF CountsFailure
<1> QED
  BY <1>4, <1>5, <1>7, <1>8

LEMMA AdvanceRefusedOutcome ==
  ASSUME IInv, NEW c \in Coordinators, NEW r \in Requests, AdvanceRefused(c, r)
  PROVE  (OutcomesKept /\ UNCHANGED requests) \/ CountsFailure(c, r)
<1> PICK run \in RunRecord : run = runs[c][r]
  BY Parts
<1> DEFINE id == run.id
           rec == requests[r]
<1>1. Working(run)
  BY DEF AdvanceRefused, Working, Assigned
<1>2. id \in DOMAIN attempts /\ attempts[id].request = r /\ rec.stage # "absent"
  BY AssignedFacts DEF AdvanceRefused, Assigned
<1>3. requests \in [Requests -> RequestRecord]
  BY DEF IInv, TypeOK
<1>4. \/ UNCHANGED <<requests, attempts>>
      \/ /\ attempts' = updateAttemptOutcome(attempts, id, "failed")
         /\ \E ls : finalizeStage(r, rec, ls, "failed", "StateTransitionViolation")
         /\ SetRun(c, r, Ending(run, "return"))
  BY DEF AdvanceRefused
<1>5. CASE UNCHANGED <<requests, attempts>>
  BY <1>5, OutcomesStay
<1>6. CASE /\ attempts' = updateAttemptOutcome(attempts, id, "failed")
           /\ \E ls : finalizeStage(r, rec, ls, "failed", "StateTransitionViolation")
           /\ SetRun(c, r, Ending(run, "return"))
  <2>1. PICK ls : finalizeStage(r, rec, ls, "failed", "StateTransitionViolation")
    BY <1>6
  <2>2. requests'[r].stage \in TERMINAL_STAGES /\ \A q \in Requests \ {r} : requests'[q] = requests[q]
    BY <1>2, <2>1, Settled
  <2>3. requests'[r].retryCount = requests[r].retryCount
    BY <1>3, <2>1, FinalizeKeepsProgress
  <2>4. ~Working(runs'[c][r])
    BY <1>6, RunEnded DEF Working, Assigned
  <2>5. Recorded(id, "failed")
    BY <1>2, <1>6, OutcomeRecorded DEF Outcomes
  <2> QED
    BY <1>1, <1>2, <1>6, <2>2, <2>3, <2>4, <2>5 DEF CountsFailure
<1> QED
  BY <1>4, <1>5, <1>6

\* The outcomes that a run's own step records.
LEMMA OwnStepOutcome ==
  ASSUME IInv, NEW c \in Coordinators, NEW r \in Requests, OwnStep(c, r)
  PROVE  \/ ProgressKept /\ OutcomesKept
         \/ ProgressKept /\ \E i \in DOMAIN attempts, o \in {"cancelled", "suppressed"} : Recorded(i, o)
         \/ ProgressKept /\ TakesResult(c, r)
         \/ CountsFailure(c, r)
<1> PICK run \in RunRecord : run = runs[c][r]
  BY Parts
<1>1. CASE ExecutorResolves(c, r)
  <2> DEFINE id == run.id
  <2>1. /\ run.pc = "executing"
        /\ id \in DOMAIN attempts /\ attempts[id].request = r
    BY <1>1, AssignedFacts DEF ExecutorResolves, Assigned
  <2>2. PICK payload \in Payloads : ApplyFirstVerdict(id, FirstVerdict(id, payload))
    BY <1>1 DEF ExecutorResolves
  <2> HIDE DEF id
  <2>3. \/ OutcomesKept
        \/ /\ Recorded(id, "completed")
           /\ requests[r].stage = "running" /\ requests'[r].stage = "completed"
    BY <2>1, <2>2, FirstVerdictOutcome
  <2>4. ProgressKept
    BY <2>1, <2>2, FirstVerdictProgress
  <2> QED
    BY <2>1, <2>3, <2>4 DEF TakesResult, id
<1>2. CASE CheckpointValidated(c, r)
  <2> DEFINE id == run.id
             payload == run.arg
             verdict == SecondVerdict(id, payload)
  <2>1. /\ run.pc = "validating" /\ payload \in CheckedPayloads
        /\ id \in DOMAIN attempts /\ attempts[id].request = r
    BY <1>2, AssignedFacts DEF CheckpointValidated, Assigned, RunSound
  <2>2. /\ ApplySecondVerdict(id, payload, verdict)
        /\ SetRun(c, r, AtVerdict(run, "decided", verdict))
    BY <1>2 DEF CheckpointValidated, AtVerdict
  <2>3. runs'[c][r] = AtVerdict(run, "decided", verdict)
    BY <2>2, RunWritten
  <2>4. /\ runs'[c][r].pc = "decided" /\ runs'[c][r].arg = verdict
        /\ runs'[c][r].id = id
    BY <2>3 DEF AtVerdict, RunRecord
  <2> HIDE DEF id, payload
  <2>5. \/ OutcomesKept
        \/ /\ Recorded(id, "completed") /\ verdict = "accepted"
           /\ requests[r].stage = "running" /\ UNCHANGED requests
    BY <2>1, <2>2, SecondVerdictOutcome
  <2>6. ProgressKept
    BY <2>1, <2>2, SecondVerdictProgress
  <2> QED
    BY <2>1, <2>4, <2>5, <2>6 DEF TakesResult, id
<1>3. CASE ExecutorFails(c, r) \/ AdvanceRefused(c, r)
  <2>1. (OutcomesKept /\ UNCHANGED requests) \/ CountsFailure(c, r)
    BY <1>3, ExecutorFailsOutcome, AdvanceRefusedOutcome
  <2>2. OutcomesKept /\ UNCHANGED requests => ProgressKept
    BY DEF OutcomesKept, ProgressKept
  <2> QED
    BY <2>1, <2>2
<1>4. CASE \/ ExecutionAborted(c, r) \/ RecoverySleepAborted(c, r) \/ RunEnds(c, r)
           \/ RenewOwnership(c, r) \/ DeadlineTimer(c, r) \/ CallerAborts(c, r)
  <2>1. UNCHANGED attempts
    BY <1>4 DEF ExecutionAborted, RecoverySleepAborted, RunEnds, RenewOwnership, DeadlineTimer,
                CallerAborts, durable
  <2>2. ProgressKept
    <3>1. \/ UNCHANGED requests
          \/ \E ls, stage, code : finalizeStage(r, requests[r], ls, stage, code)
      <4>1. CASE RunEnds(c, r)
        BY <4>1 DEF RunEnds
      <4>2. CASE ~RunEnds(c, r)
        BY <1>4, <4>2 DEF ExecutionAborted, RecoverySleepAborted, RenewOwnership, DeadlineTimer,
                          CallerAborts, durable
      <4> QED
        BY <4>1, <4>2
    <3> QED
      BY <2>1, <3>1, SettlingKeepsProgress
  <2> QED
    BY <2>1, <2>2, OutcomesStay
<1>5. CASE ReturnVerdict(c, r) \/ RejectVerdict(c, r) \/ Cancel(c, r)
  <2>1. \/ UNCHANGED attempts
        \/ \E i \in DOMAIN attempts, o \in {"cancelled", "suppressed"} :
             attempts' = updateAttemptOutcome(attempts, i, o)
    <3>1. CASE ReturnVerdict(c, r)
      <4>1. run.id \in DOMAIN attempts
        BY <3>1, AssignedFacts DEF ReturnVerdict, Assigned
      <4> QED
        BY <3>1, <4>1 DEF ReturnVerdict
    <3>2. CASE RejectVerdict(c, r)
      <4>1. run.id \in DOMAIN attempts
        BY <3>2, AssignedFacts DEF RejectVerdict, Assigned
      <4> QED
        BY <3>2, <4>1 DEF RejectVerdict
    <3>3. CASE Cancel(c, r)
      <4>1. isActive(leases, r) => leases[r].id \in DOMAIN attempts
        BY DEF IInv, LeaseSound, isActive
      <4> QED
        BY <3>3, <4>1 DEF Cancel
    <3> QED
      BY <1>5, <3>1, <3>2, <3>3
  <2>2. ProgressKept
    <3>1. \/ UNCHANGED requests
          \/ \E ls, stage, code : finalizeStage(r, requests[r], ls, stage, code)
      <4>1. CASE ReturnVerdict(c, r)
        BY <4>1 DEF ReturnVerdict
      <4>2. CASE RejectVerdict(c, r)
        BY <4>2 DEF RejectVerdict
      <4>3. CASE Cancel(c, r)
        BY <4>3 DEF Cancel
      <4> QED
        BY <1>5, <4>1, <4>2, <4>3
    <3> QED
      BY <2>1, <3>1, SettlingKeepsProgress DEF Outcomes
  <2>3. ASSUME NEW i \in DOMAIN attempts, NEW o \in {"cancelled", "suppressed"},
               attempts' = updateAttemptOutcome(attempts, i, o)
        PROVE  Recorded(i, o)
    BY <2>3, OutcomeRecorded DEF Outcomes
  <2> QED
    BY <2>1, <2>2, <2>3, OutcomesStay
<1> QED
  BY <1>1, <1>2, <1>3, <1>4, <1>5 DEF OwnStep


\* No result is pushed, and what else happens outside the runs changes no
\* request's progress.
LEMMA QuietOutside ==
  ASSUME IInv, OutsideStep, pushes = {}, "push" \notin Environment
  PROVE  /\ UNCHANGED <<runs, attempts, pushes>>
         /\ \A r \in Requests :
              /\ requests'[r].stage = requests[r].stage
              /\ requests'[r].retryCount = requests[r].retryCount
              /\ requests'[r].currentSegment = requests[r].currentSegment
<1>1. ~ \E c \in Coordinators, id \in DOMAIN attempts : PushResult(c, id) \/ PushFailure(c, id)
  BY DEF PushResult, PushFailure
<1>2. UNCHANGED <<runs, attempts, pushes>>
  BY <1>1 DEF OutsideStep, RegisterWorker, WorkerHeartbeat, RemoveWorker, HeartbeatTimeout,
              DeadlinePasses, LeaseGrowsOld, ClaimExpires, CheckpointExpires, CheckpointCleanup
<1>3. UNCHANGED requests \/ \E r \in Requests : requests' = [requests EXCEPT ![r].deadline = "passed"]
  BY <1>1 DEF OutsideStep, RegisterWorker, WorkerHeartbeat, RemoveWorker, HeartbeatTimeout,
              DeadlinePasses, LeaseGrowsOld, ClaimExpires, CheckpointExpires, CheckpointCleanup
<1>4. ASSUME NEW r \in Requests, requests' = [requests EXCEPT ![r].deadline = "passed"]
      PROVE  \A q \in Requests :
               /\ requests'[q].stage = requests[q].stage
               /\ requests'[q].retryCount = requests[q].retryCount
               /\ requests'[q].currentSegment = requests[q].currentSegment
  BY <1>4 DEF IInv, TypeOK, RequestRecord
<1> QED
  BY <1>2, <1>3, <1>4

\* Nor does a step of any other kind push one.
LEMMA NothingPushed ==
  ASSUME IInv, [Next]_vars, pushes = {}, "push" \notin Environment
  PROVE  pushes' = {}
<1>1. CASE \E c \in Coordinators, r \in Requests : OwnStep(c, r)
  <2> PICK c \in Coordinators, r \in Requests : OwnStep(c, r)
    BY <1>1
  <2>1. CASE ExecutorResolves(c, r)
    BY <2>1 DEF ExecutorResolves
  <2>6. CASE ExecutorFails(c, r)
    BY <2>6 DEF ExecutorFails
  <2>2. CASE CheckpointValidated(c, r) \/ AdvanceRefused(c, r)
    BY <2>2 DEF CheckpointValidated, AdvanceRefused
  <2>3. CASE ReturnVerdict(c, r) \/ RejectVerdict(c, r) \/ RunEnds(c, r)
    BY <2>3 DEF ReturnVerdict, RejectVerdict, RunEnds
  <2>4. CASE ExecutionAborted(c, r) \/ RecoverySleepAborted(c, r) \/ RenewOwnership(c, r)
    BY <2>4 DEF ExecutionAborted, RecoverySleepAborted, RenewOwnership
  <2>5. CASE DeadlineTimer(c, r) \/ Cancel(c, r) \/ CallerAborts(c, r)
    BY <2>5 DEF DeadlineTimer, Cancel, CallerAborts
  <2> QED
    BY <2>1, <2>2, <2>3, <2>4, <2>5, <2>6 DEF OwnStep
<1>2. CASE OutsideStep
  BY <1>2, QuietOutside
<1>3. CASE \E c \in Coordinators : Crash(c)
  BY <1>3 DEF Crash
<1>4. CASE \E c \in Coordinators, r \in Requests :
             \/ Submit(c, r)
             \/ Recover(c, r) \/ RecoveryPoll(c, r)
             \/ AdvanceSegment(c, r)
             \/ DelayOver(c, r)
  BY <1>4, ZenonT(30) DEF Submit, Recover, RecoveryPoll, AdvanceSegment, DelayOver
<1>5. CASE UNCHANGED vars
  BY <1>5 DEF vars
<1> QED
  BY <1>1, <1>2, <1>3, <1>4, <1>5, StepCases

------------------------------------------------------------------------------
(***************************************************************************)
(* The sixth result: the failed executions of a request stay within its    *)
(* retry budget.  While the request is in play every one of them has been  *)
(* counted; the last may be one that no retry is left for.                 *)
(***************************************************************************)

FailedOf(atts, r) == {i \in DOMAIN atts : atts[i].request = r /\ atts[i].outcome = "failed"}

\* The request can still be executed: it is not settled, or a run has not
\* noticed that it is.
InPlay(r) ==
  \/ requests[r].stage \notin TERMINAL_STAGES
  \/ \E c \in Coordinators : Working(runs[c][r])

WithinBudget(r) ==
  /\ Cardinality(FailedOf(attempts, r)) <= requests[r].retryCount + 1
  /\ InPlay(r) => Cardinality(FailedOf(attempts, r)) <= requests[r].retryCount

BudgetInv == pushes = {} /\ \A r \in Requests : WithinBudget(r)

LEMMA FailedFinite ==
  ASSUME NEW atts \in Seq(AttemptRecord), NEW r
  PROVE  IsFiniteSet(FailedOf(atts, r)) /\ Cardinality(FailedOf(atts, r)) \in Nat
<1>1. Len(atts) \in Nat /\ DOMAIN atts = 1 .. Len(atts)
  BY LenProperties
<1>2. IsFiniteSet(DOMAIN atts)
  BY <1>1, FS_Interval
<1>3. FailedOf(atts, r) \subseteq DOMAIN atts
  BY DEF FailedOf
<1> QED
  BY <1>2, <1>3, FS_Subset, FS_CardinalityType

\* No execution of r fails and r comes into no more play.
LEMMA BudgetKept ==
  ASSUME IInv, IInv', NEW r \in Requests, WithinBudget(r),
         FailedOf(attempts', r) \subseteq FailedOf(attempts, r),
         requests'[r].retryCount = requests[r].retryCount,
         InPlay(r)' => InPlay(r)
  PROVE  WithinBudget(r)'
<1> DEFINE old == FailedOf(attempts, r)
           new == FailedOf(attempts', r)
<1>1. attempts \in Seq(AttemptRecord) /\ requests[r].retryCount \in Nat
  BY CoordinatorAssumption DEF IInv, TypeOK, RequestRecord
<1>2. IsFiniteSet(old) /\ Cardinality(old) \in Nat
  BY <1>1, FailedFinite
<1> HIDE DEF old, new
<1>3. new \subseteq old
  BY DEF old, new
<1>4. Cardinality(new) <= Cardinality(old) /\ Cardinality(new) \in Nat
  BY <1>2, <1>3, FS_Subset, FS_CardinalityType
<1> QED
  BY <1>1, <1>2, <1>4 DEF WithinBudget, old, new

\* One execution of r fails.
LEMMA BudgetSpent ==
  ASSUME IInv, IInv', NEW r \in Requests, WithinBudget(r), InPlay(r), NEW id,
         FailedOf(attempts', r) \subseteq FailedOf(attempts, r) \cup {id},
         \/ requests'[r].retryCount = requests[r].retryCount + 1
         \/ requests'[r].retryCount = requests[r].retryCount /\ ~InPlay(r)'
  PROVE  WithinBudget(r)'
<1> DEFINE old == FailedOf(attempts, r)
           new == FailedOf(attempts', r)
           more == old \cup {id}
<1>1. attempts \in Seq(AttemptRecord) /\ requests[r].retryCount \in Nat
  BY CoordinatorAssumption DEF IInv, TypeOK, RequestRecord
<1>2. IsFiniteSet(old) /\ Cardinality(old) \in Nat
  BY <1>1, FailedFinite
<1>3. new \subseteq more
  BY DEF old, new, more
<1>4. Cardinality(old) <= requests[r].retryCount
  BY DEF WithinBudget
<1> HIDE DEF old, new
<1>5. IsFiniteSet(more) /\ Cardinality(more) <= Cardinality(old) + 1 /\ Cardinality(more) \in Nat
  <2>1. IsFiniteSet(more)
        /\ Cardinality(more) = (IF id \in old THEN Cardinality(old) ELSE Cardinality(old) + 1)
    BY <1>2, FS_AddElement
  <2> QED
    BY <1>2, <2>1
<1> HIDE DEF more
<1>6. Cardinality(new) <= Cardinality(more) /\ Cardinality(new) \in Nat
  BY <1>3, <1>5, FS_Subset, FS_CardinalityType
<1> QED
  BY <1>1, <1>2, <1>4, <1>5, <1>6 DEF WithinBudget, old, new


\* Runs that only go on bring no request into play.
LEMMA PlayEnds ==
  ASSUME IInv, IInv', [Next]_vars, NEW r \in Requests,
         \A c \in Coordinators : Working(runs'[c][r]) => Working(runs[c][r])
  PROVE  InPlay(r)' => InPlay(r)
<1>1. requests'[r].stage \notin TERMINAL_STAGES => requests[r].stage \notin TERMINAL_STAGES
  BY StagesStay
<1>2. (\E c \in Coordinators : Working(runs'[c][r])) => \E c \in Coordinators : Working(runs[c][r])
  OBVIOUS
<1> QED
  BY <1>1, <1>2 DEF InPlay, Working, Assigned

LEMMA NothingFails ==
  ASSUME SameAttempts,
         \A i \in DOMAIN attempts :
           attempts'[i].outcome = attempts[i].outcome \/ attempts'[i].outcome # "failed"
  PROVE  \A r \in Requests : FailedOf(attempts', r) \subseteq FailedOf(attempts, r)
BY DEF SameAttempts, AttemptsKept, FailedOf

\* A turn, made for a request in play or for one that nothing has failed for.
LEMMA BudgetTurned ==
  ASSUME IInv, IInv', [Next]_vars, \A q \in Requests : WithinBudget(q),
         NEW c \in Coordinators, NEW r \in Requests, NEW rec, NEW ws, NEW run,
         Turned(c, r, rec, ws, run),
         \/ InPlay(r) /\ rec.retryCount = requests[r].retryCount
         \/ FailedOf(attempts, r) = {} /\ rec.retryCount = 0
  PROVE  \A q \in Requests : WithinBudget(q)'
<1>1. DOMAIN attempts = 1 .. Len(attempts) /\ Len(attempts) \in Nat
  BY Parts, LenProperties
<1>2. \A i \in DOMAIN attempts' :
        attempts'[i].outcome = "failed" => i \in DOMAIN attempts /\ attempts'[i] = attempts[i]
  BY <1>1 DEF Turned, Issued
<1>3. \A q \in Requests : FailedOf(attempts', q) \subseteq FailedOf(attempts, q)
  BY <1>2 DEF FailedOf
<1>4. requests'[r].retryCount = rec.retryCount
      /\ \A q \in Requests \ {r} : requests'[q].retryCount = requests[q].retryCount
  BY DEF Turned
<1>5. ASSUME NEW q \in Requests \ {r} PROVE WithinBudget(q)'
  <2>1. InPlay(q)' => InPlay(q)
    BY <1>5, PlayEnds DEF Turned
  <2> QED
    BY <1>3, <1>4, <2>1, BudgetKept
<1>6. CASE InPlay(r) /\ rec.retryCount = requests[r].retryCount
  BY <1>3, <1>4, <1>5, <1>6, BudgetKept
<1>7. CASE FailedOf(attempts, r) = {} /\ rec.retryCount = 0
  <2>1. FailedOf(attempts', r) = {} /\ requests'[r].retryCount = 0
    BY <1>3, <1>4, <1>7
  <2>2. WithinBudget(r)'
    BY <2>1, FS_EmptySet DEF WithinBudget
  <2> QED
    BY <1>5, <2>2
<1> QED
  BY <1>6, <1>7

LEMMA StepBudget ==
  ASSUME IInv, IInv', [Next]_vars, SoloInv, BudgetInv,
         "recover" \notin Environment, "push" \notin Environment
  PROVE  BudgetInv'
<1>1. pushes' = {}
  BY NothingPushed DEF BudgetInv
<1>2. ASSUME \A q \in Requests : FailedOf(attempts', q) \subseteq FailedOf(attempts, q),
             \A q \in Requests : requests'[q].retryCount = requests[q].retryCount,
             RunsGoOn
      PROVE  \A q \in Requests : WithinBudget(q)'
  <2>1. ASSUME NEW q \in Requests PROVE InPlay(q)' => InPlay(q)
    BY <1>2, PlayEnds DEF RunsGoOn, Onward
  <2> QED
    BY <1>2, <2>1, BudgetKept DEF BudgetInv
<1>3. ASSUME NEW c \in Coordinators, NEW r \in Requests, OwnStep(c, r)
      PROVE  \A q \in Requests : WithinBudget(q)'
  <2>1. RunsGoOn
    BY <1>3, OwnStepRuns
  <2>2. CASE /\ ProgressKept
             /\ \/ OutcomesKept
                \/ \E i \in DOMAIN attempts, o \in {"cancelled", "suppressed"} : Recorded(i, o)
                \/ TakesResult(c, r)
    <3>1. /\ SameAttempts
          /\ \A i \in DOMAIN attempts :
               attempts'[i].outcome = attempts[i].outcome \/ attempts'[i].outcome # "failed"
      BY <2>2 DEF OutcomesKept, Recorded, TakesResult
    <3>2. \A q \in Requests : requests'[q].retryCount = requests[q].retryCount
      BY <2>2 DEF ProgressKept
    <3> QED
      BY <1>2, <2>1, <3>1, <3>2, NothingFails
  <2>3. CASE CountsFailure(c, r)
    <3> DEFINE id == runs[c][r].id
    <3>1. /\ SameAttempts /\ id \in DOMAIN attempts /\ attempts[id].request = r
          /\ \A i \in DOMAIN attempts : i # id => attempts'[i].outcome = attempts[i].outcome
          /\ Working(runs[c][r])
      BY <2>3 DEF CountsFailure, Recorded
    <3> HIDE DEF id
    <3>2. /\ FailedOf(attempts', r) \subseteq FailedOf(attempts, r) \cup {id}
          /\ \A q \in Requests \ {r} : FailedOf(attempts', q) \subseteq FailedOf(attempts, q)
      BY <3>1 DEF SameAttempts, AttemptsKept, FailedOf
    <3>3. ASSUME NEW q \in Requests \ {r} PROVE WithinBudget(q)'
      <4>1. InPlay(q)' => InPlay(q)
        BY <2>1, <3>3, PlayEnds DEF RunsGoOn, Onward
      <4>2. requests'[q].retryCount = requests[q].retryCount
        BY <2>3 DEF CountsFailure
      <4> QED
        BY <3>2, <4>1, <4>2, BudgetKept DEF BudgetInv
    <3>4. WithinBudget(r)'
      <4>1. InPlay(r)
        BY <3>1 DEF InPlay
      <4>2. ASSUME requests'[r].stage \in TERMINAL_STAGES, ~Working(runs'[c][r])
            PROVE  ~InPlay(r)'
        <5>1. \A d \in Coordinators : Working(runs'[d][r]) => Working(runs[d][r])
          BY <2>1 DEF RunsGoOn, Onward
        <5>2. \A d \in Coordinators : Working(runs[d][r]) => d = c
          BY <3>1 DEF SoloInv, Working, Assigned
        <5>3. \A d \in Coordinators : ~Working(runs'[d][r])
          BY <4>2, <5>1, <5>2
        <5> QED
          BY <4>2, <5>3 DEF InPlay, Working, Assigned
      <4>3. \/ requests'[r].retryCount = requests[r].retryCount + 1
            \/ requests'[r].retryCount = requests[r].retryCount /\ ~InPlay(r)'
        BY <2>3, <4>2 DEF CountsFailure
      <4> QED
        BY <3>2, <4>1, <4>3, BudgetSpent DEF BudgetInv
    <3> QED
      BY <3>3, <3>4
  <2> QED
    BY <1>3, <2>2, <2>3, OwnStepOutcome
<1>4. CASE OutsideStep
  <2>1. /\ UNCHANGED <<runs, attempts>>
        /\ \A q \in Requests : requests'[q].retryCount = requests[q].retryCount
    BY <1>4, QuietOutside DEF BudgetInv
  <2>2. RunsGoOn
    BY <2>1, RunsStay
  <2> QED
    BY <1>1, <1>2, <2>1, <2>2 DEF BudgetInv
<1>5. ASSUME NEW c \in Coordinators, Crash(c)
      PROVE  \A q \in Requests : WithinBudget(q)'
  <2>1. RunsGoOn /\ ProgressKept /\ UNCHANGED attempts
    BY <1>5, CrashEffect
  <2> QED
    BY <1>2, <2>1 DEF ProgressKept
<1>6. ASSUME NEW c \in Coordinators, NEW r \in Requests, Submit(c, r)
      PROVE  \A q \in Requests : WithinBudget(q)'
  <2>1. FailedOf(attempts, r) = {}
    BY <1>6, SubmitTurned DEF FailedOf, IInv
  <2>2. PICK rec, run : Turned(c, r, rec, workers, run) /\ rec.retryCount = 0
    BY <1>6, SubmitTurned
  <2> QED
    BY <2>1, <2>2, BudgetTurned DEF BudgetInv
<1>7. ASSUME NEW c \in Coordinators, NEW r \in Requests, AdvanceSegment(c, r) \/ DelayOver(c, r)
      PROVE  \A q \in Requests : WithinBudget(q)'
  <2>1. InPlay(r)
    BY <1>7, AdvanceTurned, DelayTurned DEF InPlay, Working, Assigned
  <2>2. \E rec, ws, run : Turned(c, r, rec, ws, run) /\ rec.retryCount = requests[r].retryCount
    BY <1>7, AdvanceTurned, DelayTurned
  <2> QED
    BY <2>1, <2>2, BudgetTurned DEF BudgetInv
<1>8. ASSUME NEW c \in Coordinators, NEW r \in Requests, Recover(c, r) \/ RecoveryPoll(c, r)
      PROVE  \A q \in Requests : WithinBudget(q)'
  <2>1. BeginRecovery(c, r) /\ requests[r].stage # "absent"
    BY <1>8, RunSubmitted DEF Recover, RecoveryPoll, REQUEST_STAGES
  <2>2. CASE Rested(c, r)
    <3>1. /\ \A d \in Coordinators, q \in Requests : Working(runs'[d][q]) => Working(runs[d][q])
          /\ \A q \in Requests : requests'[q].retryCount = requests[q].retryCount
          /\ UNCHANGED attempts
      BY <2>2 DEF Rested, Working, Assigned
    <3>2. ASSUME NEW q \in Requests PROVE InPlay(q)' => InPlay(q)
      BY <3>1, PlayEnds
    <3> QED
      BY <3>1, <3>2, BudgetKept DEF BudgetInv
  <2>3. CASE ~Rested(c, r)
    <3>1. /\ requests[r].stage \notin TERMINAL_STAGES
          /\ \E rec, run : /\ Turned(c, r, rec, workers, run)
                           /\ rec.retryCount = requests[r].retryCount
      BY <2>1, <2>3, RecoveryTurned
    <3>2. InPlay(r)
      BY <3>1 DEF InPlay
    <3> QED
      BY <3>1, <3>2, BudgetTurned DEF BudgetInv
  <2> QED
    BY <2>2, <2>3
<1>9. CASE UNCHANGED vars
  <2>1. UNCHANGED <<requests, runs, attempts>>
    BY <1>9 DEF vars
  <2>2. RunsGoOn
    BY <2>1, RunsStay
  <2> QED
    BY <1>1, <1>2, <2>1, <2>2 DEF BudgetInv
<1> QED
  BY <1>1, <1>3, <1>4, <1>5, <1>6, <1>7, <1>8, <1>9, StepCases DEF BudgetInv


\* A request sees at most MaxRetries + 1 failed executions, however often it is
\* restarted: the count that is compared is the one that is stored
\* (executeSegmentWithRetry, incrementRetry), when recovery is the startup scan
\* and failures arrive through the executor.
THEOREM FailuresCounted ==
  ASSUME "recover" \notin Environment, "push" \notin Environment
  PROVE  Spec => []FailuresWithinBudget
<1>1. Init => SoloInv /\ BudgetInv
  <2> SUFFICES ASSUME Init PROVE SoloInv /\ BudgetInv
    OBVIOUS
  <2>1. SoloInv
    BY DEF Init, SoloInv, NoRun, NoRequest, Working, Assigned
  <2>2. ASSUME NEW r \in Requests PROVE WithinBudget(r)
    <3>1. FailedOf(attempts, r) = {} /\ requests[r].retryCount = 0
      BY DEF Init, FailedOf, NoRequest
    <3> QED
      BY <3>1, FS_EmptySet DEF WithinBudget
  <2> QED
    BY <2>1, <2>2 DEF BudgetInv, Init
<1>2. IInv /\ IInv' /\ (SoloInv /\ BudgetInv) /\ [Next]_vars => (SoloInv /\ BudgetInv)'
  BY StepSolo, StepBudget
<1>3. IInv /\ BudgetInv => FailuresWithinBudget
  <2> SUFFICES ASSUME IInv, BudgetInv, NEW r \in Requests
               PROVE  Cardinality(FailedOf(attempts, r)) <= MaxRetries + 1
    BY DEF FailuresWithinBudget, FailedOf
  <2>1. requests[r].retryCount \in 0 .. MaxRetries /\ attempts \in Seq(AttemptRecord)
    BY DEF IInv, TypeOK, RequestRecord
  <2>2. Cardinality(FailedOf(attempts, r)) \in Nat
    BY <2>1, FailedFinite
  <2>3. Cardinality(FailedOf(attempts, r)) <= requests[r].retryCount + 1
    BY DEF BudgetInv, WithinBudget
  <2> QED
    BY <2>1, <2>2, <2>3, CoordinatorAssumption
<1> QED
  BY <1>1, <1>2, <1>3, Invariance, PTL DEF Spec


------------------------------------------------------------------------------
(***************************************************************************)
(* The seventh result: completed work is done again only after a crash,    *)
(* one segment of a request for each crash at most.  An attempt that       *)
(* completed is behind the cursor, or at it.  If it is at the cursor of a  *)
(* request that goes on, its run is about to advance the cursor, unless it *)
(* was lost in a crash; that crash has not been paid for by a repeat yet,  *)
(* and the next completion, which is at the cursor, pays.                  *)
(***************************************************************************)

\* The run holds the verdict "accepted" for attempt id of a running request.
AboutToAdvance(c, r, id) ==
  /\ runs[c][r].pc = "decided" /\ runs[c][r].arg = "accepted" /\ runs[c][r].id = id
  /\ requests[r].stage = "running"

\* Some run is about to advance the cursor of r.
Advancing(r) == \E c \in Coordinators, id \in Nat : AboutToAdvance(c, r, id)

\* The segment at the cursor completed, and nobody is left to advance.
Redoing(r) ==
  /\ requests[r].stage \notin TERMINAL_STAGES
  /\ ~Advancing(r)
  /\ \E i \in DOMAIN attempts :
       /\ attempts[i].request = r /\ attempts[i].outcome = "completed"
       /\ attempts[i].segment = requests[r].currentSegment

Crashes == Cardinality(Coordinators \ up)

\* A crash that left a segment to be redone is still to be paid for.
PaidFor(r) ==
  /\ Cardinality(Repeats(attempts, r)) <= Crashes
  /\ Redoing(r) => Cardinality(Repeats(attempts, r)) < Crashes

\* A run at work is at work on the last attempt of its request.
LatestAtWork ==
  \A c \in Coordinators, r \in Requests :
    Assigned(runs[c][r]) =>
      \A i \in DOMAIN attempts : attempts[i].request = r => i <= runs[c][r].id

\* What completed is not ahead of the cursor.
NothingAhead ==
  \A i \in DOMAIN attempts :
    attempts[i].outcome = "completed" =>
      attempts[i].segment <= requests[attempts[i].request].currentSegment

\* A request whose final segment completed is over.
FinalsEnd ==
  \A i \in DOMAIN attempts :
    attempts[i].outcome = "completed" /\ attempts[i].segment = FinalSegment =>
      requests[attempts[i].request].stage \in TERMINAL_STAGES

RepeatInv ==
  /\ pushes = {}
  /\ IsFiniteSet(Coordinators \ up)
  /\ LatestAtWork
  /\ NothingAhead
  /\ FinalsEnd
  /\ \A r \in Requests : PaidFor(r)
  /\ \A r \in Requests : \A i \in Repeats(attempts, r) : attempts[i].segment # FinalSegment

\* A run's own step reaches no other run and no other request.
LEMMA OwnStepElsewhere ==
  ASSUME IInv, NEW c \in Coordinators, NEW r \in Requests, OwnStep(c, r)
  PROVE  /\ \A d \in Coordinators, q \in Requests : runs'[d][q] = runs[d][q] \/ (d = c /\ q = r)
         /\ \A q \in Requests \ {r} : requests'[q] = requests[q]
<1> DEFINE Settling == \E ls, stage, code : finalizeStage(r, requests[r], ls, stage, code)
           Completing == requests' = [requests EXCEPT ![r].stage = "completed"]
           Retrying == requests' = [requests EXCEPT ![r].retryCount = @ + 1,
                                ![r].stage = IF @ = "running" THEN "retry-wait" ELSE @]
<1>1. ASSUME UNCHANGED requests \/ Settling \/ Completing \/ Retrying
      PROVE  \A q \in Requests \ {r} : requests'[q] = requests[q]
  <2>1. requests \in [Requests -> RequestRecord]
    BY DEF IInv, TypeOK
  <2>2. CASE UNCHANGED requests \/ Completing \/ Retrying
    BY <2>1, <2>2
  <2>3. CASE Settling
    <3> PICK ls, stage, code : finalizeStage(r, requests[r], ls, stage, code)
      BY <2>3
    <3>1. \E rec : requests' = [requests EXCEPT ![r] = rec]
      BY DEF finalizeStage
    <3> QED
      BY <3>1, RecordWritten
  <2> QED
    BY <1>1, <2>2, <2>3
<1>2. ASSUME UNCHANGED runs \/ \E run : SetRun(c, r, run)
      PROVE  \A d \in Coordinators, q \in Requests : runs'[d][q] = runs[d][q] \/ (d = c /\ q = r)
  BY <1>2, RunWritten
<1>3. CASE ExecutorResolves(c, r)
  <2> DEFINE id == runs[c][r].id
  <2>1. attempts[id].request = r
    BY <1>3, AssignedFacts DEF ExecutorResolves, Assigned
  <2>2. PICK payload \in Payloads :
          /\ ApplyFirstVerdict(id, FirstVerdict(id, payload))
          /\ \E run : SetRun(c, r, run)
    BY <1>3 DEF ExecutorResolves
  <2> HIDE DEF id
  <2>3. UNCHANGED requests \/ Settling \/ Completing
    BY <2>1, <2>2 DEF ApplyFirstVerdict
  <2> QED
    BY <1>1, <1>2, <2>2, <2>3
<1>4. CASE CheckpointValidated(c, r)
  <2> DEFINE id == runs[c][r].id
             payload == runs[c][r].arg
  <2>1. attempts[id].request = r
    BY <1>4, AssignedFacts DEF CheckpointValidated, Assigned
  <2>2. /\ ApplySecondVerdict(id, payload, SecondVerdict(id, payload))
        /\ \E run : SetRun(c, r, run)
    BY <1>4 DEF CheckpointValidated
  <2> HIDE DEF id, payload
  <2>3. UNCHANGED requests \/ Settling
    BY <2>1, <2>2 DEF ApplySecondVerdict
  <2> QED
    BY <1>1, <1>2, <2>2, <2>3
<1>5. CASE ExecutorFails(c, r)
  <2>1. (UNCHANGED requests \/ Settling \/ Retrying) /\ \E run : SetRun(c, r, run)
    BY <1>5 DEF ExecutorFails
  <2> QED
    BY <1>1, <1>2, <2>1
<1>6. CASE AdvanceRefused(c, r) \/ ReturnVerdict(c, r)
  <2>1. (UNCHANGED requests \/ Settling) /\ \E run : SetRun(c, r, run)
    BY <1>6 DEF AdvanceRefused, ReturnVerdict
  <2> QED
    BY <1>1, <1>2, <2>1
<1>7. CASE RejectVerdict(c, r) \/ RunEnds(c, r)
  <2>1. (UNCHANGED requests \/ Settling) /\ \E run : SetRun(c, r, run)
    BY <1>7 DEF RejectVerdict, RunEnds
  <2> QED
    BY <1>1, <1>2, <2>1
<1>8. CASE Cancel(c, r)
  <2>1. Settling /\ (UNCHANGED runs \/ \E run : SetRun(c, r, run))
    BY <1>8 DEF Cancel
  <2> QED
    BY <1>1, <1>2, <2>1
<1>9. CASE \/ ExecutionAborted(c, r) \/ RecoverySleepAborted(c, r) \/ RenewOwnership(c, r)
           \/ DeadlineTimer(c, r) \/ CallerAborts(c, r)
  <2>1. UNCHANGED requests /\ (UNCHANGED runs \/ \E run : SetRun(c, r, run))
    BY <1>9 DEF ExecutionAborted, RecoverySleepAborted, RenewOwnership, DeadlineTimer, CallerAborts,
                durable
  <2> QED
    BY <1>1, <1>2, <2>1
<1> QED
  BY <1>3, <1>4, <1>5, <1>6, <1>7, <1>8, <1>9 DEF OwnStep

\* A cancellation settles a request that is running.
LEMMA CancelSettles ==
  ASSUME IInv, NEW c \in Coordinators, NEW r \in Requests, Cancel(c, r),
         requests[r].stage # "absent"
  PROVE  requests'[r].stage \in TERMINAL_STAGES
BY Settled DEF Cancel


\* Until its request is settled, its cursor advanced or an instance crashes, a run
\* that holds an accepted verdict keeps it.
LEMMA AdvanceComes ==
  ASSUME IInv, IInv', [Next]_vars, SoloInv, pushes = {},
         "recover" \notin Environment, "push" \notin Environment,
         ~ \E d \in Coordinators : Crash(d),
         NEW c \in Coordinators, NEW r \in Requests, NEW id, AboutToAdvance(c, r, id)
  PROVE  \/ AboutToAdvance(c, r, id)'
         \/ requests'[r].stage \in TERMINAL_STAGES
         \/ requests'[r].currentSegment = runs[c][r].segment + 1
<1>1. /\ runs[c][r].pc = "decided" /\ runs[c][r].arg = "accepted" /\ runs[c][r].id = id
      /\ requests[r].stage = "running" /\ c \in up
      /\ \A d \in Coordinators : d # c => runs[d][r].pc = "none"
  BY DEF AboutToAdvance, SoloInv
<1>2. ASSUME runs'[c][r] = runs[c][r], requests'[r].stage = requests[r].stage
      PROVE  AboutToAdvance(c, r, id)'
  BY <1>1, <1>2 DEF AboutToAdvance
<1>3. ASSUME NEW d \in Coordinators, NEW q \in Requests, OwnStep(d, q)
      PROVE  AboutToAdvance(c, r, id)' \/ requests'[r].stage \in TERMINAL_STAGES
  <2>1. CASE q # r
    BY <1>2, <1>3, <2>1, OwnStepElsewhere
  <2>2. CASE q = r /\ Cancel(d, q)
    BY <1>1, <2>2, CancelSettles
  <2>3. CASE q = r /\ ~Cancel(d, q)
    <3>1. d = c /\ CallerAborts(c, r)
      <4>1. OwnStep(d, r) /\ ~Cancel(d, r)
        BY <1>3, <2>3, Zenon
      <4>2. runs[d][r].pc # "none"
        BY <4>1, Zenon DEF OwnStep, ExecutorResolves, CheckpointValidated, ExecutorFails, ExecutionAborted,
                    RecoverySleepAborted, AdvanceRefused, ReturnVerdict, RejectVerdict, RunEnds,
                    RenewOwnership, DeadlineTimer, CallerAborts, InRequest, Interruptible
      <4>3. d = c
        BY <1>1, <4>2
      <4>4. OwnStep(c, r) /\ ~Cancel(c, r)
        BY <4>1, <4>3
      <4> QED
        BY <1>1, <4>3, <4>4
           DEF OwnStep, ExecutorResolves, CheckpointValidated, ExecutorFails, ExecutionAborted,
               RecoverySleepAborted, AdvanceRefused, ReturnVerdict, RejectVerdict, RunEnds,
               RenewOwnership, DeadlineTimer, Interruptible
    <3>2. PICK run \in AbortByCall(runs[c][r], runs[c][r].cancelKind) : SetRun(c, r, run)
      BY <3>1 DEF CallerAborts
    <3>3. UNCHANGED requests
      BY <3>1 DEF CallerAborts, durable
    <3>4. runs[c][r] \in RunRecord
      BY Parts
    <3>5. runs[c][r].cancelKind \in {"user", "deadline", "recovery-ownership"}
      BY <3>4 DEF RunRecord
    <3>6. AbortedFrom(run, runs[c][r])
      BY <3>2, <3>4, <3>5, AbortTyped
    <3>7. runs'[c][r] = run
      BY <3>2, RunWritten
    <3> QED
      BY <1>1, <3>3, <3>6, <3>7 DEF AbortedFrom, AboutToAdvance
  <2> QED
    BY <2>1, <2>2, <2>3
<1>4. CASE OutsideStep
  BY <1>2, <1>4, QuietOutside
<1>5. ASSUME NEW d \in Coordinators, NEW q \in Requests, NEW rec, NEW ws, NEW run,
             Turned(d, q, rec, ws, run), q # r
      PROVE  AboutToAdvance(c, r, id)'
  <2>1. runs'[c][r] = runs[c][r] /\ requests'[r] = requests[r]
    BY <1>5 DEF Turned
  <2> QED
    BY <1>2, <2>1
<1>6. ASSUME NEW d \in Coordinators, NEW q \in Requests, Submit(d, q)
      PROVE  AboutToAdvance(c, r, id)'
  <2>1. q # r
    BY <1>1, <1>6, SubmitTurned
  <2> QED
    BY <1>5, <1>6, <2>1, SubmitTurned
<1>7. ASSUME NEW d \in Coordinators, NEW q \in Requests, DelayOver(d, q)
      PROVE  AboutToAdvance(c, r, id)'
  <2>1. q # r
    BY <1>1, <1>7, DelayTurned
  <2> QED
    BY <1>5, <1>7, <2>1, DelayTurned
<1>8. ASSUME NEW d \in Coordinators, NEW q \in Requests, AdvanceSegment(d, q)
      PROVE  AboutToAdvance(c, r, id)' \/ requests'[r].currentSegment = runs[c][r].segment + 1
  <2>1. CASE q # r
    BY <1>5, <1>8, <2>1, AdvanceTurned
  <2>2. CASE q = r
    <3>1. d = c
      BY <1>1, <1>8, <2>2, AdvanceTurned
    <3> QED
      BY <1>8, <2>2, <3>1, AdvanceTurned DEF Turned
  <2> QED
    BY <2>1, <2>2
<1>9. ASSUME NEW d \in Coordinators, NEW q \in Requests, Recover(d, q) \/ RecoveryPoll(d, q)
       PROVE  AboutToAdvance(c, r, id)'
  <2>1. q # r
    <3>1. CASE Recover(d, q)
      <4>1. \A e \in up : runs[e][q].pc = "none"
        BY <3>1 DEF Recover
      <4> QED
        BY <1>1, <4>1
    <3>2. CASE RecoveryPoll(d, q)
      BY <1>1, <3>2 DEF RecoveryPoll
    <3> QED
      BY <1>9, <3>1, <3>2
  <2>2. BeginRecovery(d, q) /\ requests[q].stage # "absent"
    BY <1>9, RunSubmitted DEF Recover, RecoveryPoll, REQUEST_STAGES
  <2>3. CASE \E rec, run : Turned(d, q, rec, workers, run)
    BY <1>5, <2>1, <2>3
  <2>4. CASE Rested(d, q)
    <3>1. runs'[c][r] = runs[c][r] /\ requests'[r] = requests[r]
      BY <2>1, <2>4 DEF Rested
    <3> QED
      BY <1>2, <3>1
  <2> QED
    BY <2>2, <2>3, <2>4, RecoveryTurned
<1>10. CASE UNCHANGED vars
  <2>1. UNCHANGED <<requests, runs>>
    BY <1>10 DEF vars
  <2> QED
    BY <1>2, <2>1
<1> QED
  BY <1>3, <1>4, <1>6, <1>7, <1>8, <1>9, <1>10, StepCases


\* Attempts stay what they are, and one completes only where a run takes its
\* own result.
CompletesNothing ==
  \A i \in DOMAIN attempts' :
    attempts'[i].outcome = "completed" => i \in DOMAIN attempts /\ attempts[i].outcome = "completed"

LEMMA Completions ==
  ASSUME IInv, [Next]_vars, pushes = {}, "push" \notin Environment
  PROVE  /\ AttemptsKept(attempts, attempts')
         /\ \/ CompletesNothing
            \/ \E c \in Coordinators, r \in Requests :
                 OwnStep(c, r) /\ SameAttempts /\ TakesResult(c, r)
<1>1. DOMAIN attempts = 1 .. Len(attempts) /\ Len(attempts) \in Nat
  BY Parts, LenProperties
<1>2. ASSUME NEW c, NEW r, NEW rec, NEW ws, NEW run, Turned(c, r, rec, ws, run)
      PROVE  AttemptsKept(attempts, attempts') /\ CompletesNothing
  <2>1. /\ \A i \in DOMAIN attempts : i \in DOMAIN attempts' /\ attempts'[i] = attempts[i]
        /\ \A i \in DOMAIN attempts' : i \in DOMAIN attempts \/ attempts'[i].outcome = "none"
    BY <1>1, <1>2 DEF Turned, Issued
  <2> QED
    BY <2>1 DEF AttemptsKept, CompletesNothing
<1>3. ASSUME UNCHANGED attempts
      PROVE  AttemptsKept(attempts, attempts') /\ CompletesNothing
  BY <1>3 DEF AttemptsKept, CompletesNothing
<1>4. ASSUME NEW c \in Coordinators, NEW r \in Requests, OwnStep(c, r)
      PROVE  SameAttempts /\ (CompletesNothing \/ TakesResult(c, r))
  <2>1. CASE TakesResult(c, r)
    BY <2>1 DEF TakesResult, Recorded
  <2>2. CASE \/ OutcomesKept
             \/ \E i \in DOMAIN attempts, o \in {"cancelled", "suppressed", "failed"} : Recorded(i, o)
    <3>1. /\ SameAttempts
          /\ \A i \in DOMAIN attempts :
               attempts'[i].outcome = attempts[i].outcome \/ attempts'[i].outcome # "completed"
      BY <2>2 DEF OutcomesKept, Recorded
    <3> QED
      BY <3>1 DEF SameAttempts, CompletesNothing
  <2>3. CountsFailure(c, r) => \E i \in DOMAIN attempts : Recorded(i, "failed")
    BY DEF CountsFailure, Recorded
  <2> QED
    BY <1>4, <2>1, <2>2, <2>3, OwnStepOutcome
<1>5. CASE OutsideStep
  BY <1>3, <1>5, QuietOutside
<1>6. CASE \E c \in Coordinators : Crash(c)
  BY <1>3, <1>6 DEF Crash
<1>7. ASSUME NEW c \in Coordinators, NEW r \in Requests, Recover(c, r) \/ RecoveryPoll(c, r)
      PROVE  AttemptsKept(attempts, attempts') /\ CompletesNothing
  <2>1. BeginRecovery(c, r) /\ requests[r].stage # "absent"
    BY <1>7, RunSubmitted DEF Recover, RecoveryPoll, REQUEST_STAGES
  <2> QED
    BY <1>2, <1>3, <2>1, RecoveryTurned DEF Rested
<1>8. ASSUME NEW c \in Coordinators, NEW r \in Requests,
             Submit(c, r) \/ AdvanceSegment(c, r) \/ DelayOver(c, r)
      PROVE  AttemptsKept(attempts, attempts') /\ CompletesNothing
  <2>1. \E rec, ws, run : Turned(c, r, rec, ws, run)
    BY <1>8, SubmitTurned, AdvanceTurned, DelayTurned
  <2> QED
    BY <1>2, <2>1
<1>9. CASE UNCHANGED vars
  BY <1>3, <1>9 DEF vars
<1> QED
  BY <1>4, <1>5, <1>6, <1>7, <1>8, <1>9, StepCases DEF SameAttempts

\* Without a new attempt, a run at work was at work on the same attempt.
LEMMA WorkStays ==
  ASSUME IInv, [Next]_vars, DOMAIN attempts' = DOMAIN attempts,
         NEW d \in Coordinators, NEW q \in Requests, Assigned(runs'[d][q])
  PROVE  Assigned(runs[d][q]) /\ runs'[d][q].id = runs[d][q].id
<1>1. CASE RunsGoOn
  BY <1>1 DEF RunsGoOn, Onward
<1>2. ASSUME NEW c \in Coordinators, NEW r \in Requests,
             NEW rec, NEW ws, NEW run, Turned(c, r, rec, ws, run)
      PROVE  runs'[d][q] = runs[d][q]
  <2>1. \A id : ~(id = Len(attempts) + 1 /\ DOMAIN attempts' = 1 .. id)
    BY Parts, LenProperties
  <2>2. runs'[c][r].pc \in {"ending", "delay"}
    BY <1>2, <2>1 DEF Turned, Issued
  <2> QED
    BY <1>2, <2>2 DEF Turned, Assigned
<1>3. ASSUME NEW c \in Coordinators, NEW r \in Requests,
             Submit(c, r) \/ AdvanceSegment(c, r) \/ DelayOver(c, r)
      PROVE  runs'[d][q] = runs[d][q]
  <2>1. CASE Submit(c, r)
    BY <1>2, <2>1, SubmitTurned
  <2>2. CASE AdvanceSegment(c, r)
    BY <1>2, <2>2, AdvanceTurned
  <2>3. CASE DelayOver(c, r)
    BY <1>2, <2>3, DelayTurned
  <2> QED
    BY <1>3, <2>1, <2>2, <2>3
<1>4. ASSUME NEW c \in Coordinators, NEW r \in Requests, Recover(c, r) \/ RecoveryPoll(c, r)
      PROVE  runs'[d][q] = runs[d][q]
  <2>1. BeginRecovery(c, r) /\ requests[r].stage # "absent"
    BY <1>4, RunSubmitted DEF Recover, RecoveryPoll, REQUEST_STAGES
  <2>2. CASE Rested(c, r)
    BY <2>2 DEF Rested, Assigned
  <2>3. CASE ~Rested(c, r)
    BY <1>2, <2>1, <2>3, RecoveryTurned
  <2> QED
    BY <2>2, <2>3
<1>5. ASSUME UNCHANGED runs
      PROVE  runs'[d][q] = runs[d][q]
  BY <1>5
<1>6. \/ RunsGoOn
      \/ runs'[d][q] = runs[d][q]
  BY <1>3, <1>4, <1>5, OwnStepRuns, OutsideStepEffect, CrashEffect, StepCases DEF vars
<1> QED
  BY <1>1, <1>6

\* A new attempt comes with a turn of the loop, as the one its run is at work on
\* or none; without one, no run takes up work.
LEMMA LatestStays ==
  ASSUME IInv, IInv', [Next]_vars, SoloInv', LatestAtWork, pushes = {},
         "push" \notin Environment
  PROVE  LatestAtWork'
<1>1. AttemptsKept(attempts, attempts') /\ DOMAIN attempts = 1 .. Len(attempts)
      /\ Len(attempts) \in Nat
  BY Completions, Parts, LenProperties
<1>2. CASE DOMAIN attempts' = DOMAIN attempts
  <2>1. ASSUME NEW c \in Coordinators, NEW r \in Requests, Assigned(runs'[c][r])
        PROVE  \A i \in DOMAIN attempts' : attempts'[i].request = r => i <= runs'[c][r].id
    <3>1. Assigned(runs[c][r]) /\ runs'[c][r].id = runs[c][r].id
      BY <1>2, <2>1, WorkStays
    <3> QED
      BY <1>1, <1>2, <3>1 DEF LatestAtWork, AttemptsKept
  <2> QED
    BY <2>1 DEF LatestAtWork, Assigned
<1>3. ASSUME NEW c \in Coordinators, NEW r \in Requests, NEW rec, NEW ws, NEW run,
             Turned(c, r, rec, ws, run)
      PROVE  LatestAtWork'
  <2>1. CASE DOMAIN attempts' = DOMAIN attempts
    BY <1>2, <2>1
  <2>2. CASE DOMAIN attempts' # DOMAIN attempts
    <3> DEFINE At(w, id) ==
                 /\ Issued(r, id, w, ws)
                 /\ \/ runs'[c][r].pc = "ending"
                    \/ runs'[c][r].pc = "executing" /\ runs'[c][r].id = id
    <3>1. \E w \in availableWorkers(ws), id \in Nat : At(w, id)
      <4>1. attempts' # attempts
        BY <2>2, Zenon
      <4>2. PICK w \in availableWorkers(ws), id \in Nat :
              /\ Issued(r, id, w, ws)
              /\ \/ runs'[c][r].pc = "ending" /\ workers' = ws
                 \/ /\ runs'[c][r].pc = "executing"
                    /\ runs'[c][r].segment = run.segment
                    /\ runs'[c][r].id = id
                    /\ workers' = markStage(ws, w, ws[w].gen, "busy")
        BY <1>3, <4>1, Zenon DEF Turned
      <4>3. At(w, id)
        BY <4>2, Zenon
      <4> QED
        BY <4>3, Zenon
    <3> PICK w \in availableWorkers(ws), id \in Nat : At(w, id)
      BY <3>1, Zenon
    <3>2. \A d \in Coordinators, q \in Requests : runs'[d][q] = runs[d][q] \/ (d = c /\ q = r)
      BY <1>3 DEF Turned
    <3>3. /\ id = Len(attempts) + 1 /\ DOMAIN attempts' = 1 .. id
          /\ attempts'[id].request = r
          /\ \A i \in DOMAIN attempts : attempts'[i] = attempts[i]
      BY DEF Issued
    <3>4. ASSUME NEW d \in Coordinators, NEW q \in Requests, Assigned(runs'[d][q]),
                 NEW i \in DOMAIN attempts', attempts'[i].request = q
          PROVE  i <= runs'[d][q].id
      <4>1. CASE q = r
        <5>1. d = c
          BY <3>4, <4>1 DEF SoloInv, Assigned
        <5> QED
          BY <3>3, <3>4, <4>1, <5>1 DEF Assigned
      <4>2. CASE q # r
        <5>1. runs'[d][q] = runs[d][q]
          BY <3>2, <4>2
        <5>2. i \in DOMAIN attempts /\ attempts[i].request = q
          BY <1>1, <3>3, <3>4, <4>2
        <5> QED
          BY <3>4, <5>1, <5>2 DEF LatestAtWork
      <4> QED
        BY <4>1, <4>2
    <3> QED
      BY <3>4 DEF LatestAtWork, Assigned
  <2> QED
    BY <2>1, <2>2
<1>4. ASSUME NEW c \in Coordinators, NEW r \in Requests, OwnStep(c, r)
      PROVE  DOMAIN attempts' = DOMAIN attempts
  BY <1>4, OwnStepOutcome DEF ProgressKept, CountsFailure, Recorded, SameAttempts
<1>5. ASSUME OutsideStep \/ (\E c \in Coordinators : Crash(c)) \/ UNCHANGED vars
      PROVE  DOMAIN attempts' = DOMAIN attempts
  BY <1>5, QuietOutside DEF Crash, vars
<1>6. ASSUME NEW c \in Coordinators, NEW r \in Requests, Recover(c, r) \/ RecoveryPoll(c, r)
      PROVE  LatestAtWork'
  <2>1. BeginRecovery(c, r) /\ requests[r].stage # "absent"
    BY <1>6, RunSubmitted DEF Recover, RecoveryPoll, REQUEST_STAGES
  <2> QED
    BY <1>2, <1>3, <2>1, RecoveryTurned DEF Rested
<1>7. ASSUME NEW c \in Coordinators, NEW r \in Requests,
             Submit(c, r) \/ AdvanceSegment(c, r) \/ DelayOver(c, r)
      PROVE  LatestAtWork'
  <2>1. \E rec, ws, run : Turned(c, r, rec, ws, run)
    BY <1>7, SubmitTurned, AdvanceTurned, DelayTurned
  <2> QED
    BY <1>3, <2>1
<1> QED
  BY <1>2, <1>4, <1>5, <1>6, <1>7, StepCases

\* Where nothing completes, nothing is repeated.
LEMMA NothingRepeats ==
  ASSUME AttemptsKept(attempts, attempts'), CompletesNothing, NEW r \in Requests
  PROVE  Repeats(attempts', r) \subseteq Repeats(attempts, r)
BY DEF AttemptsKept, CompletesNothing, Repeats

\* Repeats can be counted.
LEMMA RepeatsFinite ==
  ASSUME NEW atts \in Seq(AttemptRecord), NEW r
  PROVE  IsFiniteSet(Repeats(atts, r)) /\ Cardinality(Repeats(atts, r)) \in Nat
<1>1. Len(atts) \in Nat /\ DOMAIN atts = 1 .. Len(atts)
  BY LenProperties
<1>2. IsFiniteSet(DOMAIN atts)
  BY <1>1, FS_Interval
<1>3. Repeats(atts, r) \subseteq DOMAIN atts
  BY DEF Repeats
<1> QED
  BY <1>2, <1>3, FS_Subset, FS_CardinalityType

\* Fewer repeats cost no more crashes, and one more costs one.
LEMMA RepeatsCounted ==
  ASSUME IInv, IInv', NEW r \in Requests
  PROVE  /\ Cardinality(Repeats(attempts, r)) \in Nat /\ Cardinality(Repeats(attempts', r)) \in Nat
         /\ Repeats(attempts', r) \subseteq Repeats(attempts, r) =>
              Cardinality(Repeats(attempts', r)) <= Cardinality(Repeats(attempts, r))
         /\ \A id : Repeats(attempts', r) \subseteq Repeats(attempts, r) \cup {id} =>
              Cardinality(Repeats(attempts', r)) <= Cardinality(Repeats(attempts, r)) + 1
<1> DEFINE old == Repeats(attempts, r)
           new == Repeats(attempts', r)
<1>1. attempts \in Seq(AttemptRecord) /\ attempts' \in Seq(AttemptRecord)
  BY DEF IInv, TypeOK
<1>2. IsFiniteSet(old) /\ Cardinality(old) \in Nat /\ Cardinality(new) \in Nat
  BY <1>1, RepeatsFinite
<1> HIDE DEF old, new
<1>3. new \subseteq old => Cardinality(new) <= Cardinality(old)
  BY <1>2, FS_Subset
<1>4. ASSUME NEW id, new \subseteq old \cup {id}
      PROVE  Cardinality(new) <= Cardinality(old) + 1
  <2> DEFINE more == old \cup {id}
  <2>1. IsFiniteSet(more)
        /\ Cardinality(more) = (IF id \in old THEN Cardinality(old) ELSE Cardinality(old) + 1)
    BY <1>2, FS_AddElement
  <2> HIDE DEF more
  <2>2. Cardinality(new) <= Cardinality(more)
    BY <1>4, <2>1, FS_Subset DEF more
  <2> QED
    BY <1>2, <2>1, <2>2
<1> QED
  BY <1>2, <1>3, <1>4 DEF old, new

\* Nobody comes to redo a segment of a request unless a completion was lost.
LEMMA RedoingStays ==
  ASSUME IInv, IInv', [Next]_vars, SoloInv, pushes = {}, NothingAhead,
         "recover" \notin Environment, "push" \notin Environment,
         ~ \E d \in Coordinators : Crash(d), CompletesNothing,
         NEW r \in Requests, Redoing(r)'
  PROVE  Redoing(r)
<1>1. PICK i \in DOMAIN attempts' :
        /\ attempts'[i].request = r /\ attempts'[i].outcome = "completed"
        /\ attempts'[i].segment = requests'[r].currentSegment
  BY DEF Redoing
<1>2. /\ i \in DOMAIN attempts /\ attempts[i].outcome = "completed"
      /\ attempts[i].request = r /\ attempts[i].segment = requests'[r].currentSegment
  BY <1>1, Completions DEF CompletesNothing, AttemptsKept
<1>3. /\ requests[r].currentSegment \in Nat /\ requests'[r].currentSegment \in Nat
      /\ requests'[r].currentSegment >= requests[r].currentSegment
  BY SegmentFacts, StepSolo DEF CursorForward, IInv, TypeOK, RequestRecord
<1>4. requests'[r].currentSegment = requests[r].currentSegment
  BY <1>2, <1>3 DEF NothingAhead
<1>5. requests[r].stage \notin TERMINAL_STAGES
  BY StagesStay DEF Redoing
<1>6. ASSUME NEW c \in Coordinators, NEW id \in Nat, AboutToAdvance(c, r, id)
      PROVE  FALSE
  <2>1. runs[c][r].segment = requests[r].currentSegment
    BY <1>6 DEF SoloInv, AboutToAdvance, Working, Assigned
  <2>2. \/ AboutToAdvance(c, r, id)'
        \/ requests'[r].stage \in TERMINAL_STAGES
        \/ requests'[r].currentSegment = runs[c][r].segment + 1
    BY <1>6, AdvanceComes
  <2>3. requests'[r].currentSegment # runs[c][r].segment + 1
    BY <1>3, <1>4, <2>1
  <2> QED
    BY <2>2, <2>3 DEF Redoing, Advancing
<1> QED
  BY <1>2, <1>4, <1>5, <1>6 DEF Redoing, Advancing

\* Only a crash takes an instance away.
LEMMA UpStays ==
  ASSUME IInv, [Next]_vars, ~ \E c \in Coordinators : Crash(c)
  PROVE  UNCHANGED up
<1>1. ASSUME NEW c \in Coordinators, NEW r \in Requests, OwnStep(c, r)
      PROVE  UNCHANGED up
  BY <1>1, OwnStepClaims
<1>2. CASE OutsideStep
  BY <1>2, OutsideStepEffect
<1>3. ASSUME NEW c \in Coordinators, NEW r \in Requests,
             \/ Submit(c, r)
             \/ Recover(c, r) \/ RecoveryPoll(c, r)
             \/ AdvanceSegment(c, r)
             \/ DelayOver(c, r)
      PROVE  UNCHANGED up
  BY <1>3, SubmitTurned, AdvanceTurned, DelayTurned DEF Recover, RecoveryPoll
<1>4. CASE UNCHANGED vars
  BY <1>4 DEF vars
<1> QED
  BY <1>1, <1>2, <1>3, <1>4, StepCases

LEMMA StepRepeats ==
  ASSUME IInv, IInv', [Next]_vars, SoloInv, SoloInv', RepeatInv,
         "recover" \notin Environment, "push" \notin Environment
  PROVE  RepeatInv'
<1>1. pushes = {} /\ pushes' = {}
  BY NothingPushed DEF RepeatInv
<1>2. /\ AttemptsKept(attempts, attempts')
      /\ \A i \in DOMAIN attempts : i \in Nat
  BY <1>1, Completions, Parts, LenProperties DEF AttemptsKept
<1>3. LatestAtWork'
  BY <1>1, LatestStays DEF RepeatInv
<1>4. /\ IsFiniteSet(Coordinators \ up) /\ Crashes \in Nat
      /\ \A r \in Requests : PaidFor(r)
  BY FS_CardinalityType DEF RepeatInv, Crashes
<1>5. ASSUME NEW i \in DOMAIN attempts, NEW s \in Nat,
             s <= requests[attempts[i].request].currentSegment
      PROVE  s <= requests'[attempts[i].request].currentSegment
  <2>1. attempts[i].request \in Requests
    BY Parts, AttemptTyped
  <2>2. \A r \in Requests : requests[r].currentSegment \in Nat /\ requests'[r].currentSegment \in Nat
    BY SegmentFacts DEF IInv, TypeOK, RequestRecord
  <2>3. \A r \in Requests : requests'[r].currentSegment >= requests[r].currentSegment
    BY StepSolo DEF CursorForward
  <2> QED
    BY <1>5, <2>1, <2>2, <2>3
<1>6. \A i \in DOMAIN attempts :
        attempts[i].outcome = "completed" =>
          attempts'[i].segment <= requests'[attempts'[i].request].currentSegment
  BY <1>2, <1>5, Parts, AttemptTyped, SegmentFacts DEF AttemptsKept, RepeatInv, NothingAhead
<1>7. \A i \in DOMAIN attempts :
         attempts[i].outcome = "completed" /\ attempts'[i].segment = FinalSegment =>
           requests'[attempts'[i].request].stage \in TERMINAL_STAGES
  <2>1. ASSUME NEW i \in DOMAIN attempts, attempts[i].outcome = "completed",
               attempts'[i].segment = FinalSegment
        PROVE  requests'[attempts'[i].request].stage \in TERMINAL_STAGES
    <3>1. attempts[i].request \in Requests /\ attempts'[i].request = attempts[i].request
          /\ attempts[i].segment = FinalSegment
      BY <1>2, <2>1, Parts, AttemptTyped DEF AttemptsKept
    <3>2. requests[attempts[i].request].stage \in TERMINAL_STAGES
      BY <2>1, <3>1 DEF RepeatInv, FinalsEnd
    <3> QED
      BY <3>1, <3>2, StagesStay
  <2> QED
    BY <2>1
<1>8. ASSUME CompletesNothing
      PROVE  /\ NothingAhead' /\ FinalsEnd'
             /\ \A r \in Requests :
                  /\ Cardinality(Repeats(attempts', r)) <= Cardinality(Repeats(attempts, r))
                  /\ \A i \in Repeats(attempts', r) : attempts'[i].segment # FinalSegment
  <2>1. NothingAhead'
    BY <1>6, <1>8 DEF CompletesNothing, NothingAhead
  <2>2. FinalsEnd'
    BY <1>8, <1>7 DEF CompletesNothing, FinalsEnd
  <2>3. \A r \in Requests : Repeats(attempts', r) \subseteq Repeats(attempts, r)
    BY <1>2, <1>8, NothingRepeats
  <2>4. ASSUME NEW r \in Requests, NEW i \in Repeats(attempts', r)
        PROVE  attempts'[i].segment # FinalSegment
    <3>1. i \in Repeats(attempts, r) /\ i \in DOMAIN attempts
      BY <2>3, <2>4 DEF Repeats
    <3> QED
      BY <1>2, <3>1 DEF AttemptsKept, RepeatInv
  <2> QED
    BY <2>1, <2>2, <2>3, <2>4, RepeatsCounted
<1>9. ASSUME NEW c \in Coordinators, Crash(c)
      PROVE  RepeatInv'
  <2>1. /\ c \in up /\ up' = up \ {c} /\ UNCHANGED attempts
    BY <1>9 DEF Crash
  <2>2. Coordinators \ up' = (Coordinators \ up) \cup {c} /\ c \notin Coordinators \ up
    BY <2>1
  <2>3. IsFiniteSet(Coordinators \ up') /\ Crashes' = Crashes + 1
    <3> DEFINE gone == Coordinators \ up
    <3>1. IsFiniteSet(gone) /\ c \notin gone
      BY <1>4, <2>2
    <3> HIDE DEF gone
    <3>2. IsFiniteSet(gone \cup {c}) /\ Cardinality(gone \cup {c}) = Cardinality(gone) + 1
      BY <3>1, FS_AddElement
    <3> QED
      BY <2>2, <3>2 DEF Crashes, gone
  <2>4. CompletesNothing
    BY <2>1 DEF CompletesNothing
  <2>5. \A r \in Requests :
          /\ Cardinality(Repeats(attempts, r)) \in Nat
          /\ Cardinality(Repeats(attempts, r)) <= Crashes
    BY <1>4, RepeatsCounted DEF PaidFor
  <2>6. \A r \in Requests : PaidFor(r)'
    BY <1>4, <2>1, <2>3, <2>5 DEF PaidFor
  <2> QED
    BY <1>1, <1>3, <1>8, <2>3, <2>4, <2>6 DEF RepeatInv
<1>10. CASE ~ \E c \in Coordinators : Crash(c)
  <2>1. UNCHANGED up
    BY <1>10, UpStays
  <2>2. IsFiniteSet(Coordinators \ up') /\ Crashes' = Crashes
    BY <1>4, <2>1 DEF Crashes
  <2>3. CASE CompletesNothing
    <3>1. \A r \in Requests : Redoing(r)' => Redoing(r)
      BY <1>1, <1>10, <2>3, RedoingStays DEF RepeatInv
    <3>2. ASSUME NEW r \in Requests
          PROVE  PaidFor(r)'
      <4>1. /\ Cardinality(Repeats(attempts, r)) \in Nat
            /\ Cardinality(Repeats(attempts', r)) \in Nat
            /\ Cardinality(Repeats(attempts', r)) <= Cardinality(Repeats(attempts, r))
        BY <1>8, <2>3, RepeatsCounted
      <4> QED
        BY <1>4, <2>2, <3>1, <4>1 DEF PaidFor
    <3> QED
      BY <1>1, <1>3, <1>8, <2>2, <2>3, <3>2 DEF RepeatInv
  <2>4. ASSUME NEW c \in Coordinators, NEW r \in Requests, SameAttempts, TakesResult(c, r),
               OwnStep(c, r)
        PROVE  RepeatInv'
    <3> PICK id \in DOMAIN attempts : id = runs[c][r].id
      BY <2>4 DEF TakesResult, Recorded
    <3>1. /\ attempts[id].request = r /\ attempts[id].segment = requests[r].currentSegment
          /\ requests[r].stage = "running" /\ runs[c][r].pc \in {"executing", "validating"}
          /\ \A i \in DOMAIN attempts : attempts[i].request = r => i <= id
      BY <2>4, AssignedFacts DEF TakesResult, Assigned, Working, SoloInv, RepeatInv, LatestAtWork
    <3>2. /\ DOMAIN attempts' = DOMAIN attempts
          /\ \A i \in DOMAIN attempts : i # id => attempts'[i].outcome = attempts[i].outcome
      BY <2>4 DEF SameAttempts, TakesResult, Recorded
    <3>3. NothingAhead'
      <4>1. attempts'[id].segment <= requests'[attempts'[id].request].currentSegment
        <5>1. attempts[id].segment \in Nat
          BY Parts, AttemptTyped, SegmentFacts
        <5>2. attempts[id].segment <= requests[attempts[id].request].currentSegment
          BY <3>1, <5>1
        <5>3. attempts[id].segment <= requests'[attempts[id].request].currentSegment
          BY <1>5, <5>1, <5>2
        <5> QED
          BY <1>2, <5>3 DEF AttemptsKept
      <4> QED
        BY <1>6, <3>2, <4>1 DEF NothingAhead
    <3>4. FinalsEnd'
      <4>1. CASE requests'[r].stage = "completed"
        BY <1>2, <1>7, <3>1, <3>2, <4>1 DEF FinalsEnd, AttemptsKept, TERMINAL_STAGES
      <4>2. CASE requests'[r].stage # "completed"
        <5>1. runs'[c][r].pc = "decided" /\ runs'[c][r].arg = "accepted" /\ runs'[c][r].id = id
          BY <2>4, <4>2 DEF TakesResult
        <5>2. RunSound(r, runs[c][r], attempts)'
          BY DEF IInv
        <5>3. attempts'[id].segment # FinalSegment
          BY <5>1, <5>2 DEF RunSound, Assigned
        <5> QED
          BY <1>7, <3>2, <5>3 DEF FinalsEnd
      <4> QED
        BY <4>1, <4>2
    <3>5. ~Advancing(r)
      BY <3>1 DEF Advancing, AboutToAdvance, SoloInv
    <3>6. /\ Repeats(attempts', r) \subseteq Repeats(attempts, r) \cup {id}
          /\ id \in Repeats(attempts', r) => Redoing(r)
      <4>1. ASSUME NEW i \in Repeats(attempts', r), i # id
            PROVE  i \in Repeats(attempts, r)
        <5>1. PICK j \in DOMAIN attempts' :
                /\ j < i
                /\ attempts'[j].request = r
                /\ attempts'[j].outcome = "completed"
                /\ attempts'[j].segment = attempts'[i].segment
          BY <4>1 DEF Repeats
        <5>2. /\ i \in DOMAIN attempts /\ j \in DOMAIN attempts
              /\ attempts[i].request = r /\ attempts[i].outcome = "completed"
              /\ attempts[j].request = r /\ attempts[j].segment = attempts[i].segment
          BY <1>2, <3>2, <4>1, <5>1 DEF Repeats, AttemptsKept
        <5>3. j # id
          BY <1>2, <3>1, <5>1, <5>2
        <5> QED
          BY <3>2, <5>1, <5>2, <5>3 DEF Repeats
      <4>2. ASSUME id \in Repeats(attempts', r)
            PROVE  Redoing(r)
        <5>1. PICK j \in DOMAIN attempts' :
                /\ j < id
                /\ attempts'[j].request = r
                /\ attempts'[j].outcome = "completed"
                /\ attempts'[j].segment = attempts'[id].segment
          BY <4>2 DEF Repeats
        <5>2. /\ j \in DOMAIN attempts /\ j # id
              /\ attempts[j].request = r /\ attempts[j].outcome = "completed"
              /\ attempts[j].segment = requests[r].currentSegment
          BY <1>2, <3>1, <3>2, <5>1 DEF AttemptsKept
        <5> QED
          BY <3>1, <3>5, <5>2 DEF Redoing, TERMINAL_STAGES
      <4> QED
        BY <4>1, <4>2
    <3>7. ~Redoing(r)'
      <4>1. CASE requests'[r].stage = "completed"
        BY <4>1 DEF Redoing, TERMINAL_STAGES
      <4>2. CASE requests'[r].stage # "completed"
        <5>1. AboutToAdvance(c, r, id)' /\ id \in Nat
          BY <1>2, <2>4, <4>2 DEF TakesResult, AboutToAdvance
        <5> QED
          BY <5>1 DEF Redoing, Advancing
      <4> QED
        BY <4>1, <4>2
    <3>8. PaidFor(r)'
      <4>1. /\ Cardinality(Repeats(attempts, r)) \in Nat
            /\ Cardinality(Repeats(attempts', r)) \in Nat
        BY RepeatsCounted
      <4>2. CASE id \in Repeats(attempts', r)
        <5>1. Cardinality(Repeats(attempts', r)) <= Cardinality(Repeats(attempts, r)) + 1
          BY <3>6, RepeatsCounted
        <5>2. Cardinality(Repeats(attempts, r)) < Crashes
          BY <1>4, <3>6, <4>2 DEF PaidFor
        <5> QED
          BY <1>4, <2>2, <3>7, <4>1, <5>1, <5>2 DEF PaidFor
      <4>3. CASE id \notin Repeats(attempts', r)
        <5>1. Repeats(attempts', r) \subseteq Repeats(attempts, r)
          BY <3>6, <4>3
        <5>2. Cardinality(Repeats(attempts', r)) <= Cardinality(Repeats(attempts, r))
          BY <5>1, RepeatsCounted
        <5> QED
          BY <1>4, <2>2, <3>7, <4>1, <5>2 DEF PaidFor
      <4> QED
        BY <4>2, <4>3
    <3>9. ASSUME NEW q \in Requests, q # r
          PROVE  Repeats(attempts', q) = Repeats(attempts, q) /\ (Redoing(q)' => Redoing(q))
      <4>1. /\ \A i \in DOMAIN attempts : attempts[i].request = q =>
                  attempts'[i].outcome = attempts[i].outcome
            /\ \A i \in DOMAIN attempts :
                  attempts'[i].request = attempts[i].request /\ attempts'[i].segment = attempts[i].segment
        BY <1>2, <3>1, <3>2, <3>9 DEF AttemptsKept
      <4>2. Repeats(attempts', q) = Repeats(attempts, q)
        BY <3>2, <4>1 DEF Repeats
      <4>3. /\ requests'[q] = requests[q]
            /\ \A d \in Coordinators : runs'[d][q] = runs[d][q]
        BY <2>4, <3>9, OwnStepElsewhere
      <4>4. Redoing(q)' => Redoing(q)
        BY <3>2, <4>1, <4>3 DEF Redoing, Advancing, AboutToAdvance
      <4> QED
        BY <4>2, <4>4
    <3>10. \A q \in Requests : PaidFor(q)'
      BY <1>4, <2>2, <3>8, <3>9 DEF PaidFor
    <3>11. ASSUME NEW q \in Requests, NEW i \in Repeats(attempts', q)
           PROVE  attempts'[i].segment # FinalSegment
      <4>1. i \in DOMAIN attempts /\ attempts'[i].segment = attempts[i].segment
        BY <1>2, <3>2, <3>11 DEF Repeats, AttemptsKept
      <4>2. CASE i \in Repeats(attempts, q)
        BY <4>1, <4>2 DEF RepeatInv
      <4>3. CASE i \notin Repeats(attempts, q)
        <5>1. i = id /\ q = r
          BY <3>6, <3>9, <3>11, <4>3
        <5>2. PICK j \in DOMAIN attempts :
                /\ attempts[j].request = r /\ attempts[j].outcome = "completed"
                /\ attempts[j].segment = requests[r].currentSegment
          BY <3>6, <3>11, <5>1 DEF Redoing
        <5>3. attempts[j].segment # FinalSegment
          BY <3>1, <5>2 DEF RepeatInv, FinalsEnd, TERMINAL_STAGES
        <5> QED
          BY <3>1, <4>1, <5>1, <5>2, <5>3
      <4> QED
        BY <4>2, <4>3
    <3> QED
      BY <1>1, <1>3, <2>2, <3>3, <3>10, <3>11, <3>4 DEF RepeatInv
  <2> QED
    BY <2>3, <2>4, <1>1, <1>10, Completions
<1> QED
  BY <1>9, <1>10

\* Completed work is done again only after a crash, one segment for each crash at
\* most, and never the final one (acceptResult and executeAllSegments,
\* durable-coordinator-core-impl.ts), wherever a crash strikes, when recovery is
\* the startup scan and results arrive through the executor.
THEOREM RepeatsPaidByCrashes ==
  ASSUME "recover" \notin Environment, "push" \notin Environment
  PROVE  Spec => []CrashRepeatsOneSegment
<1>1. Init => SoloInv /\ RepeatInv
  <2> SUFFICES ASSUME Init PROVE SoloInv /\ RepeatInv
    OBVIOUS
  <2>1. SoloInv
    BY DEF Init, SoloInv, NoRun, NoRequest, Working, Assigned
  <2>2. DOMAIN attempts = {} /\ Coordinators \ up = {} /\ pushes = {}
        /\ \A c \in Coordinators, r \in Requests : ~Assigned(runs[c][r])
    BY DEF Init, NoRun, Assigned
  <2>3. \A r \in Requests : Repeats(attempts, r) = {} /\ ~Redoing(r)
    BY <2>2 DEF Repeats, Redoing
  <2>4. IsFiniteSet({}) /\ Cardinality({}) = 0
    BY FS_EmptySet
  <2>5. ASSUME NEW r \in Requests
        PROVE  PaidFor(r)
    <3>1. Crashes = 0
      BY <2>2, <2>4 DEF Crashes
    <3>2. Cardinality(Repeats(attempts, r)) = 0 /\ ~Redoing(r)
      BY <2>3, <2>4
    <3> QED
      BY <3>1, <3>2 DEF PaidFor
  <2> QED
    BY <2>1, <2>2, <2>3, <2>4, <2>5 DEF RepeatInv, LatestAtWork, NothingAhead, FinalsEnd
<1>2. IInv /\ IInv' /\ (SoloInv /\ RepeatInv) /\ [Next]_vars => (SoloInv /\ RepeatInv)'
  BY StepSolo, StepRepeats
<1>3. RepeatInv => CrashRepeatsOneSegment
  BY DEF RepeatInv, PaidFor, Crashes, CrashRepeatsOneSegment
<1> QED
  BY <1>1, <1>2, <1>3, Invariance, PTL DEF Spec


------------------------------------------------------------------------------
(***************************************************************************)
(* The eighth result: while no instance crashes, no request is forgotten.  *)
(* One that has not ended has a run inside runRequest that has not lost    *)
(* its claim, which is the run that settles it at its end.  A run yields   *)
(* only after a peer's claim, and whoever holds a claim works on it.       *)
(***************************************************************************)

\* A step moves one request forward, or none; only submit moves one that is not
\* there, only cancel and the end of a run touch a cancellation record.
LEMMA StepStages ==
  ASSUME IInv, [Next]_vars
  PROVE  \/ \E c \in Coordinators, q \in Requests :
              Submit(c, q) /\ Advances(q) /\ UNCHANGED cancellations
         \/ \E q \in Requests :
              /\ requests[q].stage # "absent" /\ Advances(q)
              /\ UNCHANGED cancellations \/ \E c \in Coordinators : Cancel(c, q) \/ RunEnds(c, q)
         \/ /\ \A q \in Requests : requests'[q].stage = requests[q].stage
            /\ UNCHANGED cancellations
<1> DEFINE Moved == \E q \in Requests :
                      /\ requests[q].stage # "absent" /\ Advances(q)
                      /\ UNCHANGED cancellations \/ \E c \in Coordinators : Cancel(c, q) \/ RunEnds(c, q)
           Still == /\ \A q \in Requests : requests'[q].stage = requests[q].stage
                    /\ UNCHANGED cancellations
<1>1. ASSUME NEW c \in Coordinators, NEW r \in Requests, OwnStep(c, r)
      PROVE  Moved \/ Still
  <2>1. CASE ExecutorResolves(c, r) \/ CheckpointValidated(c, r)
    BY <2>1, ResultAdvances
  <2>2. CASE \/ ExecutorFails(c, r) \/ AdvanceRefused(c, r) \/ ReturnVerdict(c, r)
             \/ RejectVerdict(c, r)
    BY <2>2, RunAdvances
  <2>3. CASE \/ ExecutionAborted(c, r) \/ RecoverySleepAborted(c, r) \/ RenewOwnership(c, r)
             \/ DeadlineTimer(c, r) \/ CallerAborts(c, r)
    BY <2>3 DEF ExecutionAborted, RecoverySleepAborted, RenewOwnership, DeadlineTimer,
                CallerAborts, durable
  <2>4. CASE RunEnds(c, r)
    BY <2>4, RunEndsAdvances
  <2>5. CASE Cancel(c, r)
    BY <2>5, CancelAdvances
  <2> QED
    BY <1>1, <2>1, <2>2, <2>3, <2>4, <2>5 DEF OwnStep
<1>2. CASE OutsideStep
  <2>1. ASSUME NEW c \in Coordinators, NEW id \in DOMAIN attempts, PushResult(c, id) \/ PushFailure(c, id)
        PROVE  Moved
    BY <2>1, ResultAdvances
  <2>2. ASSUME NEW p \in pushes, PushValidated(p)
        PROVE  Moved
    <3>1. p.coordinator \in Coordinators
      BY DEF IInv, TypeOK
    <3> QED
      BY <2>2, <3>1, ResultAdvances
  <2>3. ASSUME NEW w \in Workers,
               RegisterWorker(w) \/ WorkerHeartbeat(w) \/ RemoveWorker(w) \/ HeartbeatTimeout(w)
        PROVE  Still
    BY <2>3 DEF RegisterWorker, WorkerHeartbeat, RemoveWorker, HeartbeatTimeout
  <2>4. ASSUME NEW r \in Requests, LeaseGrowsOld(r) \/ ClaimExpires(r)
        PROVE  Still
    BY <2>4 DEF LeaseGrowsOld, ClaimExpires
  <2>5. ASSUME NEW r \in Requests, DeadlinePasses(r)
        PROVE  Still
    <3>1. requests' = [requests EXCEPT ![r].deadline = "passed"] /\ UNCHANGED cancellations
      BY <2>5 DEF DeadlinePasses
    <3> QED
      BY <3>1 DEF IInv, TypeOK, RequestRecord
  <2>6. CASE CheckpointCleanup \/ \E r \in Requests, s \in Segments : CheckpointExpires(r, s)
    BY <2>6 DEF CheckpointExpires, CheckpointCleanup
  <2> QED
    BY <1>2, <2>1, <2>2, <2>3, <2>4, <2>5, <2>6 DEF OutsideStep
<1>3. ASSUME NEW c \in Coordinators, Crash(c)
      PROVE  Moved \/ Still
  BY <1>3, CrashAdvances
<1>4. ASSUME NEW c \in Coordinators, NEW r \in Requests, Submit(c, r)
      PROVE  Advances(r) /\ UNCHANGED cancellations
  BY <1>4, SubmitAdvances
<1>5. ASSUME NEW c \in Coordinators, NEW r \in Requests, Recover(c, r) \/ RecoveryPoll(c, r)
      PROVE  Moved
  <2>1. BeginRecovery(c, r) /\ requests[r].stage # "absent"
    BY <1>5, RunSubmitted DEF Recover, RecoveryPoll, REQUEST_STAGES
  <2> QED
    BY <2>1, BeginRecoveryAdvances
<1>6. ASSUME NEW c \in Coordinators, NEW r \in Requests, AdvanceSegment(c, r) \/ DelayOver(c, r)
      PROVE  Moved
  BY <1>6, RunAdvances
<1>7. CASE UNCHANGED vars
  BY <1>7 DEF vars
<1> QED
  BY <1>1, <1>2, <1>3, <1>4, <1>5, <1>6, <1>7, StepCases

\* A request that ends, or appears, does so for good, and appears with its run.
LEMMA StepLives ==
  ASSUME IInv, [Next]_vars, NEW r \in Requests
  PROVE  /\ requests[r].stage \in TERMINAL_STAGES => requests'[r].stage = requests[r].stage
         /\ requests[r].stage = "absent" =>
              requests'[r].stage = "absent" \/ \E c \in Coordinators : Submit(c, r)
         /\ \/ cancellations'[r] = cancellations[r]
            \/ \E c \in Coordinators : Cancel(c, r) \/ RunEnds(c, r)
<1>1. ASSUME NEW c \in Coordinators, NEW q \in Requests,
             Submit(c, q), Advances(q), UNCHANGED cancellations
      PROVE  /\ requests[r].stage \in TERMINAL_STAGES => requests'[r].stage = requests[r].stage
             /\ requests[r].stage = "absent" => requests'[r].stage = "absent" \/ q = r
  BY <1>1 DEF Advances
<1>2. ASSUME NEW q \in Requests, requests[q].stage # "absent", Advances(q)
      PROVE  /\ requests[r].stage \in TERMINAL_STAGES => requests'[r].stage = requests[r].stage
             /\ requests[r].stage = "absent" => requests'[r].stage = "absent"
  BY <1>2 DEF Advances
<1>3. ASSUME NEW c \in Coordinators, NEW q \in Requests, q # r, Cancel(c, q) \/ RunEnds(c, q)
      PROVE  cancellations'[r] = cancellations[r]
  <2>1. \/ cancellations' = cancellations
        \/ \E record : cancellations' = [cancellations EXCEPT ![q] = record]
    BY <1>3 DEF Cancel, RunEnds
  <2>2. cancellations \in [Requests -> {"none", "requested", "acknowledged"}]
    BY DEF IInv, TypeOK
  <2> QED
    BY <1>3, <2>1, <2>2
<1> QED
  BY <1>1, <1>2, <1>3, StepStages


------------------------------------------------------------------------------
(* What aborts a run, and what becomes of its claim                         *)

\* A run goes on to its end without being aborted on the way: an AbortError
\* comes from a rejected execution.
Proceeds(old, new) ==
  /\ SameMarks(new, old) /\ new.mode = old.mode
  /\ InRequest(old) /\ InRequest(new) /\ new.pc # "rejecting"
  /\ new.pc = "ending" /\ new.arg = "AbortError" => old.pc = "rejecting"

\* A run's signal is aborted.
Aborted(old, new) == AbortedFrom(new, old) /\ new.mode = old.mode /\ new.aborted

LEMMA EndingProceeds ==
  ASSUME NEW old \in RunRecord, InRequest(old), NEW how,
         how = "AbortError" => old.pc = "rejecting"
  PROVE  Proceeds(old, Ending(old, how)) /\ Ending(old, how).pc = "ending"
<1>1. /\ Ending(old, how).pc = "ending" /\ Ending(old, how).mode = old.mode
      /\ Ending(old, how).arg = how /\ SameMarks(Ending(old, how), old)
  BY DEF Ending, RunRecord, SameMarks
<1> QED
  BY <1>1 DEF Proceeds, InRequest

\* acceptResult answers that the request is cancelled only if it is.
LEMMA DecidingProceeds ==
  ASSUME IInv, NEW c \in Coordinators, NEW r \in Requests,
         ExecutorResolves(c, r) \/ CheckpointValidated(c, r)
  PROVE  \E run : /\ SetRun(c, r, run) /\ Proceeds(runs[c][r], run)
                  /\ run.pc = "decided" /\ run.arg = "cancelled" => requests[r].stage = "cancelled"
<1> PICK run \in RunRecord : run = runs[c][r]
  BY Parts
<1>1. ASSUME NEW pc \in {"validating", "decided"}, NEW arg, Assigned(run)
      PROVE  /\ Proceeds(run, AtVerdict(run, pc, arg))
             /\ AtVerdict(run, pc, arg).pc = pc /\ AtVerdict(run, pc, arg).arg = arg
  <2> DEFINE new == AtVerdict(run, pc, arg)
  <2>1. new.pc = pc /\ new.mode = run.mode /\ new.arg = arg /\ SameMarks(new, run)
    BY DEF AtVerdict, RunRecord, SameMarks
  <2> HIDE DEF new
  <2>2. Proceeds(run, new)
    BY <1>1, <2>1 DEF Proceeds, InRequest, Assigned
  <2> QED
    BY <2>1, <2>2 DEF new
<1>2. cancellations[r] # "none" => requests[r].stage = "cancelled"
  BY DEF IInv, RequestsSound, RecordSound
<1>3. CASE ExecutorResolves(c, r)
  <2>1. PICK payload \in Payloads :
          /\ run.pc = "executing"
          /\ SetRun(c, r, IF FirstVerdict(run.id, payload) = "validate"
                            THEN [run EXCEPT !.pc = "validating", !.arg = payload]
                            ELSE [run EXCEPT !.pc = "decided",
                                             !.arg = FirstVerdict(run.id, payload)])
    BY <1>3, Zenon DEF ExecutorResolves
  <2> DEFINE verdict == FirstVerdict(run.id, payload)
  <2>2. Assigned(run) /\ attempts[run.id].request = r
    BY <2>1, AssignedFacts DEF Assigned
  <2>3. verdict = "cancelled" => cancellations[r] # "none" \/ requests[r].stage = "cancelled"
    BY <2>2 DEF FirstVerdict
  <2>4. CASE verdict = "validate"
    <3>1. SetRun(c, r, AtVerdict(run, "validating", payload))
      BY <2>1, <2>4 DEF AtVerdict
    <3> QED
      BY <1>1, <2>2, <3>1
  <2>5. CASE verdict # "validate"
    <3>1. SetRun(c, r, AtVerdict(run, "decided", verdict))
      BY <2>1, <2>5 DEF AtVerdict
    <3> HIDE DEF verdict
    <3> QED
      BY <1>1, <1>2, <2>2, <2>3, <3>1
  <2> QED
    BY <2>4, <2>5, Zenon
<1>4. CASE CheckpointValidated(c, r)
  <2> DEFINE verdict == SecondVerdict(run.id, run.arg)
  <2>1. run.pc = "validating" /\ SetRun(c, r, AtVerdict(run, "decided", verdict))
    BY <1>4 DEF CheckpointValidated, AtVerdict
  <2>2. Assigned(run) /\ attempts[run.id].request = r
    BY <2>1, AssignedFacts DEF Assigned
  <2>3. verdict = "cancelled" => cancellations[r] # "none"
    BY <2>2 DEF SecondVerdict
  <2> HIDE DEF verdict
  <2> QED
    BY <1>1, <1>2, <2>1, <2>2, <2>3
<1> QED
  BY <1>3, <1>4

\* A run that takes its own step loses its claim only to the peer that holds it,
\* and is aborted only by that, by its deadline, by cancel or by the caller.
LEMMA OwnStepMarks ==
  ASSUME IInv, NEW c \in Coordinators, NEW r \in Requests, OwnStep(c, r)
  PROVE  LET old == runs[c][r]
             new == runs'[c][r]
         IN /\ \A d \in Coordinators, q \in Requests : runs'[d][q] = runs[d][q] \/ (d = c /\ q = r)
            /\ \/ new = NoRun /\ (RunEnds(c, r) \/ (old.pc = "sleep" /\ UNCHANGED ownerships))
               \/ /\ OwnedByPeer(r, c) /\ UNCHANGED ownerships
                  /\ InRequest(old) /\ old.mode = "recovery"
                  /\ Aborted(old, new) /\ new.lost
                  /\ \/ new.cancelKind = old.cancelKind /\ old.aborted
                     \/ new.cancelKind = "recovery-ownership"
               \/ /\ Aborted(old, new) /\ new.lost = old.lost /\ UNCHANGED ownerships
                  /\ \/ new.cancelKind = "deadline"
                     \/ Cancel(c, r) /\ new.cancelKind = "user"
                     \/ new.cancelKind = old.cancelKind /\ "caller-abort" \in Environment
               \/ /\ UNCHANGED runs
                  /\ \/ UNCHANGED ownerships
                     \/ /\ InRequest(old) /\ old.mode = "recovery" /\ ~old.lost
                        /\ ownerships' = [ownerships EXCEPT ![r] = [owner |-> c, live |-> TRUE]]
               \/ /\ Proceeds(old, new) /\ UNCHANGED ownerships
                  /\ new.pc = "decided" /\ new.arg = "cancelled" => requests[r].stage = "cancelled"
<1> DEFINE old == runs[c][r]
           new == runs'[c][r]
           Others == \A d \in Coordinators, q \in Requests :
                       runs'[d][q] = runs[d][q] \/ (d = c /\ q = r)
<1>1. old \in RunRecord
  BY Parts
<1>2. ASSUME NEW run, SetRun(c, r, run)
      PROVE  new = run /\ Others
  BY <1>2, RunWritten
<1> HIDE DEF old, new, Others
<1>3. UNCHANGED runs => Others
  BY DEF Others
<1>4. ~RunEnds(c, r) /\ ~RenewOwnership(c, r) => UNCHANGED ownerships
  BY OwnStepClaims
<1>5. CASE ExecutorResolves(c, r) \/ CheckpointValidated(c, r)
  <2>1. UNCHANGED ownerships
    BY <1>5, Zenon DEF ExecutorResolves, CheckpointValidated
  <2> QED
    BY <1>2, <1>5, <2>1, DecidingProceeds DEF old, new, Others
<1>6. CASE \/ ExecutionAborted(c, r) \/ AdvanceRefused(c, r) \/ ReturnVerdict(c, r)
           \/ RejectVerdict(c, r)
  <2>1. UNCHANGED ownerships
    BY <1>6 DEF ExecutionAborted, AdvanceRefused, ReturnVerdict, RejectVerdict
  <2>2. PICK how : /\ SetRun(c, r, Ending(old, how)) /\ old.pc \in {"rejecting", "decided"}
                   /\ how = "AbortError" => old.pc = "rejecting"
    BY <1>6 DEF ExecutionAborted, AdvanceRefused, ReturnVerdict, RejectVerdict, old
  <2>3. Proceeds(old, Ending(old, how)) /\ Ending(old, how).pc = "ending"
    BY <1>1, <2>2, EndingProceeds DEF InRequest
  <2> QED
    BY <1>2, <2>1, <2>2, <2>3 DEF old, new, Others
<1>7. CASE ExecutorFails(c, r)
  <2>1. UNCHANGED ownerships
    BY <1>7 DEF ExecutorFails
  <2>2. /\ old.pc = "executing"
        /\ \/ SetRun(c, r, Waiting(old))
           \/ \E how : SetRun(c, r, Ending(old, how)) /\ how # "AbortError"
    BY <1>7 DEF ExecutorFails, Waiting, old
  <2>3. Waiting(old).pc = "delay" /\ Waiting(old).mode = old.mode /\ SameMarks(Waiting(old), old)
    BY <1>1 DEF Waiting, RunRecord, SameMarks
  <2>4. InRequest(old) /\ Proceeds(old, Waiting(old))
    BY <2>2, <2>3 DEF Proceeds, InRequest
  <2>5. \A how : how # "AbortError" =>
          Proceeds(old, Ending(old, how)) /\ Ending(old, how).pc = "ending"
    BY <1>1, <2>4, EndingProceeds
  <2> QED
    BY <1>2, <2>1, <2>2, <2>3, <2>4, <2>5 DEF old, new, Others
<1>8. CASE RecoverySleepAborted(c, r) \/ RunEnds(c, r)
  <2>1. SetRun(c, r, NoRun)
    BY <1>8 DEF RecoverySleepAborted, RunEnds
  <2>2. RecoverySleepAborted(c, r) => old.pc = "sleep" /\ UNCHANGED ownerships
    BY DEF RecoverySleepAborted, durable, old
  <2>3. new = NoRun /\ Others
    BY <1>2, <2>1
  <2> QED
    BY <1>8, <2>2, <2>3 DEF old, new, Others
<1>9. CASE RenewOwnership(c, r)
  <2>1. CASE OwnedByPeer(r, c)
    <3> DEFINE kind == IF old.aborted THEN old.cancelKind ELSE "recovery-ownership"
               run == [Abort(old, kind) EXCEPT !.lost = TRUE]
    <3>1. SetRun(c, r, run) /\ UNCHANGED ownerships
      BY <1>9, <2>1 DEF RenewOwnership, old
    <3>2. kind \in {"user", "deadline", "recovery-ownership"}
      BY <1>1 DEF RunRecord
    <3>3. (kind = old.cancelKind /\ old.aborted) \/ kind = "recovery-ownership"
      OBVIOUS
    <3> HIDE DEF kind
    <3>4. run \in RunRecord /\ AbortedFrom(run, old)
      BY <1>1, <3>2, AbortTyped
    <3>5. run.mode = old.mode /\ run.aborted /\ run.lost /\ run.cancelKind = kind
      BY <1>1 DEF Abort, RunRecord
    <3>6. InRequest(old) /\ old.mode = "recovery"
      BY <1>9 DEF RenewOwnership, Interruptible, InRequest, old
    <3> HIDE DEF run
    <3> QED
      BY <1>2, <2>1, <3>1, <3>3, <3>4, <3>5, <3>6 DEF old, new, Others, Aborted
  <2>2. CASE ~OwnedByPeer(r, c)
    <3>1. /\ UNCHANGED runs /\ InRequest(old) /\ old.mode = "recovery" /\ ~old.lost
          /\ ownerships' = [ownerships EXCEPT ![r] = [owner |-> c, live |-> TRUE]]
      BY <1>9, <2>2 DEF RenewOwnership, Interruptible, InRequest, old
    <3> QED
      BY <1>3, <3>1 DEF old, new, Others
  <2> QED
    BY <2>1, <2>2
<1>10. CASE DeadlineTimer(c, r) \/ Cancel(c, r) \/ CallerAborts(c, r)
  <2>1. UNCHANGED ownerships
    BY <1>10 DEF DeadlineTimer, Cancel, CallerAborts, durable
  <2>2. CASE UNCHANGED runs
    BY <1>3, <2>1, <2>2 DEF old, new, Others
  <2>3. ASSUME NEW kind \in {"user", "deadline", "recovery-ownership"},
               NEW run \in AbortByCall(old, kind), SetRun(c, r, run)
        PROVE  Others /\ Aborted(old, new) /\ new.lost = old.lost /\ new.cancelKind = kind
    <3>1. run \in RunRecord /\ AbortedFrom(run, old)
      BY <1>1, AbortTyped
    <3>2. run.mode = old.mode /\ run.aborted /\ run.lost = old.lost /\ run.cancelKind = kind
      BY <1>1 DEF AbortByCall, Abort, RunRecord
    <3> QED
      BY <1>2, <2>3, <3>1, <3>2 DEF Aborted
  <2>4. old.cancelKind \in {"user", "deadline", "recovery-ownership"}
    BY <1>1 DEF RunRecord
  <2>5. CASE DeadlineTimer(c, r)
    <3>1. \E run \in AbortByCall(old, "deadline") : SetRun(c, r, run)
      BY <2>5 DEF DeadlineTimer, AbortByCall, old
    <3> QED
      BY <2>1, <2>3, <3>1 DEF old, new, Others
  <2>6. CASE Cancel(c, r) /\ ~UNCHANGED runs
    <3>1. \E run \in AbortByCall(old, "user") : SetRun(c, r, run)
      BY <2>6 DEF Cancel, old
    <3> QED
      BY <2>1, <2>3, <2>6, <3>1 DEF old, new, Others
  <2>7. CASE CallerAborts(c, r)
    <3>1. "caller-abort" \in Environment /\ \E run \in AbortByCall(old, old.cancelKind) : SetRun(c, r, run)
      BY <2>7 DEF CallerAborts, old
    <3> QED
      BY <2>1, <2>3, <2>4, <3>1 DEF old, new, Others
  <2> QED
    BY <1>10, <2>2, <2>5, <2>6, <2>7
<1> QED
  BY <1>5, <1>6, <1>7, <1>8, <1>9, <1>10 DEF OwnStep


------------------------------------------------------------------------------
(* A run for every request                                                  *)

\* The run is inside runRequest and has not lost its claim: at its end it
\* settles its request.
Tending(c, r) == InRequest(runs[c][r]) /\ ~runs[c][r].lost

\* Whoever holds the claim of a request, and is up, works on it: the claim is
\* given back in every outcome that leaves no run.
ClaimsWorked ==
  \A c \in up, r \in Requests :
    ownerships[r].owner = c => Tending(c, r) /\ runs[c][r].mode = "recovery"

\* A request that has not ended has a run that will settle it, as long as no
\* instance crashes: the safe half of EventuallyTerminal.
RequestsTended ==
  up = Coordinators =>
    \A r \in Requests :
      requests[r].stage \notin TERMINAL_STAGES \cup {"absent"} =>
        \E c \in Coordinators : Tending(c, r)

\* Only a run that lost its claim is aborted for it.
LossesMarked ==
  \A c \in Coordinators, r \in Requests :
    runs[c][r].cancelKind = "recovery-ownership" => runs[c][r].lost

TendInv == ClaimsWorked /\ RequestsTended /\ LossesMarked

\* A new request has the run of its submit.
LEMMA NewlyTended ==
  ASSUME IInv, [Next]_vars, NEW r \in Requests,
         requests[r].stage = "absent", requests'[r].stage # "absent"
  PROVE  \E c \in Coordinators : Tending(c, r)'
<1>1. PICK c \in Coordinators : Submit(c, r)
  BY StepLives
<1>2. PICK rec, run : Turned(c, r, rec, workers, run) /\ ~run.lost
  BY <1>1, SubmitTurned
<1>3. runs'[c][r].pc \in {"ending", "delay", "executing"} /\ ~runs'[c][r].lost
  BY <1>2 DEF Turned, SameMarks
<1> QED
  BY <1>3 DEF Tending, InRequest

\* One run changes, and leaves its request to a peer or to its end, if it does.
LEMMA TendKept ==
  ASSUME IInv, IInv', TendInv, [Next]_vars, NEW c \in Coordinators, NEW r \in Requests,
         UNCHANGED up,
         \A d \in Coordinators, q \in Requests : runs'[d][q] = runs[d][q] \/ (d = c /\ q = r),
         \A q \in Requests \ {r} : ownerships'[q] = ownerships[q],
         ownerships'[r] = ownerships[r] \/ ownerships'[r].owner \in {c, NoOwner},
         c \in up /\ ownerships'[r].owner = c =>
           Tending(c, r)' /\ runs'[c][r].mode = "recovery",
         runs'[c][r].cancelKind = "recovery-ownership" => runs'[c][r].lost,
         \/ Tending(c, r)'
         \/ ~Tending(c, r)
         \/ requests'[r].stage \in TERMINAL_STAGES
         \/ ownerships[r].owner \in Coordinators \ {c}
  PROVE  TendInv'
<1>1. ASSUME NEW d \in Coordinators, NEW q \in Requests, ~(d = c /\ q = r)
      PROVE  runs'[d][q] = runs[d][q] /\ (Tending(d, q)' <=> Tending(d, q))
  BY <1>1 DEF Tending, InRequest
<1>2. NoOwner \notin Coordinators /\ up \subseteq Coordinators
  BY CoordinatorAssumption DEF IInv, TypeOK
<1>3. ClaimsWorked'
  <2>1. ASSUME NEW d \in up, NEW q \in Requests, ownerships'[q].owner = d
        PROVE  Tending(d, q)' /\ runs'[d][q].mode = "recovery"
    <3>1. CASE d = c /\ q = r
      BY <2>1, <3>1
    <3>2. CASE ~(d = c /\ q = r)
      <4>1. ownerships[q].owner = d
        BY <1>2, <2>1, <3>2
      <4> QED
        BY <1>1, <1>2, <3>2, <4>1 DEF TendInv, ClaimsWorked
    <3> QED
      BY <3>1, <3>2
  <2> QED
    BY <2>1 DEF ClaimsWorked, Tending, InRequest
<1>4. ASSUME up' = Coordinators, NEW q \in Requests,
             requests'[q].stage \notin TERMINAL_STAGES \cup {"absent"}
      PROVE  \E d \in Coordinators : Tending(d, q)'
  <2>1. CASE requests[q].stage = "absent"
    BY <1>4, <2>1, NewlyTended
  <2>2. CASE requests[q].stage # "absent"
    <3>1. requests[q].stage \notin TERMINAL_STAGES
      BY <1>4, StepLives
    <3>2. PICK d \in Coordinators : Tending(d, q)
      BY <1>4, <2>2, <3>1 DEF TendInv, RequestsTended
    <3>3. CASE ~(d = c /\ q = r) \/ Tending(c, r)'
      BY <1>1, <3>2, <3>3
    <3>4. CASE d = c /\ q = r /\ ~Tending(c, r)'
      <4>1. PICK e \in Coordinators \ {c} : ownerships[r].owner = e
        BY <1>4, <3>2, <3>4
      <4>2. Tending(e, r)
        BY <1>4, <4>1 DEF TendInv, ClaimsWorked
      <4> QED
        BY <1>1, <3>4, <4>1, <4>2
    <3> QED
      BY <3>3, <3>4
  <2> QED
    BY <2>1, <2>2
<1>5. RequestsTended'
  BY <1>4 DEF RequestsTended, Tending, InRequest
<1>6. LossesMarked'
  BY <1>1 DEF TendInv, LossesMarked
<1> QED
  BY <1>3, <1>5, <1>6 DEF TendInv

\* A run that stays has its claim and marks.
LEMMA TendStays ==
  ASSUME IInv, IInv', TendInv, [Next]_vars, UNCHANGED <<runs, up>>,
         \A q \in Requests : ownerships'[q].owner = ownerships[q].owner
  PROVE  TendInv'
<1>1. \A d \in Coordinators, q \in Requests : Tending(d, q)' <=> Tending(d, q)
  BY DEF Tending, InRequest
<1>2. up \subseteq Coordinators
  BY DEF IInv, TypeOK
<1>3. ClaimsWorked'
  BY <1>1, <1>2 DEF TendInv, ClaimsWorked, Tending, InRequest
<1>4. ASSUME up' = Coordinators, NEW q \in Requests,
             requests'[q].stage \notin TERMINAL_STAGES \cup {"absent"}
      PROVE  \E d \in Coordinators : Tending(d, q)'
  <2>1. CASE requests[q].stage = "absent"
    BY <1>4, <2>1, NewlyTended
  <2>2. CASE requests[q].stage # "absent"
    <3>1. requests[q].stage \notin TERMINAL_STAGES
      BY <1>4, StepLives
    <3> QED
      BY <1>1, <1>4, <2>2, <3>1 DEF TendInv, RequestsTended
  <2> QED
    BY <2>1, <2>2
<1>5. RequestsTended'
  BY <1>4 DEF RequestsTended, Tending, InRequest
<1>6. LossesMarked'
  BY DEF TendInv, LossesMarked
<1> QED
  BY <1>3, <1>5, <1>6 DEF TendInv

\* The end of a run settles its request, unless it yields to a peer.
LEMMA RunEndsSettles ==
  ASSUME IInv, IInv', NEW c \in Coordinators, NEW r \in Requests, RunEnds(c, r)
  PROVE  \/ requests'[r].stage \in TERMINAL_STAGES
         \/ runs[c][r].arg = "AbortError" /\ runs[c][r].cancelKind = "recovery-ownership"
<1> DEFINE run == runs[c][r]
           stage == Settlement(run)[1]
           code == Settlement(run)[2]
<1>1. CASE run.arg = "AbortError" /\ run.cancelKind = "recovery-ownership"
  BY <1>1
<1>2. CASE ~(run.arg = "AbortError" /\ run.cancelKind = "recovery-ownership")
  <2>1. finalizeStage(r, requests[r], leases, stage, code) /\ run.pc = "ending"
    BY <1>2 DEF RunEnds
  <2>2. stage \in {"failed", "cancelled"}
    BY DEF Settlement
  <2> HIDE DEF run, stage, code
  <2>3. requests[r] \in RequestRecord /\ requests[r].stage \notin {"accepted", "leased", "absent"}
    BY <2>1, RunSubmitted DEF IInv, TypeOK, RequestsSound, RecordSound, run
  <2>4. requests[r].stage \in TERMINAL_STAGES \cup {"queued", "running", "retry-wait"}
    BY <2>3 DEF RequestRecord, REQUEST_STAGES, TERMINAL_STAGES
  <2>5. requests[r].stage \notin TERMINAL_STAGES => isLegalTransition(requests[r].stage, stage)
    BY <2>2, <2>4 DEF isLegalTransition, TRANSITIONS, REQUEST_STAGES
  <2> QED
    BY <2>1, <2>2, <2>3, <2>5, FinalizeStages DEF TERMINAL_STAGES
<1> QED
  BY <1>1, <1>2


\* A turn leaves the run inside runRequest.
LEMMA TurnTends ==
  ASSUME NEW c \in Coordinators, NEW r \in Requests, NEW rec, NEW ws, NEW run,
         Turned(c, r, rec, ws, run)
  PROVE  /\ \A d \in Coordinators, q \in Requests : runs'[d][q] = runs[d][q] \/ (d = c /\ q = r)
         /\ runs'[c][r].pc \in {"ending", "delay", "executing"}
         /\ runs'[c][r].mode = run.mode
         /\ SameMarks(runs'[c][r], run)
         /\ InRequest(runs'[c][r])
         /\ ~run.lost => Tending(c, r)'
<1>1. /\ runs'[c][r].pc \in {"ending", "delay", "executing"} /\ runs'[c][r].mode = run.mode
      /\ SameMarks(runs'[c][r], run)
      /\ \A d \in Coordinators, q \in Requests : runs'[d][q] = runs[d][q] \/ (d = c /\ q = r)
  BY DEF Turned
<1> QED
  BY <1>1 DEF SameMarks, Tending, InRequest

LEMMA OwnStepTends ==
  ASSUME IInv, IInv', TendInv, [Next]_vars, NEW c \in Coordinators, NEW r \in Requests,
         OwnStep(c, r)
  PROVE  TendInv'
<1> DEFINE old == runs[c][r]
           new == runs'[c][r]
<1>1. UNCHANGED up /\ NoOwner \notin Coordinators
  BY OwnStepClaims, CoordinatorAssumption
<1>2. /\ old.cancelKind = "recovery-ownership" => old.lost
      /\ c \in up /\ ownerships[r].owner = c => Tending(c, r) /\ old.mode = "recovery"
  BY DEF TendInv, ClaimsWorked, LossesMarked
<1>3. \A d \in Coordinators, q \in Requests : runs'[d][q] = runs[d][q] \/ (d = c /\ q = r)
  BY OwnStepMarks
<1>4. ASSUME AbortedFrom(new, old)
      PROVE  InRequest(new) <=> InRequest(old)
  BY <1>4 DEF AbortedFrom, InRequest
<1>5. CASE RunEnds(c, r)
  <2>1. new = NoRun /\ NoRun.cancelKind = "user"
    <3>1. SetRun(c, r, NoRun)
      BY <1>5 DEF RunEnds
    <3> QED
      BY <3>1, RunWritten DEF NoRun
  <2>2. \/ requests'[r].stage \in TERMINAL_STAGES
        \/ old.cancelKind = "recovery-ownership"
    BY <1>5, RunEndsSettles
  <2>3. requests'[r].stage \in TERMINAL_STAGES \/ ~Tending(c, r)
    BY <1>2, <2>2 DEF Tending
  <2>4. ownerships' = IF old.mode = "recovery" /\ ownerships[r].owner = c
                        THEN [ownerships EXCEPT ![r] = NoClaim]
                        ELSE ownerships
    BY <1>5 DEF RunEnds
  <2>5. ownerships \in [Requests -> [owner : Coordinators \cup {NoOwner}, live : BOOLEAN]]
    BY DEF IInv, TypeOK
  <2>6. /\ \A q \in Requests \ {r} : ownerships'[q] = ownerships[q]
        /\ ownerships'[r] = ownerships[r] \/ ownerships'[r].owner \in {c, NoOwner}
        /\ c \in up => ownerships'[r].owner # c
    BY <1>1, <1>2, <2>4, <2>5 DEF NoClaim
  <2> QED
    BY <1>1, <1>3, <2>1, <2>3, <2>6, TendKept
<1>6. CASE new = NoRun /\ old.pc = "sleep" /\ UNCHANGED ownerships
  <2>1. ~Tending(c, r) /\ NoRun.cancelKind = "user"
    BY <1>6 DEF Tending, InRequest, NoRun
  <2> QED
    BY <1>1, <1>2, <1>3, <1>6, <2>1, TendKept
<1>7. CASE OwnedByPeer(r, c) /\ UNCHANGED ownerships /\ Aborted(old, new) /\ new.lost
  <2>1. ownerships[r].owner \in Coordinators \ {c}
    BY <1>7 DEF OwnedByPeer, IInv, TypeOK
  <2> QED
    BY <1>1, <1>3, <1>7, <2>1, TendKept
<1>8. CASE /\ Aborted(old, new) /\ new.lost = old.lost /\ UNCHANGED ownerships
           /\ new.cancelKind \in {"deadline", "user", old.cancelKind}
  <2>1. (Tending(c, r)' <=> Tending(c, r)) /\ new.mode = old.mode
    BY <1>4, <1>8 DEF Aborted, Tending, InRequest
  <2>2. new.cancelKind = "recovery-ownership" => new.lost
    BY <1>2, <1>8
  <2> QED
    BY <1>1, <1>2, <1>3, <1>8, <2>1, <2>2, TendKept
<1>9. CASE UNCHANGED <<runs, ownerships>>
  BY <1>1, <1>9, TendStays
<1>10. CASE /\ UNCHANGED runs /\ InRequest(old) /\ old.mode = "recovery" /\ ~old.lost
            /\ ownerships' = [ownerships EXCEPT ![r] = [owner |-> c, live |-> TRUE]]
  <2>1. /\ \A q \in Requests \ {r} : ownerships'[q] = ownerships[q]
        /\ ownerships'[r].owner = c
    BY <1>10 DEF IInv, TypeOK
  <2>2. Tending(c, r)' /\ new = old
    BY <1>10 DEF Tending, InRequest
  <2> QED
    BY <1>1, <1>2, <1>3, <1>10, <2>1, <2>2, TendKept
<1>11. CASE Proceeds(old, new) /\ UNCHANGED ownerships
  <2>1. (Tending(c, r) => Tending(c, r)') /\ new.mode = old.mode
        /\ new.cancelKind = old.cancelKind /\ new.lost = old.lost
    BY <1>11 DEF Proceeds, SameMarks, Tending, InRequest
  <2> QED
    BY <1>1, <1>2, <1>3, <1>11, <2>1, TendKept
<1> HIDE DEF old, new
<1> QED
  BY <1>5, <1>6, <1>7, <1>8, <1>9, <1>10, <1>11, OwnStepMarks DEF old, new

LEMMA StepTends ==
  ASSUME IInv, IInv', TendInv, [Next]_vars
  PROVE  TendInv'
<1>1. ASSUME NEW c \in Coordinators, NEW r \in Requests, OwnStep(c, r)
      PROVE  TendInv'
  BY <1>1, OwnStepTends
<1>2. CASE OutsideStep
  <2>1. UNCHANGED <<runs, up>>
    BY <1>2, OutsideStepEffect
  <2>2. \A q \in Requests : ownerships'[q].owner = ownerships[q].owner
    <3>1. ASSUME NEW r \in Requests, ClaimExpires(r)
          PROVE  \A q \in Requests : ownerships'[q].owner = ownerships[q].owner
      BY <3>1 DEF ClaimExpires, IInv, TypeOK
    <3>2. CASE \A r \in Requests : ~ClaimExpires(r)
      <4>1. UNCHANGED ownerships
        BY <1>2, <3>2 DEF OutsideStep, PushResult, PushFailure, PushValidated, RegisterWorker,
             WorkerHeartbeat, RemoveWorker, HeartbeatTimeout, DeadlinePasses, LeaseGrowsOld,
             CheckpointExpires, CheckpointCleanup
      <4> QED
        BY <4>1
    <3> QED
      BY <3>1, <3>2
  <2> QED
    BY <2>1, <2>2, TendStays
<1>3. ASSUME NEW c \in Coordinators, Crash(c)
      PROVE  TendInv'
  <2>1. /\ \A d \in Coordinators \ {c} : runs'[d] = runs[d]
        /\ \A r \in Requests : runs'[c][r] = NoRun
        /\ up' = up \ {c} /\ UNCHANGED ownerships
    BY <1>3, CrashEffect
  <2>2. NoRun.cancelKind = "user" /\ up \subseteq Coordinators /\ up' # Coordinators
    BY <2>1 DEF NoRun, IInv, TypeOK
  <2>3. ClaimsWorked' /\ LossesMarked' /\ RequestsTended'
    BY <2>1, <2>2 DEF TendInv, ClaimsWorked, LossesMarked, RequestsTended, Tending, InRequest
  <2> QED
    BY <2>3 DEF TendInv
<1>4. ASSUME NEW c \in Coordinators, NEW r \in Requests, Submit(c, r)
      PROVE  TendInv'
  <2>1. PICK rec, run : /\ Turned(c, r, rec, workers, run)
                        /\ ~run.lost /\ run.cancelKind = "user" /\ run.mode = "submit"
    BY <1>4, SubmitTurned
  <2>2. UNCHANGED <<ownerships, up>> /\ c \in up /\ requests[r].stage = "absent"
    BY <1>4, SubmitTurned
  <2>3. runs[c][r].pc = "none"
    BY <2>2, RunSubmitted
  <2>4. ownerships[r].owner # c
    BY <2>2, <2>3 DEF TendInv, ClaimsWorked, Tending, InRequest
  <2> QED
    BY <2>1, <2>2, <2>4, TurnTends, TendKept DEF SameMarks
<1>5. ASSUME NEW c \in Coordinators, NEW r \in Requests, AdvanceSegment(c, r) \/ DelayOver(c, r)
      PROVE  TendInv'
  <2>1. UNCHANGED <<ownerships, up>>
        /\ \E rec, ws, run : /\ Turned(c, r, rec, ws, run)
                             /\ SameMarks(run, runs[c][r]) /\ run.mode = runs[c][r].mode
    <3>1. CASE AdvanceSegment(c, r)
      BY <3>1, AdvanceTurned
    <3>2. CASE DelayOver(c, r)
      BY <3>2, DelayTurned
    <3> QED
      BY <1>5, <3>1, <3>2
  <2>2. PICK rec, ws, run : /\ Turned(c, r, rec, ws, run)
                            /\ SameMarks(run, runs[c][r]) /\ run.mode = runs[c][r].mode
    BY <2>1
  <2>3. /\ \A d \in Coordinators, q \in Requests : runs'[d][q] = runs[d][q] \/ (d = c /\ q = r)
        /\ Tending(c, r) => Tending(c, r)'
        /\ runs'[c][r].mode = runs[c][r].mode
        /\ runs'[c][r].cancelKind = runs[c][r].cancelKind /\ runs'[c][r].lost = runs[c][r].lost
    BY <2>2, TurnTends DEF SameMarks, Tending
  <2>4. /\ c \in up /\ ownerships[r].owner = c => Tending(c, r) /\ runs[c][r].mode = "recovery"
        /\ runs[c][r].cancelKind = "recovery-ownership" => runs[c][r].lost
    BY DEF TendInv, ClaimsWorked, LossesMarked
  <2> QED
    BY <2>1, <2>3, <2>4, TendKept
<1>6. ASSUME NEW c \in Coordinators, NEW r \in Requests, Recover(c, r) \/ RecoveryPoll(c, r)
      PROVE  TendInv'
  <2>1. BeginRecovery(c, r) /\ UNCHANGED up /\ requests[r].stage # "absent"
    BY <1>6, RunSubmitted DEF Recover, RecoveryPoll, REQUEST_STAGES
  <2>2. ~Tending(c, r)
    BY <1>6 DEF Recover, RecoveryPoll, Tending, InRequest
  <2>3. /\ c \in up => ownerships[r].owner # c
        /\ NoOwner \notin Coordinators
    BY <2>2, CoordinatorAssumption DEF TendInv, ClaimsWorked
  <2>4. ownerships \in [Requests -> [owner : Coordinators \cup {NoOwner}, live : BOOLEAN]]
    BY DEF IInv, TypeOK
  <2>5. CASE Rested(c, r)
    <3>1. /\ \A d \in Coordinators, q \in Requests : runs'[d][q] = runs[d][q] \/ (d = c /\ q = r)
          /\ \/ UNCHANGED ownerships
             \/ ownerships' = [ownerships EXCEPT ![r] = NoClaim]
      BY <2>5 DEF Rested
    <3>2. /\ \A q \in Requests \ {r} : ownerships'[q] = ownerships[q]
          /\ ownerships'[r] = ownerships[r] \/ ownerships'[r].owner \in {c, NoOwner}
          /\ c \in up => ownerships'[r].owner # c
      BY <2>3, <2>4, <3>1 DEF NoClaim
    <3>3. runs'[c][r].cancelKind # "recovery-ownership"
      BY <2>5 DEF Rested
    <3> QED
      BY <2>1, <2>2, <3>1, <3>2, <3>3, TendKept
  <2>6. CASE ~Rested(c, r)
    <3>1. ownerships' = [ownerships EXCEPT ![r] = [owner |-> c, live |-> TRUE]]
      BY <2>1, <2>6, RecoveryTurned
    <3>2. PICK rec, run : /\ Turned(c, r, rec, workers, run) /\ run.mode = "recovery"
                          /\ ~run.lost /\ run.cancelKind = "user"
      BY <2>1, <2>6, RecoveryTurned
    <3>3. /\ \A q \in Requests \ {r} : ownerships'[q] = ownerships[q]
          /\ ownerships'[r].owner = c
      BY <2>4, <3>1
    <3>4. /\ \A d \in Coordinators, q \in Requests : runs'[d][q] = runs[d][q] \/ (d = c /\ q = r)
          /\ Tending(c, r)' /\ runs'[c][r].mode = "recovery" /\ runs'[c][r].cancelKind = "user"
      BY <3>2, TurnTends DEF SameMarks
    <3> QED
      BY <2>1, <3>3, <3>4, TendKept
  <2> QED
    BY <2>5, <2>6
<1>7. CASE UNCHANGED vars
  <2>1. UNCHANGED <<runs, up, ownerships>>
    BY <1>7 DEF vars
  <2> QED
    BY <2>1, TendStays
<1> QED
  BY <1>1, <1>2, <1>3, <1>4, <1>5, <1>6, <1>7, StepCases

\* What recovery leaves of a request it does not run at once is a sleeping run
\* or none: the claim of an instance that is up, and whatever else depends on
\* its run, is worked on inside runRequest (runDurableRecovery and the release in
\* runRequest, durable-recovery-runner.ts, durable-coordinator-core-impl.ts).
THEOREM ClaimsAreWorked == Spec => []ClaimsWorked
<1>1. Init => TendInv
  BY CoordinatorAssumption DEF Init, TendInv, ClaimsWorked, RequestsTended, LossesMarked,
     NoRequest, NoRun, NoClaim
<1>2. IInv /\ IInv' /\ TendInv /\ [Next]_vars => TendInv'
  BY StepTends
<1>3. TendInv => ClaimsWorked
  BY DEF TendInv
<1> QED
  BY <1>1, <1>2, <1>3, Invariance, PTL DEF Spec

\* No interleaving of submissions, recoveries that take each other's claims,
\* aborts, lost leases and late results leaves an unfinished request without a
\* run that settles it when its segment loop is over, unless an instance crashes.
THEOREM NoRequestForgotten == Spec => []RequestsTended
<1>1. Init => TendInv
  BY CoordinatorAssumption DEF Init, TendInv, ClaimsWorked, RequestsTended, LossesMarked,
     NoRequest, NoRun, NoClaim
<1>2. IInv /\ IInv' /\ TendInv /\ [Next]_vars => TendInv'
  BY StepTends
<1>3. TendInv => RequestsTended
  BY DEF TendInv
<1> QED
  BY <1>1, <1>2, <1>3, Invariance, PTL DEF Spec


------------------------------------------------------------------------------
(***************************************************************************)
(* The ninth result: a cancellation that is not acknowledged has a run     *)
(* that will acknowledge it at its end.  It needs that callers use cancel  *)
(* and not the signal of their submit: a request that a signal cancelled   *)
(* has no record, and cancel may write one that only a sleeping runner of  *)
(* another instance sees, which never acknowledges.                        *)
(***************************************************************************)

\* A request is cancelled only with its cancellation on record.
CancelledOnRecord ==
  \A r \in Requests : requests[r].stage = "cancelled" => cancellations[r] # "none"

\* What a run was aborted for is on record, and only an aborted run ends with an
\* AbortError.
AbortsOnRecord ==
  \A c \in Coordinators, r \in Requests :
    /\ runs[c][r].aborted /\ runs[c][r].cancelKind = "user" => cancellations[r] # "none"
    /\ runs[c][r].pc = "rejecting" => runs[c][r].aborted
    /\ runs[c][r].pc = "ending" /\ runs[c][r].arg = "AbortError" => runs[c][r].aborted
    /\ runs[c][r].pc = "decided" /\ runs[c][r].arg = "cancelled" => requests[r].stage = "cancelled"

\* A requested cancellation has a run inside runRequest, which acknowledges it at
\* its end, as long as no instance crashes: the safe half of
\* CancellationAcknowledged.
CancellationsTended ==
  up = Coordinators =>
    \A r \in Requests :
      cancellations[r] = "requested" => \E c \in Coordinators : InRequest(runs[c][r])

CancelInv == TendInv /\ CancelledOnRecord /\ AbortsOnRecord /\ CancellationsTended

\* The record of a cancellation stays.
LEMMA RecordsStay ==
  ASSUME IInv, [Next]_vars, NEW r \in Requests, cancellations[r] # "none"
  PROVE  cancellations'[r] # "none"
<1>1. cancellations \in [Requests -> {"none", "requested", "acknowledged"}]
  BY DEF IInv, TypeOK
<1>2. ASSUME NEW c \in Coordinators, Cancel(c, r)
      PROVE  cancellations'[r] # "none"
  BY <1>1, <1>2 DEF Cancel
<1>3. ASSUME NEW c \in Coordinators, RunEnds(c, r)
      PROVE  cancellations'[r] # "none"
  <2>1. cancellations' = cancellations \/ cancellations' = [cancellations EXCEPT ![r] = "acknowledged"]
    BY <1>3 DEF RunEnds
  <2> QED
    BY <1>1, <2>1
<1> QED
  BY <1>2, <1>3, StepLives

\* finalizeStage cancels one request, if that is what it is asked for.
LEMMA FinalizeCancels ==
  ASSUME IInv, NEW r \in Requests, NEW ls, NEW stage, NEW code,
         finalizeStage(r, requests[r], ls, stage, code),
         stage = "cancelled" => cancellations[r] # "none" \/ requests[r].stage = "cancelled"
  PROVE  \A q \in Requests : requests'[q].stage = "cancelled" =>
           requests[q].stage = "cancelled" \/ cancellations[q] # "none"
<1>1. requests[r] \in RequestRecord
  BY DEF IInv, TypeOK
<1>2. \A q \in Requests \ {r} : requests'[q] = requests[q]
  BY <1>1, FinalizeKeepsProgress
<1>3. requests'[r].stage = requests[r].stage \/ requests'[r].stage = stage
  BY <1>1, FinalizeStages
<1> QED
  BY <1>2, <1>3

LEMMA FirstVerdictCancels ==
  ASSUME IInv, NEW id \in DOMAIN attempts, NEW payload,
         ApplyFirstVerdict(id, FirstVerdict(id, payload))
  PROVE  \A q \in Requests : requests'[q].stage = "cancelled" =>
           requests[q].stage = "cancelled" \/ cancellations[q] # "none"
<1> DEFINE r == attempts[id].request
           verdict == FirstVerdict(id, payload)
<1>1. r \in Requests
  BY Parts, AttemptTyped
<1>2. CASE verdict = "committed"
  <2>1. requests' = [requests EXCEPT ![r].stage = "completed"]
    BY <1>2 DEF ApplyFirstVerdict
  <2> HIDE DEF r
  <2> QED
    BY <1>1, <2>1 DEF IInv, TypeOK, RequestRecord
<1>3. CASE verdict = "cancelled"
  <2>1. finalizeStage(r, requests[r], leases, "cancelled", "none")
    BY <1>3 DEF ApplyFirstVerdict
  <2>2. cancellations[r] # "none" \/ requests[r].stage = "cancelled"
    BY <1>3 DEF FirstVerdict
  <2> HIDE DEF r
  <2> QED
    BY <1>1, <2>1, <2>2, FinalizeCancels
<1>4. CASE verdict \notin {"committed", "cancelled"}
  <2>1. UNCHANGED requests
    BY <1>4 DEF ApplyFirstVerdict
  <2> QED
    BY <2>1
<1> QED
  BY <1>2, <1>3, <1>4

LEMMA SecondVerdictCancels ==
  ASSUME IInv, NEW id \in DOMAIN attempts, NEW payload,
         ApplySecondVerdict(id, payload, SecondVerdict(id, payload))
  PROVE  \A q \in Requests : requests'[q].stage = "cancelled" =>
           requests[q].stage = "cancelled" \/ cancellations[q] # "none"
<1> DEFINE r == attempts[id].request
           verdict == SecondVerdict(id, payload)
<1>1. r \in Requests
  BY Parts, AttemptTyped
<1>2. CASE verdict = "cancelled"
  <2>1. finalizeStage(r, requests[r], leases, "cancelled", "none")
    BY <1>2 DEF ApplySecondVerdict
  <2>2. cancellations[r] # "none"
    BY <1>2 DEF SecondVerdict
  <2> HIDE DEF r
  <2> QED
    BY <1>1, <2>1, <2>2, FinalizeCancels
<1>3. CASE verdict # "cancelled"
  <2>1. UNCHANGED requests
    BY <1>3 DEF ApplySecondVerdict
  <2> QED
    BY <2>1
<1> QED
  BY <1>2, <1>3

\* The end of an aborted run cancels a request whose cancellation is on record.
LEMMA RunEndsOnRecord ==
  ASSUME IInv, AbortsOnRecord, NEW c \in Coordinators, NEW r \in Requests, RunEnds(c, r)
  PROVE  \A q \in Requests : requests'[q].stage = "cancelled" =>
           requests[q].stage = "cancelled" \/ cancellations[q] # "none"
<1> DEFINE run == runs[c][r]
           stage == Settlement(run)[1]
           code == Settlement(run)[2]
<1>1. CASE run.arg = "AbortError" /\ run.cancelKind = "recovery-ownership"
  BY <1>1 DEF RunEnds
<1>2. CASE ~(run.arg = "AbortError" /\ run.cancelKind = "recovery-ownership")
  <2>1. finalizeStage(r, requests[r], leases, stage, code) /\ run.pc = "ending"
    BY <1>2 DEF RunEnds
  <2>2. stage = "cancelled" => run.arg = "AbortError" /\ run.cancelKind # "deadline"
    BY DEF Settlement
  <2>3. run.cancelKind \in {"user", "deadline", "recovery-ownership"}
    BY Parts DEF RunRecord
  <2>4. stage = "cancelled" => cancellations[r] # "none"
    BY <1>2, <2>1, <2>2, <2>3 DEF AbortsOnRecord
  <2> HIDE DEF run, stage, code
  <2> QED
    BY <2>1, <2>4, FinalizeCancels
<1> QED
  BY <1>1, <1>2

LEMMA OwnStepOnRecord ==
  ASSUME IInv, AbortsOnRecord, NEW c \in Coordinators, NEW r \in Requests, OwnStep(c, r),
         ~Cancel(c, r)
  PROVE  \A q \in Requests : requests'[q].stage = "cancelled" =>
           requests[q].stage = "cancelled" \/ cancellations[q] # "none"
<1> DEFINE OnRecord == \A q \in Requests : requests'[q].stage = "cancelled" =>
                         requests[q].stage = "cancelled" \/ cancellations[q] # "none"
<1>1. CASE ExecutorResolves(c, r)
  <2> DEFINE id == runs[c][r].id
  <2>1. id \in DOMAIN attempts
    BY <1>1, AssignedFacts, Zenon DEF ExecutorResolves, Assigned
  <2>2. PICK payload \in Payloads : ApplyFirstVerdict(id, FirstVerdict(id, payload))
    BY <1>1, Zenon DEF ExecutorResolves
  <2> HIDE DEF id
  <2> QED
    BY <2>1, <2>2, FirstVerdictCancels
<1>2. CASE CheckpointValidated(c, r)
  <2> DEFINE id == runs[c][r].id
             payload == runs[c][r].arg
  <2>1. id \in DOMAIN attempts
    BY <1>2, AssignedFacts, Zenon DEF CheckpointValidated, Assigned
  <2>2. ApplySecondVerdict(id, payload, SecondVerdict(id, payload))
    BY <1>2, Zenon DEF CheckpointValidated
  <2> HIDE DEF id, payload
  <2> QED
    BY <2>1, <2>2, SecondVerdictCancels
<1>3. CASE \/ ExecutionAborted(c, r) \/ RecoverySleepAborted(c, r) \/ RenewOwnership(c, r)
           \/ DeadlineTimer(c, r) \/ CallerAborts(c, r)
  <2>1. UNCHANGED requests
    BY <1>3 DEF ExecutionAborted, RecoverySleepAborted, RenewOwnership, DeadlineTimer,
                CallerAborts, durable
  <2> QED
    BY <2>1
<1>4. CASE AdvanceRefused(c, r) \/ RejectVerdict(c, r)
  <2>1. UNCHANGED requests \/ \E ls, code : finalizeStage(r, requests[r], ls, "failed", code)
    BY <1>4 DEF AdvanceRefused, RejectVerdict
  <2> QED
    BY <2>1, FinalizeCancels
<1>5. CASE ReturnVerdict(c, r)
  <2>1. \/ UNCHANGED requests
        \/ /\ finalizeStage(r, requests[r], leases, "cancelled", "none")
           /\ requests[r].stage = "cancelled"
    BY <1>5 DEF ReturnVerdict, AbortsOnRecord
  <2> QED
    BY <2>1, FinalizeCancels
<1>6. CASE ExecutorFails(c, r)
  <2>1. \/ UNCHANGED requests
        \/ \E ls, code : finalizeStage(r, requests[r], ls, "failed", code)
        \/ requests' = [requests EXCEPT ![r].retryCount = @ + 1,
                                        ![r].stage = IF @ = "running" THEN "retry-wait" ELSE @]
    BY <1>6 DEF ExecutorFails
  <2>2. ASSUME requests' = [requests EXCEPT ![r].retryCount = @ + 1,
                                          ![r].stage = IF @ = "running" THEN "retry-wait" ELSE @]
        PROVE  OnRecord
    BY <2>2 DEF IInv, TypeOK, RequestRecord
  <2> QED
    BY <2>1, <2>2, FinalizeCancels
<1>7. CASE RunEnds(c, r)
  BY <1>7, RunEndsOnRecord
<1> QED
  BY <1>1, <1>2, <1>3, <1>4, <1>5, <1>6, <1>7 DEF OwnStep

LEMMA StepOnRecord ==
  ASSUME IInv, IInv', CancelledOnRecord, AbortsOnRecord, [Next]_vars
  PROVE  CancelledOnRecord'
<1> DEFINE OnRecord == \A q \in Requests : requests'[q].stage = "cancelled" =>
                         requests[q].stage = "cancelled" \/ cancellations[q] # "none"
           Same == \A q \in Requests : requests'[q].stage = requests[q].stage
<1>1. OnRecord => CancelledOnRecord'
  BY RecordsStay DEF CancelledOnRecord
<1>2. ASSUME NEW c \in Coordinators, NEW r \in Requests, Cancel(c, r)
      PROVE  CancelledOnRecord'
  <2>1. cancellations'[r] # "none"
    BY <1>2 DEF Cancel, IInv, TypeOK
  <2>2. \A q \in Requests \ {r} : requests'[q].stage = requests[q].stage
    BY <1>2, CancelAdvances DEF Advances
  <2> QED
    BY <2>1, <2>2, RecordsStay DEF CancelledOnRecord
<1>3. ASSUME NEW c \in Coordinators, NEW r \in Requests, OwnStep(c, r), ~Cancel(c, r)
      PROVE  CancelledOnRecord'
  BY <1>1, <1>3, OwnStepOnRecord
<1>4. CASE OutsideStep
  <2>1. ASSUME NEW c \in Coordinators, NEW id \in DOMAIN attempts, PushResult(c, id)
        PROVE  OnRecord
    <3>1. PICK payload \in Payloads : ApplyFirstVerdict(id, FirstVerdict(id, payload))
      BY <2>1 DEF PushResult
    <3> QED
      BY <3>1, FirstVerdictCancels
  <2>2. ASSUME NEW c \in Coordinators, NEW id \in DOMAIN attempts, PushFailure(c, id)
        PROVE  OnRecord
    <3> DEFINE r == attempts[id].request
    <3>1. r \in Requests
      BY Parts, AttemptTyped
    <3>2. \/ UNCHANGED requests
          \/ /\ finalizeStage(r, requests[r], leases, "cancelled", "none")
             /\ cancellations[r] # "none"
      BY <2>2 DEF PushFailure
    <3> HIDE DEF r
    <3> QED
      BY <3>1, <3>2, FinalizeCancels
  <2>3. ASSUME NEW p \in pushes, PushValidated(p)
        PROVE  OnRecord
    <3>1. p.id \in DOMAIN attempts
      BY DEF IInv, PushSound
    <3>2. ApplySecondVerdict(p.id, p.payload, SecondVerdict(p.id, p.payload))
      BY <2>3 DEF PushValidated
    <3> QED
      BY <3>1, <3>2, SecondVerdictCancels
  <2>4. ASSUME NEW w \in Workers,
               RegisterWorker(w) \/ WorkerHeartbeat(w) \/ RemoveWorker(w) \/ HeartbeatTimeout(w)
        PROVE  Same
    BY <2>4 DEF RegisterWorker, WorkerHeartbeat, RemoveWorker, HeartbeatTimeout
  <2>5. ASSUME NEW r \in Requests, LeaseGrowsOld(r) \/ ClaimExpires(r)
        PROVE  Same
    BY <2>5 DEF LeaseGrowsOld, ClaimExpires
  <2>6. ASSUME NEW r \in Requests, DeadlinePasses(r)
        PROVE  Same
    <3>1. requests' = [requests EXCEPT ![r].deadline = "passed"]
      BY <2>6 DEF DeadlinePasses
    <3> QED
      BY <3>1 DEF IInv, TypeOK, RequestRecord
  <2>7. ASSUME NEW r \in Requests, NEW s \in Segments, CheckpointExpires(r, s)
        PROVE  Same
    BY <2>7 DEF CheckpointExpires
  <2>8. ASSUME CheckpointCleanup
        PROVE  Same
    BY <2>8 DEF CheckpointCleanup
  <2>9. Same => OnRecord
    OBVIOUS
  <2> HIDE DEF OnRecord, Same
  <2>10. OnRecord
    BY <1>4, <2>1, <2>2, <2>3, <2>4, <2>5, <2>6, <2>7, <2>8, <2>9, Zenon DEF OutsideStep
  <2> QED
    BY <1>1, <2>10
<1>5. ASSUME NEW r \in Requests, NEW c \in Coordinators, NEW rec, NEW ws, NEW run,
             Turned(c, r, rec, ws, run),
             rec.stage = "cancelled" => requests[r].stage = "cancelled"
      PROVE  CancelledOnRecord'
  <2>1. /\ requests'[r].stage = "cancelled" => rec.stage = "cancelled" \/ cancellations[r] # "none"
        /\ \A q \in Requests \ {r} : requests'[q] = requests[q]
    BY <1>5 DEF Turned
  <2>2. OnRecord
    BY <1>5, <2>1
  <2> QED
    BY <1>1, <2>2
<1>6. ASSUME NEW c \in Coordinators, NEW r \in Requests, Submit(c, r)
      PROVE  CancelledOnRecord'
  BY <1>5, <1>6, SubmitTurned
<1>7. ASSUME NEW c \in Coordinators, NEW r \in Requests, AdvanceSegment(c, r) \/ DelayOver(c, r)
      PROVE  CancelledOnRecord'
  <2>1. CASE AdvanceSegment(c, r)
    BY <1>5, <2>1, AdvanceTurned
  <2>2. CASE DelayOver(c, r)
    BY <1>5, <2>2, DelayTurned
  <2> QED
    BY <1>7, <2>1, <2>2
<1>8. ASSUME NEW c \in Coordinators, NEW r \in Requests, Recover(c, r) \/ RecoveryPoll(c, r)
      PROVE  CancelledOnRecord'
  <2>1. BeginRecovery(c, r) /\ requests[r].stage # "absent"
    BY <1>8, RunSubmitted DEF Recover, RecoveryPoll, REQUEST_STAGES
  <2>2. CASE Rested(c, r)
    <3>1. OnRecord
      BY <2>2 DEF Rested
    <3> QED
      BY <1>1, <3>1
  <2>3. CASE ~Rested(c, r)
    BY <1>5, <2>1, <2>3, RecoveryTurned
  <2> QED
    BY <2>2, <2>3
<1>9. CASE UNCHANGED vars
  <2>1. UNCHANGED requests
    BY <1>9 DEF vars
  <2> QED
    BY <1>1, <2>1
<1>10. ASSUME NEW c \in Coordinators, Crash(c)
       PROVE  CancelledOnRecord'
  <2>1. OnRecord
    BY <1>10, CrashAdvances
  <2> QED
    BY <1>1, <2>1
<1> HIDE DEF OnRecord, Same
<1> QED
  BY <1>2, <1>3, <1>4, <1>6, <1>7, <1>8, <1>9, <1>10, StepCases

\* A cancellation is requested only while some run works on the request.
LEMMA CancellationsStart ==
  ASSUME IInv, CancelInv, [Next]_vars, NEW r \in Requests, up = Coordinators,
         cancellations'[r] = "requested"
  PROVE  \E c \in Coordinators : InRequest(runs[c][r])
<1>1. CASE cancellations[r] = "requested"
  BY <1>1 DEF CancelInv, CancellationsTended
<1>2. CASE cancellations[r] # "requested"
  <2>1. cancellations \in [Requests -> {"none", "requested", "acknowledged"}]
    BY DEF IInv, TypeOK
  <2>2. ASSUME NEW c \in Coordinators, RunEnds(c, r)
        PROVE  FALSE
    <3>1. \/ cancellations' = cancellations
          \/ cancellations' = [cancellations EXCEPT ![r] = "acknowledged"]
      BY <2>2 DEF RunEnds
    <3> QED
      BY <1>2, <2>1, <3>1
  <2>3. PICK c \in Coordinators : Cancel(c, r)
    BY <1>2, <2>2, StepLives
  <2>4. cancellations[r] = "none"
    BY <1>2, <2>1, <2>3 DEF Cancel
  <2>5. requests[r].stage \notin TERMINAL_STAGES \cup {"absent"}
    BY <2>3, <2>4 DEF Cancel, CancelInv, CancelledOnRecord, REQUEST_STAGES, TERMINAL_STAGES
  <2> QED
    BY <2>5 DEF CancelInv, TendInv, RequestsTended, Tending
<1> QED
  BY <1>1, <1>2

\* One run changes, and acknowledges the cancellation if it ends.
LEMMA CancelKept ==
  ASSUME IInv, CancelInv, [Next]_vars, NEW c \in Coordinators, NEW r \in Requests,
         UNCHANGED up,
         \A d \in Coordinators, q \in Requests : runs'[d][q] = runs[d][q] \/ (d = c /\ q = r),
         runs'[c][r].aborted /\ runs'[c][r].cancelKind = "user" => cancellations'[r] # "none",
         runs'[c][r].pc = "rejecting" => runs'[c][r].aborted,
         runs'[c][r].pc = "ending" /\ runs'[c][r].arg = "AbortError" => runs'[c][r].aborted,
         runs'[c][r].pc = "decided" /\ runs'[c][r].arg = "cancelled" =>
           requests'[r].stage = "cancelled",
         \/ InRequest(runs'[c][r])
         \/ ~InRequest(runs[c][r])
         \/ cancellations'[r] # "requested"
  PROVE  AbortsOnRecord' /\ CancellationsTended'
<1>1. ASSUME NEW d \in Coordinators, NEW q \in Requests, ~(d = c /\ q = r)
      PROVE  runs'[d][q] = runs[d][q]
  BY <1>1
<1>2. AbortsOnRecord'
  <2>1. \A q \in Requests : /\ cancellations[q] # "none" => cancellations'[q] # "none"
                            /\ requests[q].stage = "cancelled" => requests'[q].stage = "cancelled"
    BY RecordsStay, StepLives DEF TERMINAL_STAGES
  <2> QED
    BY <1>1, <2>1 DEF CancelInv, AbortsOnRecord
<1>3. ASSUME up' = Coordinators, NEW q \in Requests, cancellations'[q] = "requested"
      PROVE  \E d \in Coordinators : InRequest(runs'[d][q])
  <2>1. PICK d \in Coordinators : InRequest(runs[d][q])
    BY <1>3, CancellationsStart
  <2>2. CASE d = c /\ q = r
    BY <1>3, <2>1, <2>2
  <2>3. CASE ~(d = c /\ q = r)
    BY <1>1, <2>1, <2>3
  <2> QED
    BY <2>2, <2>3
<1>4. CancellationsTended'
  BY <1>3 DEF CancellationsTended, InRequest
<1> QED
  BY <1>2, <1>4

\* No run changes.
LEMMA CancelStays ==
  ASSUME IInv, CancelInv, [Next]_vars, UNCHANGED <<runs, up>>
  PROVE  AbortsOnRecord' /\ CancellationsTended'
<1>1. AbortsOnRecord'
  BY RecordsStay, StepLives DEF CancelInv, AbortsOnRecord, TERMINAL_STAGES
<1>2. ASSUME up' = Coordinators, NEW q \in Requests, cancellations'[q] = "requested"
      PROVE  \E d \in Coordinators : InRequest(runs'[d][q])
  BY <1>2, CancellationsStart
<1>3. CancellationsTended'
  BY <1>2 DEF CancellationsTended, InRequest
<1> QED
  BY <1>1, <1>3

\* The end of any run of a cancelled request acknowledges its cancellation.
LEMMA RunEndsAcknowledges ==
  ASSUME IInv, IInv', [Next]_vars, NEW c \in Coordinators, NEW r \in Requests, RunEnds(c, r)
  PROVE  cancellations'[r] # "requested"
<1>1. cancellations' =
        IF acknowledges(runs[c][r], cancellations[r], requests'[r].stage, isActive(leases', r))
          THEN [cancellations EXCEPT ![r] = "acknowledged"]
          ELSE cancellations
  BY DEF RunEnds
<1>2. cancellations \in [Requests -> {"none", "requested", "acknowledged"}]
  BY DEF IInv, TypeOK
<1>3. CASE cancellations[r] = "requested"
  <2>1. requests[r].stage = "cancelled"
    BY <1>3 DEF IInv, RequestsSound, RecordSound
  <2>2. requests'[r].stage = "cancelled"
    BY <2>1, StepLives DEF TERMINAL_STAGES
  <2>3. leases'[r].id = 0
    BY <2>2 DEF IInv, RequestsSound, RecordSound, TERMINAL_STAGES
  <2>4. acknowledges(runs[c][r], cancellations[r], requests'[r].stage, isActive(leases', r))
    BY <1>3, <2>2, <2>3 DEF acknowledges, isActive
  <2> QED
    BY <1>1, <1>2, <2>4
<1>4. CASE cancellations[r] # "requested"
  BY <1>1, <1>2, <1>4
<1> QED
  BY <1>3, <1>4

LEMMA OwnStepCancels ==
  ASSUME IInv, IInv', CancelInv, [Next]_vars, "caller-abort" \notin Environment,
         NEW c \in Coordinators, NEW r \in Requests, OwnStep(c, r)
  PROVE  AbortsOnRecord' /\ CancellationsTended'
<1> DEFINE old == runs[c][r]
           new == runs'[c][r]
<1>1. UNCHANGED up
  BY OwnStepClaims
<1>2. /\ old.aborted /\ old.cancelKind = "user" => cancellations'[r] # "none"
      /\ old.pc = "rejecting" => old.aborted
      /\ old.pc = "ending" /\ old.arg = "AbortError" => old.aborted
      /\ old.pc = "decided" /\ old.arg = "cancelled" => requests'[r].stage = "cancelled"
  BY RecordsStay, StepLives DEF CancelInv, AbortsOnRecord, TERMINAL_STAGES
<1>3. \A d \in Coordinators, q \in Requests : runs'[d][q] = runs[d][q] \/ (d = c /\ q = r)
  BY OwnStepMarks
<1>4. ASSUME Aborted(old, new)
      PROVE  /\ InRequest(new) <=> InRequest(old)
             /\ new.aborted
             /\ new.pc = "decided" => old.pc = "decided" /\ new.arg = old.arg
  BY <1>4 DEF Aborted, AbortedFrom, InRequest
<1>5. CASE RunEnds(c, r)
  <2>1. new.pc = "none" /\ ~new.aborted
    <3>1. SetRun(c, r, NoRun)
      BY <1>5 DEF RunEnds
    <3> QED
      BY <3>1, RunWritten DEF NoRun
  <2>2. cancellations'[r] # "requested"
    BY <1>5, RunEndsAcknowledges
  <2> QED
    BY <1>1, <1>3, <2>1, <2>2, CancelKept
<1>6. CASE new = NoRun /\ old.pc = "sleep"
  <2>1. new.pc = "none" /\ ~new.aborted /\ ~InRequest(old)
    BY <1>6 DEF NoRun, InRequest
  <2> QED
    BY <1>1, <1>3, <2>1, CancelKept
<1>7. CASE /\ Aborted(old, new)
           /\ \/ new.cancelKind = old.cancelKind /\ old.aborted
              \/ new.cancelKind \in {"recovery-ownership", "deadline"}
  <2>1. new.aborted /\ new.cancelKind = "user" => cancellations'[r] # "none"
    BY <1>2, <1>7
  <2> QED
    BY <1>1, <1>2, <1>3, <1>4, <1>7, <2>1, CancelKept
<1>8. CASE Aborted(old, new) /\ Cancel(c, r)
  <2>1. cancellations'[r] # "none"
    BY <1>8 DEF Cancel, IInv, TypeOK
  <2> QED
    BY <1>1, <1>2, <1>3, <1>4, <1>8, <2>1, CancelKept
<1>9. CASE UNCHANGED runs
  BY <1>1, <1>9, CancelStays
<1>10. CASE /\ Proceeds(old, new)
            /\ new.pc = "decided" /\ new.arg = "cancelled" => requests[r].stage = "cancelled"
  <2>1. /\ new.aborted = old.aborted /\ new.cancelKind = old.cancelKind
        /\ InRequest(new) /\ new.pc # "rejecting"
        /\ new.pc = "ending" /\ new.arg = "AbortError" => old.aborted
    BY <1>2, <1>10 DEF Proceeds, SameMarks
  <2>2. new.pc = "decided" /\ new.arg = "cancelled" => requests'[r].stage = "cancelled"
    BY <1>10, StepLives DEF TERMINAL_STAGES
  <2>3. new.aborted /\ new.cancelKind = "user" => cancellations'[r] # "none"
    BY <1>2, <2>1
  <2> QED
    BY <1>1, <1>3, <2>1, <2>2, <2>3, CancelKept
<1>11. \/ new = NoRun /\ (RunEnds(c, r) \/ old.pc = "sleep")
       \/ /\ Aborted(old, new)
          /\ \/ new.cancelKind = old.cancelKind /\ old.aborted
             \/ new.cancelKind \in {"recovery-ownership", "deadline"}
       \/ Aborted(old, new) /\ Cancel(c, r)
       \/ UNCHANGED runs
       \/ /\ Proceeds(old, new)
          /\ new.pc = "decided" /\ new.arg = "cancelled" => requests[r].stage = "cancelled"
  <2> HIDE DEF old, new
  <2> QED
    BY OwnStepMarks DEF old, new
<1> HIDE DEF old, new
<1> QED
  BY <1>5, <1>6, <1>7, <1>8, <1>9, <1>10, <1>11

LEMMA StepCancels ==
  ASSUME IInv, IInv', CancelInv, [Next]_vars, "caller-abort" \notin Environment
  PROVE  CancelInv'
<1>1. TendInv' /\ CancelledOnRecord'
  BY StepTends, StepOnRecord DEF CancelInv
<1>2. ASSUME NEW c \in Coordinators, NEW r \in Requests, OwnStep(c, r)
      PROVE  AbortsOnRecord' /\ CancellationsTended'
  BY <1>2, OwnStepCancels
<1>3. ASSUME OutsideStep \/ UNCHANGED vars
      PROVE  AbortsOnRecord' /\ CancellationsTended'
  <2>1. UNCHANGED <<runs, up>>
    BY <1>3, OutsideStepEffect DEF vars
  <2> QED
    BY <2>1, CancelStays
<1>4. ASSUME NEW c \in Coordinators, Crash(c)
      PROVE  AbortsOnRecord' /\ CancellationsTended'
  <2>1. /\ \A d \in Coordinators \ {c} : runs'[d] = runs[d]
        /\ \A r \in Requests : runs'[c][r] = NoRun
        /\ up' = up \ {c} /\ UNCHANGED cancellations
        /\ \A r \in Requests : requests[r].stage = "cancelled" => requests'[r].stage = "cancelled"
    BY <1>4, CrashEffect, CrashAdvances
  <2>2. NoRun.pc = "none" /\ ~NoRun.aborted /\ up' # Coordinators
    BY <2>1 DEF NoRun, IInv, TypeOK
  <2> QED
    BY <2>1, <2>2 DEF CancelInv, AbortsOnRecord, CancellationsTended
<1>5. ASSUME NEW c \in Coordinators, NEW r \in Requests, UNCHANGED up,
             NEW rec, NEW ws, NEW run, Turned(c, r, rec, ws, run),
             run.aborted /\ run.cancelKind = "user" => cancellations'[r] # "none"
      PROVE  AbortsOnRecord' /\ CancellationsTended'
  <2>1. /\ \A d \in Coordinators, q \in Requests : runs'[d][q] = runs[d][q] \/ (d = c /\ q = r)
        /\ runs'[c][r].pc \in {"ending", "delay", "executing"}
        /\ runs'[c][r].pc = "ending" /\ runs'[c][r].arg = "AbortError" => run.aborted
        /\ runs'[c][r].aborted = run.aborted /\ runs'[c][r].cancelKind = run.cancelKind
        /\ InRequest(runs'[c][r])
    BY <1>5, TurnTends DEF Turned, SameMarks
  <2> QED
    BY <1>5, <2>1, CancelKept
<1>6. ASSUME NEW c \in Coordinators, NEW r \in Requests, Submit(c, r)
      PROVE  AbortsOnRecord' /\ CancellationsTended'
  <2>1. PICK rec, run : Turned(c, r, rec, workers, run) /\ ~run.aborted
    BY <1>6, SubmitTurned
  <2>2. UNCHANGED up
    BY <1>6, SubmitTurned
  <2> QED
    BY <1>5, <2>1, <2>2
<1>7. ASSUME NEW c \in Coordinators, NEW r \in Requests, AdvanceSegment(c, r) \/ DelayOver(c, r)
      PROVE  AbortsOnRecord' /\ CancellationsTended'
  <2>1. UNCHANGED up
        /\ \E rec, ws, run : Turned(c, r, rec, ws, run) /\ SameMarks(run, runs[c][r])
    <3>1. CASE AdvanceSegment(c, r)
      BY <3>1, AdvanceTurned
    <3>2. CASE DelayOver(c, r)
      BY <3>2, DelayTurned
    <3> QED
      BY <1>7, <3>1, <3>2
  <2>2. PICK rec, ws, run : Turned(c, r, rec, ws, run) /\ SameMarks(run, runs[c][r])
    BY <2>1
  <2>3. run.aborted /\ run.cancelKind = "user" => cancellations'[r] # "none"
    BY <2>2, RecordsStay DEF CancelInv, AbortsOnRecord, SameMarks
  <2> QED
    BY <1>5, <2>1, <2>2, <2>3
<1>8. ASSUME NEW c \in Coordinators, NEW r \in Requests, Recover(c, r) \/ RecoveryPoll(c, r)
      PROVE  AbortsOnRecord' /\ CancellationsTended'
  <2>1. BeginRecovery(c, r) /\ UNCHANGED up /\ requests[r].stage # "absent"
    BY <1>8, RunSubmitted DEF Recover, RecoveryPoll, REQUEST_STAGES
  <2>2. ~InRequest(runs[c][r])
    BY <1>8 DEF Recover, RecoveryPoll, InRequest
  <2>3. CASE Rested(c, r)
    <3>1. /\ \A d \in Coordinators, q \in Requests : runs'[d][q] = runs[d][q] \/ (d = c /\ q = r)
          /\ runs'[c][r].pc \in {"none", "sleep"} /\ ~runs'[c][r].aborted
      BY <2>3 DEF Rested
    <3> QED
      BY <2>1, <2>2, <3>1, CancelKept
  <2>4. CASE ~Rested(c, r)
    <3>1. PICK rec, run : Turned(c, r, rec, workers, run) /\ ~run.aborted
      BY <2>1, <2>4, RecoveryTurned
    <3> QED
      BY <1>5, <2>1, <3>1
  <2> QED
    BY <2>3, <2>4
<1>9. AbortsOnRecord' /\ CancellationsTended'
  BY <1>2, <1>3, <1>4, <1>6, <1>7, <1>8, StepCases
<1> QED
  BY <1>1, <1>9 DEF CancelInv

\* Where callers cancel through cancel, every cancellation on record has a run
\* that acknowledges it at its end, unless an instance crashes: whichever run of
\* whichever instance is the last to end acknowledges it.
THEOREM CancellationsHaveRuns ==
  ASSUME "caller-abort" \notin Environment
  PROVE  Spec => []CancellationsTended
<1>1. Init => CancelInv
  BY CoordinatorAssumption
     DEF Init, CancelInv, TendInv, ClaimsWorked, RequestsTended, LossesMarked, CancelledOnRecord,
         AbortsOnRecord, CancellationsTended, NoRequest, NoRun, NoClaim
<1>2. IInv /\ IInv' /\ CancelInv /\ [Next]_vars => CancelInv'
  BY StepCancels
<1>3. CancelInv => CancellationsTended
  BY DEF CancelInv
<1> QED
  BY <1>1, <1>2, <1>3, Invariance, PTL DEF Spec


------------------------------------------------------------------------------
(***************************************************************************)
(* The tenth result: a run whose execution fails reclaims its own lease or *)
(* none, when a request is recovered only where no live instance runs it.  *)
(* The lease of a request is then the one of its run at work, or gone.     *)
(***************************************************************************)

\* No lease covers another attempt than the one that is at work for its request.
OwnLeases ==
  \A c \in Coordinators, r \in Requests :
    Assigned(runs[c][r]) => leases[r].id \in {0, runs[c][r].id}

\* What an assignment writes, of a run that is a run afterwards.
LEMMA RunAssigned ==
  ASSUME IInv, IInv', NEW c \in Coordinators, NEW r \in Requests, NEW rec, NEW ls, NEW ws,
         NEW run, Assign(c, r, rec, ls, ws, run)
  PROVE  /\ \A d \in Coordinators, q \in Requests : runs'[d][q] = runs[d][q] \/ (d = c /\ q = r)
         /\ \/ runs'[c][r].pc = "ending"
            \/ runs'[c][r].pc = "executing" /\ runs'[c][r].id = leases'[r].id
         /\ \A q \in Requests \ {r} : leases'[q] = ls[q]
<1>1. PICK id :
        /\ leases' = [ls EXCEPT ![r] = issue(id)]
        /\ \/ SetRun(c, r, [run EXCEPT !.pc = "executing", !.id = id])
           \/ SetRun(c, r, Ending(run, "StateTransitionViolation"))
  BY Zenon DEF Assign
<1>2. leases' \in [Requests -> LeaseRecord] /\ runs'[c][r] \in RunRecord
  BY DEF IInv, TypeOK, LeaseRecord
<1>3. leases'[r].id = id /\ \A q \in Requests \ {r} : leases'[q] = ls[q]
  BY <1>1, <1>2 DEF issue
<1>4. ASSUME NEW new, SetRun(c, r, new)
      PROVE  /\ new \in RunRecord /\ runs'[c][r] = new
             /\ \A d \in Coordinators, q \in Requests : runs'[d][q] = runs[d][q] \/ (d = c /\ q = r)
  BY <1>2, <1>4, RunWritten
<1>5. CASE SetRun(c, r, [run EXCEPT !.pc = "executing", !.id = id])
  <2>1. [run EXCEPT !.pc = "executing", !.id = id] \in RunRecord
    BY <1>4, <1>5
  <2>2. /\ [run EXCEPT !.pc = "executing", !.id = id].pc = "executing"
        /\ [run EXCEPT !.pc = "executing", !.id = id].id = id
    BY <2>1 DEF RunRecord
  <2> QED
    BY <1>3, <1>4, <1>5, <2>2
<1>6. CASE SetRun(c, r, Ending(run, "StateTransitionViolation"))
  <2>1. Ending(run, "StateTransitionViolation") \in RunRecord
    BY <1>4, <1>6
  <2>2. Ending(run, "StateTransitionViolation").pc = "ending"
    BY <2>1 DEF Ending, RunRecord
  <2> QED
    BY <1>3, <1>4, <1>6, <2>2
<1> QED
  BY <1>1, <1>5, <1>6

LEMMA StepOwnLeases ==
  ASSUME IInv, IInv', LineageInv, SoloInv, SoloInv', OwnLeases, [Next]_vars
  PROVE  OwnLeases'
<1>1. LeasesMove
  BY StepLineage DEF LineageKept
<1>2. CASE Shrunk(leases') /\ DOMAIN attempts' = DOMAIN attempts
  <2>1. \A r \in Requests : leases'[r].id \in {leases[r].id, 0}
    BY <1>2 DEF Shrunk
  <2>2. ASSUME NEW c \in Coordinators, NEW r \in Requests, Assigned(runs'[c][r])
        PROVE  leases'[r].id \in {0, runs'[c][r].id}
    BY <1>2, <2>1, <2>2, WorkStays DEF OwnLeases
  <2> QED
    BY <2>2 DEF OwnLeases, Assigned
<1>3. ASSUME NEW c \in Coordinators, NEW r \in Requests, NEW rec, NEW ls, NEW ws, NEW run,
             Shrunk(ls), Assign(c, r, rec, ls, ws, run)
      PROVE  OwnLeases'
  <2>1. /\ \A d \in Coordinators, q \in Requests : runs'[d][q] = runs[d][q] \/ (d = c /\ q = r)
        /\ runs'[c][r].pc # "none"
        /\ Assigned(runs'[c][r]) => runs'[c][r].id = leases'[r].id
        /\ \A q \in Requests \ {r} : leases'[q] = ls[q]
    BY <1>3, RunAssigned DEF Assigned
  <2>2. \A q \in Requests \ {r} : leases'[q].id \in {leases[q].id, 0}
    BY <1>3, <2>1 DEF Shrunk
  <2>3. ASSUME NEW d \in Coordinators, NEW q \in Requests, Assigned(runs'[d][q])
        PROVE  leases'[q].id \in {0, runs'[d][q].id}
    <3>1. CASE d = c /\ q = r
      BY <2>1, <2>3, <3>1
    <3>2. CASE ~(d = c /\ q = r)
      <4>1. q # r
        BY <2>1, <2>3, <3>2 DEF SoloInv, Assigned
      <4>2. runs'[d][q] = runs[d][q]
        BY <2>1, <3>2
      <4> QED
        BY <2>2, <2>3, <4>1, <4>2 DEF OwnLeases
    <3> QED
      BY <3>1, <3>2
  <2> QED
    BY <2>3 DEF OwnLeases, Assigned
<1> QED
  BY <1>1, <1>2, <1>3 DEF LeasesMove

\* A run at work finds its own lease or none, whatever leases expire, workers
\* leave and instances crash (LeaseManager, lease-manager.ts, as runRequest and
\* the recovery runner call it), when no request is taken from a live run.
THEOREM LeasesAreOwn ==
  ASSUME "recover" \notin Environment
  PROVE  Spec => []OwnLeases
<1> DEFINE Inv == SoloInv /\ LineageInv /\ OwnLeases
<1>1. Init => Inv
  <2>1. Init => DOMAIN attempts = {}
    BY EmptySeq, LenProperties DEF Init
  <2> QED
    BY <2>1 DEF Init, SoloInv, LineageInv, OwnLeases, NoRun, NoRequest, Working, Assigned,
                CheckpointLineage, LeasesUnspent, NoCheckpoints, NoCheckpoint, NoLease
<1>2. IInv /\ IInv' /\ Inv /\ [Next]_vars => Inv'
  BY StepSolo, StepLineage, StepOwnLeases DEF LineageKept
<1>3. Inv => OwnLeases
  OBVIOUS
<1> HIDE DEF Inv
<1> QED
  BY <1>1, <1>2, <1>3, Invariance, PTL DEF Spec

\* "A stale result must never reclaim a newer retry/reconnect lease" holds of a
\* failed execution, which reclaims whatever lease its request has
\* (reclaimByRequest), when no request is taken from a live run.
THEOREM StaleFailuresSpare ==
  ASSUME "recover" \notin Environment
  PROVE  Spec => StaleFailureSparesLease
<1>1. OwnLeases =>
        [\A c \in Coordinators, r \in Requests :
           (/\ runs[c][r].pc = "executing"
            /\ runs'[c][r].pc = "delay"
            /\ leases[r].id \notin {0, runs[c][r].id}) => leases'[r].id = leases[r].id]_vars
  BY DEF OwnLeases, Assigned
<1>2. Spec => []OwnLeases
  BY LeasesAreOwn
<1> QED
  BY <1>1, <1>2, PTL DEF StaleFailureSparesLease

------------------------------------------------------------------------------
(***************************************************************************)
(* The eleventh result: with a single instance, an acknowledged            *)
(* cancellation means that nothing executes.  The entry that cancel looks  *)
(* for is then the only one there can be.                                  *)
(***************************************************************************)

\* An acknowledged cancellation has no run left.
AckInv ==
  \A c \in Coordinators, r \in Requests :
    cancellations[r] = "acknowledged" => runs[c][r].pc = "none"

\* No run starts on a request that has ended.
LEMMA NoRunStarts ==
  ASSUME IInv, [Next]_vars, NEW c \in Coordinators, NEW r \in Requests,
         requests[r].stage \in TERMINAL_STAGES, runs[c][r].pc = "none"
  PROVE  runs'[c][r].pc = "none"
<1>1. CASE RunsGoOn
  BY <1>1 DEF RunsGoOn, Onward
<1>2. ASSUME NEW d \in Coordinators, NEW q \in Requests,
             \/ Submit(d, q) \/ AdvanceSegment(d, q) \/ DelayOver(d, q)
             \/ Recover(d, q) \/ RecoveryPoll(d, q)
      PROVE  /\ ~(d = c /\ q = r)
             /\ runs'[c][r] = runs[c][r] \/ (d = c /\ q = r)
  <2>1. CASE Submit(d, q)
    BY <2>1, SubmitTurned DEF Turned, TERMINAL_STAGES
  <2>2. CASE AdvanceSegment(d, q)
    BY <2>2, AdvanceTurned DEF Turned
  <2>3. CASE DelayOver(d, q)
    BY <2>3, DelayTurned DEF Turned
  <2>4. CASE Recover(d, q) \/ RecoveryPoll(d, q)
    <3>1. BeginRecovery(d, q) /\ requests[q].stage # "absent"
      BY <2>4, RunSubmitted DEF Recover, RecoveryPoll, REQUEST_STAGES
    <3>2. ~(d = c /\ q = r)
      BY <2>4 DEF Recover, RecoveryPoll
    <3>3. CASE Rested(d, q)
      BY <3>2, <3>3 DEF Rested
    <3>4. CASE ~Rested(d, q)
      BY <3>1, <3>2, <3>4, RecoveryTurned DEF Turned
    <3> QED
      BY <3>3, <3>4
  <2> QED
    BY <1>2, <2>1, <2>2, <2>3, <2>4
<1>3. RunsGoOn \/ runs'[c][r] = runs[c][r]
  BY <1>2, OwnStepRuns, OutsideStepEffect, CrashEffect, StepCases DEF vars
<1> QED
  BY <1>1, <1>3

\* The only instance acknowledges when it has no run, or at the end of it.
LEMMA StepAck ==
  ASSUME IInv, [Next]_vars, AckInv, \A c, d \in Coordinators : c = d
  PROVE  AckInv'
<1>1. cancellations \in [Requests -> {"none", "requested", "acknowledged"}]
  BY DEF IInv, TypeOK
<1>2. ASSUME NEW c \in Coordinators, NEW r \in Requests, cancellations'[r] = "acknowledged"
      PROVE  runs'[c][r].pc = "none"
  <2>1. CASE cancellations[r] = "acknowledged"
    <3>1. runs[c][r].pc = "none" /\ requests[r].stage \in TERMINAL_STAGES
      BY <2>1 DEF AckInv, IInv, RequestsSound, RecordSound, TERMINAL_STAGES
    <3> QED
      BY <3>1, NoRunStarts
  <2>2. CASE cancellations[r] # "acknowledged"
    <3>1. Cancel(c, r) \/ RunEnds(c, r)
      BY <1>2, <2>2, StepLives
    <3>2. CASE RunEnds(c, r)
      <4>1. SetRun(c, r, NoRun)
        BY <3>2 DEF RunEnds
      <4> QED
        BY <4>1, RunWritten DEF NoRun
    <3>3. CASE Cancel(c, r)
      <4>1. cancellations'[r] = IF cancellations[r] # "none" THEN cancellations[r]
                                ELSE IF runs[c][r].pc # "none" \/ isActive(leases, r)
                                  THEN "requested" ELSE "acknowledged"
        BY <1>1, <3>3 DEF Cancel
      <4>2. runs[c][r].pc = "none"
        BY <1>2, <2>2, <4>1
      <4>3. UNCHANGED runs
        BY <3>3, <4>2 DEF Cancel
      <4> QED
        BY <4>2, <4>3
    <3> QED
      BY <3>1, <3>2, <3>3
  <2> QED
    BY <2>1, <2>2
<1> QED
  BY <1>2 DEF AckInv

\* "We never infer physical stop from lease removal" holds of a deployment with
\* one instance: a lease reclaimed under its run leaves the in-flight entry, which
\* cancel looks for (durable-coordinator-core-impl.ts).
THEOREM AcknowledgedStops ==
  ASSUME \A c, d \in Coordinators : c = d
  PROVE  Spec => []AcknowledgedMeansStopped
<1>1. Init => AckInv
  BY DEF Init, AckInv
<1>2. IInv /\ IInv' /\ AckInv /\ [Next]_vars => AckInv'
  BY StepAck
<1>3. IInv /\ AckInv => AcknowledgedMeansStopped
  BY DEF IInv, TypeOK, AckInv, AcknowledgedMeansStopped
<1> QED
  BY <1>1, <1>2, <1>3, Invariance, PTL DEF Spec

------------------------------------------------------------------------------
(***************************************************************************)
(* The twelfth result: when no request is taken from a live run, no run    *)
(* ever loses its claim, so no run is left that goes on after its request  *)
(* belongs to a peer.                                                      *)
(***************************************************************************)

\* No run has lost its claim.
NothingLost == \A c \in Coordinators, r \in Requests : ~runs[c][r].lost

\* A recovery at work has the claim of its request, in time or run out.
OwnClaims ==
  \A c \in Coordinators, r \in Requests :
    InRequest(runs[c][r]) /\ runs[c][r].mode = "recovery" =>
      ownerships[r].owner \in {c, NoOwner}

YieldInv == NothingLost /\ OwnClaims

\* One run changes; what it claims, no other run is at work on.
LEMMA YieldKept ==
  ASSUME SoloInv', YieldInv, NEW c \in Coordinators, NEW r \in Requests,
         \A d \in Coordinators, q \in Requests : runs'[d][q] = runs[d][q] \/ (d = c /\ q = r),
         ~runs'[c][r].lost,
         InRequest(runs'[c][r]) /\ runs'[c][r].mode = "recovery" =>
           ownerships'[r].owner \in {c, NoOwner},
         \A q \in Requests \ {r} : ownerships'[q] = ownerships[q],
         \/ ownerships'[r].owner \in {ownerships[r].owner, NoOwner}
         \/ runs'[c][r].pc # "none"
  PROVE  YieldInv'
<1>1. NothingLost'
  BY DEF YieldInv, NothingLost
<1>2. ASSUME NEW d \in Coordinators, NEW q \in Requests,
             InRequest(runs'[d][q]), runs'[d][q].mode = "recovery"
      PROVE  ownerships'[q].owner \in {d, NoOwner}
  <2>1. CASE d = c /\ q = r
    BY <1>2, <2>1
  <2>2. CASE ~(d = c /\ q = r)
    <3>1. ownerships[q].owner \in {d, NoOwner}
      BY <1>2, <2>2 DEF YieldInv, OwnClaims
    <3>2. q = r => runs'[c][r].pc = "none"
      BY <1>2, <2>2 DEF SoloInv, InRequest
    <3> QED
      BY <3>1, <3>2
  <2> QED
    BY <2>1, <2>2
<1>3. OwnClaims'
  BY <1>2 DEF OwnClaims, InRequest
<1> QED
  BY <1>1, <1>3 DEF YieldInv

LEMMA OwnStepYields ==
  ASSUME IInv, SoloInv', YieldInv, NEW c \in Coordinators, NEW r \in Requests, OwnStep(c, r)
  PROVE  YieldInv'
<1> DEFINE old == runs[c][r]
           new == runs'[c][r]
<1>1. \A d \in Coordinators, q \in Requests : runs'[d][q] = runs[d][q] \/ (d = c /\ q = r)
  BY OwnStepMarks
<1>2. /\ ~old.lost
      /\ InRequest(old) /\ old.mode = "recovery" => ownerships[r].owner \in {c, NoOwner}
  BY DEF YieldInv, NothingLost, OwnClaims
<1>3. ownerships \in [Requests -> [owner : Coordinators \cup {NoOwner}, live : BOOLEAN]]
  BY DEF IInv, TypeOK
<1>4. ASSUME Aborted(old, new)
      PROVE  (InRequest(new) <=> InRequest(old)) /\ new.mode = old.mode
  BY <1>4 DEF Aborted, AbortedFrom, InRequest
<1>5. CASE RunEnds(c, r)
  <2>1. new.pc = "none" /\ ~new.lost
    <3>1. SetRun(c, r, NoRun)
      BY <1>5 DEF RunEnds
    <3> QED
      BY <3>1, RunWritten DEF NoRun
  <2>2. ownerships' = ownerships \/ ownerships' = [ownerships EXCEPT ![r] = NoClaim]
    BY <1>5 DEF RunEnds
  <2>3. /\ ownerships'[r].owner \in {ownerships[r].owner, NoOwner}
        /\ \A q \in Requests \ {r} : ownerships'[q] = ownerships[q]
    BY <1>3, <2>2 DEF NoClaim
  <2> QED
    BY <1>1, <2>1, <2>3, YieldKept DEF InRequest
<1>6. CASE new = NoRun /\ UNCHANGED ownerships
  <2>1. new.pc = "none" /\ ~new.lost
    BY <1>6 DEF NoRun
  <2> QED
    BY <1>1, <1>6, <2>1, YieldKept DEF InRequest
<1>7. ~(OwnedByPeer(r, c) /\ InRequest(old) /\ old.mode = "recovery")
  BY <1>2 DEF OwnedByPeer
<1>8. CASE Aborted(old, new) /\ new.lost = old.lost /\ UNCHANGED ownerships
  BY <1>1, <1>2, <1>4, <1>8, YieldKept
<1>9. CASE UNCHANGED <<runs, ownerships>>
  BY <1>2, <1>9, YieldKept
<1>10. CASE /\ UNCHANGED runs /\ InRequest(old)
            /\ ownerships' = [ownerships EXCEPT ![r] = [owner |-> c, live |-> TRUE]]
  <2>1. /\ \A q \in Requests \ {r} : ownerships'[q] = ownerships[q]
        /\ ownerships'[r].owner = c /\ new.pc # "none" /\ ~new.lost
    BY <1>2, <1>3, <1>10 DEF InRequest
  <2> QED
    BY <1>1, <2>1, YieldKept
<1>11. CASE Proceeds(old, new) /\ UNCHANGED ownerships
  BY <1>1, <1>2, <1>11, YieldKept DEF Proceeds, SameMarks
<1>12. \/ RunEnds(c, r)
       \/ new = NoRun /\ UNCHANGED ownerships
       \/ OwnedByPeer(r, c) /\ InRequest(old) /\ old.mode = "recovery"
       \/ Aborted(old, new) /\ new.lost = old.lost /\ UNCHANGED ownerships
       \/ UNCHANGED <<runs, ownerships>>
       \/ /\ UNCHANGED runs /\ InRequest(old)
          /\ ownerships' = [ownerships EXCEPT ![r] = [owner |-> c, live |-> TRUE]]
       \/ Proceeds(old, new) /\ UNCHANGED ownerships
  <2> HIDE DEF old, new
  <2> QED
    BY OwnStepMarks DEF old, new
<1> HIDE DEF old, new
<1> QED
  BY <1>5, <1>6, <1>7, <1>8, <1>9, <1>10, <1>11, <1>12

LEMMA StepYields ==
  ASSUME IInv, SoloInv', YieldInv, [Next]_vars
  PROVE  YieldInv'
<1>1. ASSUME NEW c \in Coordinators, NEW r \in Requests, OwnStep(c, r)
      PROVE  YieldInv'
  BY <1>1, OwnStepYields
<1>2. ASSUME UNCHANGED runs, \A q \in Requests : ownerships'[q].owner = ownerships[q].owner
      PROVE  YieldInv'
  BY <1>2 DEF YieldInv, NothingLost, OwnClaims, InRequest
<1>3. ASSUME OutsideStep
      PROVE  YieldInv'
  <2>1. UNCHANGED runs
    BY <1>3, OutsideStepEffect
  <2>2. ASSUME NEW r \in Requests, ClaimExpires(r)
        PROVE  \A q \in Requests : ownerships'[q].owner = ownerships[q].owner
    BY <2>2 DEF ClaimExpires, IInv, TypeOK
  <2>3. CASE \A r \in Requests : ~ClaimExpires(r)
    <3>1. UNCHANGED ownerships
      BY <1>3, <2>3 DEF OutsideStep, PushResult, PushFailure, PushValidated, RegisterWorker,
           WorkerHeartbeat, RemoveWorker, HeartbeatTimeout, DeadlinePasses, LeaseGrowsOld,
           CheckpointExpires, CheckpointCleanup
    <3> QED
      BY <1>2, <2>1, <3>1
  <2> QED
    BY <1>2, <2>1, <2>2, <2>3
<1>4. ASSUME NEW c \in Coordinators, Crash(c)
      PROVE  YieldInv'
  <2>1. /\ \A d \in Coordinators \ {c} : runs'[d] = runs[d]
        /\ \A r \in Requests : runs'[c][r] = NoRun
        /\ UNCHANGED ownerships
    BY <1>4, CrashEffect
  <2>2. NoRun.pc = "none" /\ ~NoRun.lost
    BY DEF NoRun
  <2> QED
    BY <2>1, <2>2 DEF YieldInv, NothingLost, OwnClaims, InRequest
<1>5. ASSUME NEW c \in Coordinators, NEW r \in Requests, Submit(c, r)
      PROVE  YieldInv'
  <2>1. UNCHANGED ownerships
    BY <1>5, SubmitTurned
  <2>2. PICK rec, run : /\ Turned(c, r, rec, workers, run)
                        /\ ~run.lost /\ run.mode = "submit"
    BY <1>5, SubmitTurned
  <2> QED
    BY <2>1, <2>2, TurnTends, YieldKept DEF SameMarks
<1>6. ASSUME NEW c \in Coordinators, NEW r \in Requests, AdvanceSegment(c, r) \/ DelayOver(c, r)
      PROVE  YieldInv'
  <2>1. InRequest(runs[c][r]) /\ UNCHANGED ownerships
        /\ \E rec, ws, run : /\ Turned(c, r, rec, ws, run)
                             /\ SameMarks(run, runs[c][r]) /\ run.mode = runs[c][r].mode
    <3>1. CASE AdvanceSegment(c, r)
      BY <3>1, AdvanceTurned DEF InRequest
    <3>2. CASE DelayOver(c, r)
      BY <3>2, DelayTurned DEF InRequest
    <3> QED
      BY <1>6, <3>1, <3>2
  <2>2. PICK rec, ws, run : /\ Turned(c, r, rec, ws, run)
                            /\ SameMarks(run, runs[c][r]) /\ run.mode = runs[c][r].mode
    BY <2>1
  <2>3. /\ \A d \in Coordinators, q \in Requests : runs'[d][q] = runs[d][q] \/ (d = c /\ q = r)
        /\ runs'[c][r].mode = runs[c][r].mode /\ runs'[c][r].lost = runs[c][r].lost
    BY <2>2, TurnTends DEF SameMarks
  <2> QED
    BY <2>1, <2>3, YieldKept DEF YieldInv, NothingLost, OwnClaims
<1>7. ASSUME NEW c \in Coordinators, NEW r \in Requests, Recover(c, r) \/ RecoveryPoll(c, r)
      PROVE  YieldInv'
  <2>1. BeginRecovery(c, r) /\ requests[r].stage # "absent"
    BY <1>7, RunSubmitted DEF Recover, RecoveryPoll, REQUEST_STAGES
  <2>2. ownerships \in [Requests -> [owner : Coordinators \cup {NoOwner}, live : BOOLEAN]]
    BY DEF IInv, TypeOK
  <2>3. CASE Rested(c, r)
    <3>1. /\ \A d \in Coordinators, q \in Requests : runs'[d][q] = runs[d][q] \/ (d = c /\ q = r)
          /\ ~InRequest(runs'[c][r]) /\ ~runs'[c][r].lost
          /\ ownerships' = ownerships \/ ownerships' = [ownerships EXCEPT ![r] = NoClaim]
      BY <2>3 DEF Rested, InRequest
    <3>2. /\ ownerships'[r].owner \in {ownerships[r].owner, NoOwner}
          /\ \A q \in Requests \ {r} : ownerships'[q] = ownerships[q]
      BY <2>2, <3>1 DEF NoClaim
    <3> QED
      BY <3>1, <3>2, YieldKept
  <2>4. CASE ~Rested(c, r)
    <3>1. ownerships' = [ownerships EXCEPT ![r] = [owner |-> c, live |-> TRUE]]
      BY <2>1, <2>4, RecoveryTurned
    <3>2. PICK rec, run : Turned(c, r, rec, workers, run) /\ ~run.lost
      BY <2>1, <2>4, RecoveryTurned
    <3>3. /\ \A q \in Requests \ {r} : ownerships'[q] = ownerships[q]
          /\ ownerships'[r].owner = c
      BY <2>2, <3>1
    <3>4. /\ \A d \in Coordinators, q \in Requests : runs'[d][q] = runs[d][q] \/ (d = c /\ q = r)
          /\ runs'[c][r].pc # "none" /\ ~runs'[c][r].lost
      BY <3>2, TurnTends DEF SameMarks
    <3> QED
      BY <3>3, <3>4, YieldKept
  <2> QED
    BY <2>3, <2>4
<1>8. ASSUME UNCHANGED vars
      PROVE  YieldInv'
  BY <1>2, <1>8 DEF vars
<1> QED
  BY <1>1, <1>3, <1>4, <1>5, <1>6, <1>7, <1>8, StepCases

\* "If recovery ownership is lost while this Coordinator is executing" never
\* happens where recovery is the startup scan: a claim that runs out is taken by
\* a peer only after the instance that had it is gone (startRecovery and
\* renewOwnership, durable-recovery-runner.ts).  LostOwnerYields follows.
THEOREM NoClaimIsLost ==
  ASSUME "recover" \notin Environment
  PROVE  Spec => []NothingLost
<1> DEFINE Inv == SoloInv /\ YieldInv
<1>1. Init => Inv
  BY DEF Init, SoloInv, YieldInv, NothingLost, OwnClaims, NoRun, NoRequest, Working, Assigned,
         InRequest
<1>2. IInv /\ IInv' /\ Inv /\ [Next]_vars => Inv'
  BY StepSolo, StepYields
<1>3. Inv => NothingLost
  BY DEF YieldInv
<1> HIDE DEF Inv
<1> QED
  BY <1>1, <1>2, <1>3, Invariance, PTL DEF Spec
=============================================================================
