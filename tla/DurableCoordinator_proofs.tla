----------------------- MODULE DurableCoordinator_proofs -----------------------
(***************************************************************************)
(* Proofs that DurableCoordinator has its type and safety invariants, for  *)
(* every value of its constants.                                           *)
(***************************************************************************)
EXTENDS DurableCoordinator, SequenceTheorems, TLAPS

------------------------------------------------------------------------------
(* The inductive invariant                                                  *)

\* A record, lease and checkpoints that request r may have: the stages accepted
\* and leased are passed through within one synchronous stretch of code, a
\* terminal stage leaves no lease and no checkpoint, a result comes with
\* completion, and a recorded cancellation with the stage cancelled.
RecordSound(r, rec, lease, cps) ==
  /\ rec.stage \notin {"accepted", "leased"}
  /\ rec.stage \in TERMINAL_STAGES =>
       lease.id = 0 /\ \A s \in Segments : cps[s].digest = "none"
  /\ rec.stage = "completed" <=> results[r] # 0
  /\ cancellations[r] # "none" => rec.stage = "cancelled"

RequestsSound == \A r \in Requests : RecordSound(r, requests[r], leases[r], checkpoints[r])

\* A committed result is that of an attempt at the final segment.
ResultSound(r) ==
  results[r] # 0 =>
    /\ results[r] \in DOMAIN attempts
    /\ attempts[results[r]].request = r
    /\ attempts[results[r]].segment = FinalSegment

\* A lease names an attempt of its request, by a generation ws still has.
LeaseSound(r, lease, atts, ws) ==
  lease.id # 0 =>
    /\ lease.id \in DOMAIN atts
    /\ atts[lease.id].request = r
    /\ isCurrent(ws, atts[lease.id].worker, atts[lease.id].gen)

\* Payloads that get past acceptResult's first half.
CheckedPayloads == Payloads \ {"envelope", "foreign", "missing", "malformed"}

\* What a run's program counter says of its other fields.
RunSound(r, run, atts) ==
  /\ Assigned(run) =>
       /\ run.id \in DOMAIN atts
       /\ atts[run.id].request = r
       /\ atts[run.id].segment = run.segment
  /\ run.pc = "validating" => run.arg \in CheckedPayloads /\ run.segment # FinalSegment
  /\ run.pc = "decided" => run.arg \in Verdicts
  /\ run.pc = "decided" /\ run.arg = "accepted" => run.segment # FinalSegment
  /\ run.pc = "ending" => run.arg \in ErrorCodes \cup {"return", "AbortError"}

\* A pushed result under validation is an intermediate one of an issued attempt.
PushSound(p, atts) ==
  /\ p.id \in DOMAIN atts
  /\ atts[p.id].segment # FinalSegment
  /\ p.payload \in CheckedPayloads

\* The inductive invariant.  Runs and attempts belong to submitted requests.
IInv ==
  /\ TypeOK
  /\ RequestsSound
  /\ \A r \in Requests : ResultSound(r)
  /\ \A r \in Requests : LeaseSound(r, leases[r], attempts, workers)
  /\ \A c \in Coordinators, r \in Requests : RunSound(r, runs[c][r], attempts)
  /\ \A c \in Coordinators, r \in Requests :
       runs[c][r].pc # "none" => requests[r].stage # "absent"
  /\ \A p \in pushes : PushSound(p, attempts)
  /\ \A i \in DOMAIN attempts : requests[attempts[i].request].stage # "absent"
  /\ Len(attempts) <= MaxAttempts

------------------------------------------------------------------------------
(* Facts about the data                                                     *)

\* The segment numbers run from 0 to FinalSegment, and attempts start at 0.
LEMMA SegmentFacts ==
  /\ 0 \in 0 .. MaxRetries
  /\ 0 \in Segments
  /\ FinalSegment \in Segments
  /\ \A s \in Segments : s \in Nat /\ (s # FinalSegment => s + 1 \in Segments)
BY CoordinatorAssumption DEF Segments, FinalSegment

Outcomes == {"none", "completed", "failed", "cancelled", "suppressed"}

\* The attempts of atts are still there in new, and each is for the same
\* request, worker generation and segment.
AttemptsKept(atts, new) ==
  \A i \in DOMAIN atts :
    /\ i \in DOMAIN new
    /\ new[i].request = atts[i].request
    /\ new[i].worker = atts[i].worker
    /\ new[i].gen = atts[i].gen
    /\ new[i].segment = atts[i].segment

\* The fields of an attempt.
LEMMA AttemptTyped ==
  ASSUME NEW atts \in Seq(AttemptRecord)
  PROVE  /\ Len(atts) \in Nat
         /\ DOMAIN atts = 1 .. Len(atts)
         /\ \A i \in DOMAIN atts :
              /\ atts[i] \in AttemptRecord
              /\ atts[i].request \in Requests
              /\ atts[i].worker \in Workers
              /\ atts[i].gen \in Nat
              /\ atts[i].segment \in Segments
              /\ i \in Nat \ {0}
<1>1. Len(atts) \in Nat /\ DOMAIN atts = 1 .. Len(atts)
  BY LenProperties
<1>2. \A i \in DOMAIN atts : atts[i] \in AttemptRecord
  BY <1>1, ElementOfSeq
<1>3. \A a \in AttemptRecord :
        a.request \in Requests /\ a.worker \in Workers /\ a.gen \in Nat /\ a.segment \in Segments
  BY DEF AttemptRecord
<1> QED
  BY <1>1, <1>2, <1>3

\* updateAttemptOutcome changes nothing but the outcome.
LEMMA OutcomeUpdated ==
  ASSUME NEW atts \in Seq(AttemptRecord), NEW id \in DOMAIN atts, NEW o \in Outcomes
  PROVE  /\ updateAttemptOutcome(atts, id, o) \in Seq(AttemptRecord)
         /\ DOMAIN updateAttemptOutcome(atts, id, o) = DOMAIN atts
         /\ Len(updateAttemptOutcome(atts, id, o)) = Len(atts)
         /\ AttemptsKept(atts, updateAttemptOutcome(atts, id, o))
<1> DEFINE new == [atts[id] EXCEPT !.outcome = o]
<1>1. DOMAIN atts = 1 .. Len(atts)
  BY LenProperties
<1>2. atts[id] \in AttemptRecord
  BY <1>1, ElementOfSeq
<1>3. new \in AttemptRecord
  BY <1>2 DEF AttemptRecord, Outcomes
<1>4. updateAttemptOutcome(atts, id, o) = [atts EXCEPT ![id] = new]
  BY DEF updateAttemptOutcome
<1>5. /\ [atts EXCEPT ![id] = new] \in Seq(AttemptRecord)
      /\ Len([atts EXCEPT ![id] = new]) = Len(atts)
      /\ \A j \in 1 .. Len(atts) : [atts EXCEPT ![id] = new][j] = IF j = id THEN new ELSE atts[j]
  BY <1>1, <1>3, ExceptSeq
<1>6. /\ new.request = atts[id].request
      /\ new.worker = atts[id].worker
      /\ new.gen = atts[id].gen
      /\ new.segment = atts[id].segment
  BY <1>2 DEF AttemptRecord
<1> QED
  BY <1>1, <1>4, <1>5, <1>6, LenProperties DEF AttemptsKept

\* Appending an attempt keeps the earlier ones.
LEMMA AttemptAppended ==
  ASSUME NEW atts \in Seq(AttemptRecord), NEW a \in AttemptRecord
  PROVE  /\ Append(atts, a) \in Seq(AttemptRecord)
         /\ Len(Append(atts, a)) = Len(atts) + 1
         /\ DOMAIN Append(atts, a) = 1 .. Len(atts) + 1
         /\ Append(atts, a)[Len(atts) + 1] = a
         /\ AttemptsKept(atts, Append(atts, a))
<1>1. DOMAIN atts = 1 .. Len(atts)
  BY LenProperties
<1>2. /\ Append(atts, a) \in Seq(AttemptRecord)
      /\ Len(Append(atts, a)) = Len(atts) + 1
      /\ \A i \in 1 .. Len(atts) : Append(atts, a)[i] = atts[i]
      /\ Append(atts, a)[Len(atts) + 1] = a
  BY AppendProperties
<1> QED
  BY <1>1, <1>2, LenProperties DEF AttemptsKept

------------------------------------------------------------------------------
(* Frames: what a step must show                                            *)

LeaseRecord == [id : Nat, age : LeaseAges]

\* A submitted request stays submitted.
StaysSubmitted ==
  \A r \in Requests : requests[r].stage # "absent" => requests'[r].stage # "absent"

\* A step that keeps the attempts has the invariant again if what it changed is
\* sound.
LEMMA Preserved ==
  ASSUME IInv,
         TypeOK',
         AttemptsKept(attempts, attempts'),
         Len(attempts') <= MaxAttempts,
         StaysSubmitted,
         RequestsSound',
         \A r \in Requests : results'[r] = results[r] \/ ResultSound(r)',
         \A r \in Requests : LeaseSound(r, leases'[r], attempts', workers'),
         \A c \in Coordinators, r \in Requests :
           \/ runs'[c][r] = runs[c][r]
           \/ RunSound(r, runs'[c][r], attempts')
              /\ (runs'[c][r].pc # "none" => requests'[r].stage # "absent"),
         \A p \in pushes' : p \in pushes \/ PushSound(p, attempts'),
         \A i \in DOMAIN attempts' :
           i \in DOMAIN attempts \/ requests'[attempts'[i].request].stage # "absent"
  PROVE  IInv'
<1>1. \A r \in Requests : ResultSound(r)'
  BY DEF IInv, ResultSound, AttemptsKept
<1>2. ASSUME NEW c \in Coordinators, NEW r \in Requests
      PROVE  /\ RunSound(r, runs'[c][r], attempts')
             /\ runs'[c][r].pc # "none" => requests'[r].stage # "absent"
  <2>1. CASE runs'[c][r] = runs[c][r]
    BY <2>1 DEF IInv, RunSound, AttemptsKept, StaysSubmitted
  <2>2. CASE runs'[c][r] # runs[c][r]
    BY <2>2
  <2> QED
    BY <2>1, <2>2
<1>3. \A p \in pushes' : PushSound(p, attempts')
  BY DEF IInv, PushSound, AttemptsKept
<1>4. \A i \in DOMAIN attempts' : requests'[attempts'[i].request].stage # "absent"
  <2>1. attempts \in Seq(AttemptRecord)
    BY DEF IInv, TypeOK
  <2>2. \A i \in DOMAIN attempts : attempts[i].request \in Requests
    BY <2>1, AttemptTyped
  <2> QED
    BY <2>2 DEF IInv, AttemptsKept, StaysSubmitted
<1> QED
  BY <1>1, <1>2, <1>3, <1>4 DEF IInv

\* SetRun writes one run.
LEMMA SetRunEffect ==
  ASSUME TypeOK, NEW c \in Coordinators, NEW r \in Requests, NEW run \in RunRecord,
         SetRun(c, r, run)
  PROVE  /\ runs' \in [Coordinators -> [Requests -> RunRecord]]
         /\ runs'[c][r] = run
         /\ \A d \in Coordinators, q \in Requests :
              runs'[d][q] = runs[d][q] \/ (d = c /\ q = r)
BY DEF TypeOK, SetRun

------------------------------------------------------------------------------
(* The helpers of the coordinator                                           *)

\* What a step that touches request r leaves of the others: their records and
\* checkpoints, and the leases ls.
OthersKept(r, ls) ==
  \A q \in Requests \ {r} :
    /\ requests'[q] = requests[q]
    /\ leases'[q] = ls[q]
    /\ checkpoints'[q] = checkpoints[q]

RecordsTyped ==
  /\ requests \in [Requests -> RequestRecord]
  /\ leases \in [Requests -> LeaseRecord]
  /\ checkpoints \in [Requests -> [Segments -> CheckpointRecord]]

\* The stages finalizeStage may leave, for a sound record.
LEMMA TransitionFacts ==
  ASSUME NEW rec \in RequestRecord, rec.stage \notin {"accepted", "leased"},
         NEW stage \in {"failed", "cancelled"}
  PROVE  isLegalTransition(rec.stage, stage) <=>
           rec.stage \notin TERMINAL_STAGES \cup {"absent"}
BY DEF RequestRecord, isLegalTransition, TRANSITIONS, REQUEST_STAGES, TERMINAL_STAGES

\* The values left by reclaiming a lease and deleting the checkpoints.
LEMMA NothingTyped ==
  /\ NoLease \in LeaseRecord /\ NoLease.id = 0
  /\ NoCheckpoints \in [Segments -> CheckpointRecord]
  /\ \A s \in Segments : NoCheckpoints[s].digest = "none"
BY DEF NoLease, LeaseRecord, LeaseAges, NoCheckpoints, NoCheckpoint, CheckpointRecord

\* finalizeStage leaves a sound record sound and touches no other request.
LEMMA FinalizeStageEffect ==
  ASSUME TypeOK, NEW r \in Requests, NEW rec \in RequestRecord,
         NEW ls \in [Requests -> LeaseRecord],
         NEW stage \in {"failed", "cancelled"}, NEW code \in ErrorCodes \cup {"none"},
         RecordSound(r, rec, ls[r], checkpoints[r]),
         finalizeStage(r, rec, ls, stage, code)
  PROVE  /\ RecordsTyped'
         /\ RecordSound(r, requests'[r], leases'[r], checkpoints'[r])
         /\ requests'[r].stage = "absent" <=> rec.stage = "absent"
         /\ rec.stage \in TERMINAL_STAGES => requests'[r].stage = rec.stage
         /\ rec.stage \notin TERMINAL_STAGES \cup {"absent"} => requests'[r].stage = stage
         /\ leases'[r] \in {ls[r], NoLease}
         /\ OthersKept(r, ls)
<1>1. RecordsTyped
  BY DEF TypeOK, RecordsTyped, LeaseRecord
<1>2. rec.stage \notin {"accepted", "leased"}
  BY DEF RecordSound
<1>3. CASE isLegalTransition(rec.stage, stage)
  <2>1. rec.stage \notin TERMINAL_STAGES \cup {"absent"}
    BY <1>2, <1>3, TransitionFacts
  <2> DEFINE new == [rec EXCEPT !.stage = stage, !.lastErrorCode = code]
  <2>2. new \in RequestRecord /\ new.stage = stage
    BY DEF RequestRecord, REQUEST_STAGES
  <2>3. /\ requests' = [requests EXCEPT ![r] = new]
        /\ leases' = [ls EXCEPT ![r] = NoLease]
        /\ checkpoints' = [checkpoints EXCEPT ![r] = NoCheckpoints]
    BY <1>3 DEF finalizeStage, reclaimByRequest
  <2> HIDE DEF new
  <2>4. /\ RecordsTyped'
        /\ requests'[r] = new
        /\ leases'[r] = NoLease
        /\ checkpoints'[r] = NoCheckpoints
        /\ OthersKept(r, ls)
    BY <1>1, <2>2, <2>3, NothingTyped DEF RecordsTyped, OthersKept
  <2>5. RecordSound(r, new, NoLease, NoCheckpoints)
    BY <2>1, <2>2, NothingTyped DEF RecordSound, TERMINAL_STAGES
  <2> QED
    BY <2>1, <2>2, <2>4, <2>5
<1>4. CASE ~isLegalTransition(rec.stage, stage)
  <2>1. /\ requests' = [requests EXCEPT ![r] = rec]
        /\ leases' = ls
        /\ checkpoints' = checkpoints
        /\ rec.stage \in TERMINAL_STAGES \cup {"absent"}
    BY <1>2, <1>4, TransitionFacts DEF finalizeStage
  <2>2. RecordsTyped' /\ OthersKept(r, ls) /\ requests'[r] = rec
    BY <1>1, <2>1 DEF RecordsTyped, OthersKept
  <2> QED
    BY <2>1, <2>2
<1> QED
  BY <1>3, <1>4

\* Every generation of ws is in new, unless it was not current.
GenerationsKept(ws, new) ==
  \A w \in Workers :
    ws[w].stage # "absent" => new[w].gen = ws[w].gen /\ new[w].stage # "absent"

\* Kept attempts and generations keep a lease sound.
LEMMA LeaseStaysSound ==
  ASSUME NEW atts \in Seq(AttemptRecord), NEW new, AttemptsKept(atts, new),
         NEW ws, NEW nws, GenerationsKept(ws, nws),
         NEW r, NEW lease, LeaseSound(r, lease, atts, ws)
  PROVE  LeaseSound(r, lease, new, nws)
<1>1. CASE lease.id # 0
  <2>1. /\ lease.id \in DOMAIN atts
        /\ atts[lease.id].request = r
        /\ isCurrent(ws, atts[lease.id].worker, atts[lease.id].gen)
    BY <1>1 DEF LeaseSound
  <2>2. atts[lease.id].worker \in Workers
    BY <2>1, AttemptTyped
  <2>3. /\ lease.id \in DOMAIN new
        /\ new[lease.id].request = r
        /\ new[lease.id].worker = atts[lease.id].worker
        /\ new[lease.id].gen = atts[lease.id].gen
    BY <2>1 DEF AttemptsKept
  <2> QED
    BY <2>1, <2>2, <2>3 DEF LeaseSound, isCurrent, GenerationsKept
<1>2. CASE lease.id = 0
  BY <1>2 DEF LeaseSound
<1> QED
  BY <1>1, <1>2

------------------------------------------------------------------------------
(* The attempt loop                                                         *)

WorkersTyped(ws) == ws \in [Workers -> [gen : Nat, stage : WorkerStages]]

\* What a loop turn for request r on coordinator c, entered with record rec,
\* achieves.
TurnSound(c, r, rec) ==
  /\ RecordsTyped'
  /\ WorkersTyped(workers')
  /\ runs' \in [Coordinators -> [Requests -> RunRecord]]
  /\ attempts' \in Seq(AttemptRecord)
  /\ Len(attempts') <= MaxAttempts
  /\ AttemptsKept(attempts, attempts')
  /\ \A i \in DOMAIN attempts' : i \in DOMAIN attempts \/ attempts'[i].request = r
  /\ RecordSound(r, requests'[r], leases'[r], checkpoints'[r])
  /\ requests'[r].stage # "absent"
  /\ rec.stage \in TERMINAL_STAGES => requests'[r].stage = rec.stage
  /\ \A q \in Requests \ {r} :
       /\ requests'[q] = requests[q]
       /\ checkpoints'[q] = checkpoints[q]
       /\ leases'[q] \in {leases[q], NoLease}
  /\ \A q \in Requests : LeaseSound(q, leases'[q], attempts', workers')
  /\ \A d \in Coordinators, q \in Requests :
       runs'[d][q] = runs[d][q] \/ (d = c /\ q = r)
  /\ RunSound(r, runs'[c][r], attempts')

\* A run that ended refers to no attempt.
LEMMA EndingSound ==
  ASSUME NEW r, NEW run \in RunRecord, NEW atts,
         NEW how \in ErrorCodes \cup {"return", "AbortError"}
  PROVE  Ending(run, how) \in RunRecord /\ RunSound(r, Ending(run, how), atts)
<1>1. 0 \in Segments /\ 0 \in 0 .. MaxRetries /\ 0 \in Nat
  BY SegmentFacts, CoordinatorAssumption
<1>2. Ending(run, how) \in RunRecord
  BY <1>1 DEF RunRecord, Ending
<1>3. Ending(run, how).pc = "ending" /\ Ending(run, how).arg = how
  BY DEF RunRecord, Ending
<1> QED
  BY <1>2, <1>3 DEF RunSound, Assigned

\* Segment numbers and outputs of a new attempt.
LEMMA AssignSound ==
  ASSUME IInv, NEW c \in Coordinators, NEW r \in Requests, NEW rec \in RequestRecord,
         NEW ls \in [Requests -> LeaseRecord], NEW ws, WorkersTyped(ws),
         NEW run \in RunRecord,
         RecordSound(r, rec, ls[r], checkpoints[r]),
         rec.stage \notin TERMINAL_STAGES \cup {"absent"},
         \A q \in Requests : ls[q] \in {leases[q], NoLease},
         \A q \in Requests : LeaseSound(q, ls[q], attempts, ws),
         Assign(c, r, rec, ls, ws, run)
  PROVE  TurnSound(c, r, rec)
<1> DEFINE id == Len(attempts) + 1
<1>1. PICK w \in availableWorkers(ws) :
        LET attempt == [request |-> r, worker |-> w, gen |-> ws[w].gen,
                        segment |-> run.segment, outcome |-> "none",
                        input |-> IF run.segment = 0 THEN "none"
                                  ELSE checkpoints[r][run.segment - 1].digest,
                        output |-> "none"]
        IN /\ attempts' = Append(attempts, attempt)
           /\ leases' = [ls EXCEPT ![r] = issue(id)]
           /\ \/ /\ rec.stage = "queued"
                 /\ requests' = [requests EXCEPT ![r] = [rec EXCEPT !.stage = "running"]]
                 /\ workers' = markStage(ws, w, ws[w].gen, "busy")
                 /\ SetRun(c, r, [run EXCEPT !.pc = "executing", !.id = id])
              \/ /\ rec.stage # "queued"
                 /\ requests' = [requests EXCEPT ![r] = rec]
                 /\ workers' = ws
                 /\ SetRun(c, r, Ending(run, "StateTransitionViolation"))
  BY DEF Assign
<1> DEFINE attempt == [request |-> r, worker |-> w, gen |-> ws[w].gen,
                       segment |-> run.segment, outcome |-> "none",
                       input |-> IF run.segment = 0 THEN "none"
                                 ELSE checkpoints[r][run.segment - 1].digest,
                       output |-> "none"]
<1>2. w \in Workers /\ ws[w].stage = "idle" /\ ws[w].gen \in Nat
  BY <1>1 DEF availableWorkers, WorkersTyped
<1>3. attempt \in AttemptRecord
  <2>1. run.segment \in Segments
    BY DEF RunRecord
  <2>2. attempt.input \in Digests \cup {"none"}
    <3>1. CASE run.segment = 0
      BY <3>1
    <3>2. CASE run.segment # 0
      <4>1. run.segment - 1 \in Segments
        BY <2>1, <3>2, CoordinatorAssumption DEF Segments
      <4> QED
        BY <3>2, <4>1 DEF IInv, TypeOK, CheckpointRecord
    <3> QED
      BY <3>1, <3>2
  <2> QED
    BY <1>2, <2>1, <2>2 DEF AttemptRecord
<1>4. attempts \in Seq(AttemptRecord) /\ Len(attempts) < MaxAttempts
  BY DEF IInv, TypeOK, Assign
<1>5. attempts' = Append(attempts, attempt) /\ leases' = [ls EXCEPT ![r] = issue(id)]
  BY <1>1
<1> HIDE DEF attempt
<1>6. /\ attempts' \in Seq(AttemptRecord)
      /\ Len(attempts') = id
      /\ DOMAIN attempts' = 1 .. id
      /\ attempts'[id] = attempt
      /\ AttemptsKept(attempts, attempts')
  BY <1>3, <1>4, <1>5, AttemptAppended
<1>7. id \in Nat /\ id # 0 /\ Len(attempts') <= MaxAttempts /\ id \in DOMAIN attempts'
  BY <1>4, <1>6, AttemptTyped, CoordinatorAssumption
<1>8. attempt.request = r /\ attempt.worker = w /\ attempt.gen = ws[w].gen
      /\ attempt.segment = run.segment
  BY DEF attempt
<1>9. \A i \in DOMAIN attempts' : i \in DOMAIN attempts \/ attempts'[i].request = r
  BY <1>4, <1>6, <1>8, AttemptTyped
<1>10. leases' \in [Requests -> LeaseRecord] /\ leases'[r] = issue(id)
       /\ \A q \in Requests \ {r} : leases'[q] = ls[q]
  BY <1>5, <1>7 DEF issue, LeaseRecord, LeaseAges
<1>11. checkpoints' = checkpoints
  BY DEF Assign
<1>12. ASSUME NEW new \in [Workers -> [gen : Nat, stage : WorkerStages]],
              GenerationsKept(ws, new)
       PROVE  \A q \in Requests : LeaseSound(q, leases'[q], attempts', new)
  <2>1. LeaseSound(r, leases'[r], attempts', new)
    BY <1>2, <1>6, <1>7, <1>8, <1>10, <1>12 DEF LeaseSound, issue, isCurrent, GenerationsKept
  <2>2. ASSUME NEW q \in Requests \ {r}
        PROVE  LeaseSound(q, leases'[q], attempts', new)
    BY <1>4, <1>6, <1>10, <1>12, LeaseStaysSound
  <2> QED
    BY <2>1, <2>2
<1>13. CASE rec.stage = "queued"
  <2> DEFINE started == [run EXCEPT !.pc = "executing", !.id = id]
             after == [rec EXCEPT !.stage = "running"]
  <2>1. /\ requests' = [requests EXCEPT ![r] = after]
        /\ workers' = markStage(ws, w, ws[w].gen, "busy")
        /\ SetRun(c, r, started)
    BY <1>1, <1>13
  <2>2. after \in RequestRecord /\ after.stage = "running"
    BY DEF RequestRecord, REQUEST_STAGES
  <2>3. started \in RunRecord /\ RunSound(r, started, attempts')
    BY <1>6, <1>7, <1>8 DEF RunRecord, RunSound, Assigned
  <2> HIDE DEF started, after
  <2>4. /\ workers' \in [Workers -> [gen : Nat, stage : WorkerStages]]
        /\ GenerationsKept(ws, workers')
    BY <1>2, <2>1 DEF markStage, isCurrent, WorkersTyped, WorkerStages, GenerationsKept
  <2>5. RecordSound(r, after, issue(id), checkpoints[r])
    BY <1>13, <2>2 DEF RecordSound, TERMINAL_STAGES
  <2>6. RecordsTyped'
    BY <1>10, <1>11, <2>1, <2>2 DEF RecordsTyped, IInv, TypeOK
  <2>7. /\ runs' \in [Coordinators -> [Requests -> RunRecord]]
        /\ runs'[c][r] = started
        /\ \A d \in Coordinators, q \in Requests :
             runs'[d][q] = runs[d][q] \/ (d = c /\ q = r)
    BY <2>1, <2>3, SetRunEffect DEF IInv
  <2>8. requests'[r] = after /\ \A q \in Requests \ {r} : requests'[q] = requests[q]
    BY <2>1 DEF IInv, TypeOK
  <2>9. \A q \in Requests : LeaseSound(q, leases'[q], attempts', workers')
    BY <1>12, <2>4
  <2> QED
    BY <1>6, <1>7, <1>9, <1>10, <1>11, <2>2, <2>3, <2>4, <2>5, <2>6, <2>7, <2>8, <2>9
       DEF TurnSound, WorkersTyped, TERMINAL_STAGES
<1>14. CASE rec.stage # "queued"
  <2> DEFINE ended == Ending(run, "StateTransitionViolation")
  <2>1. /\ requests' = [requests EXCEPT ![r] = rec]
        /\ workers' = ws
        /\ SetRun(c, r, ended)
    BY <1>1, <1>14
  <2>2. ended \in RunRecord /\ RunSound(r, ended, attempts')
    BY EndingSound DEF ErrorCodes
  <2> HIDE DEF ended
  <2>3. RecordSound(r, rec, issue(id), checkpoints[r])
    BY DEF RecordSound
  <2>4. RecordsTyped'
    BY <1>10, <1>11, <2>1 DEF RecordsTyped, IInv, TypeOK
  <2>5. /\ runs' \in [Coordinators -> [Requests -> RunRecord]]
        /\ runs'[c][r] = ended
        /\ \A d \in Coordinators, q \in Requests :
             runs'[d][q] = runs[d][q] \/ (d = c /\ q = r)
    BY <2>1, <2>2, SetRunEffect DEF IInv
  <2>6. requests'[r] = rec /\ \A q \in Requests \ {r} : requests'[q] = requests[q]
    BY <2>1 DEF IInv, TypeOK
  <2>7. \A q \in Requests : LeaseSound(q, leases'[q], attempts', workers')
    BY <1>12, <2>1 DEF WorkersTyped, GenerationsKept
  <2> QED
    BY <1>6, <1>7, <1>9, <1>10, <1>11, <2>1, <2>2, <2>3, <2>4, <2>5, <2>6, <2>7
       DEF TurnSound, WorkersTyped
<1> QED
  BY <1>13, <1>14

\* A branch of the turn that settles the request, or leaves its record as it
\* is, and moves the run, without an assignment.
LEMMA MoveSound ==
  ASSUME IInv, NEW c \in Coordinators, NEW r \in Requests, NEW rec,
         NEW ls \in [Requests -> LeaseRecord], NEW ws, WorkersTyped(ws),
         NEW run \in RunRecord, RunSound(r, run, attempts),
         \A q \in Requests : ls[q] \in {leases[q], NoLease},
         \A q \in Requests : LeaseSound(q, ls[q], attempts, ws),
         RecordsTyped',
         RecordSound(r, requests'[r], leases'[r], checkpoints'[r]),
         requests'[r].stage # "absent",
         rec.stage \in TERMINAL_STAGES => requests'[r].stage = rec.stage,
         leases'[r] \in {ls[r], NoLease},
         OthersKept(r, ls),
         attempts' = attempts,
         workers' = ws,
         SetRun(c, r, run)
  PROVE  TurnSound(c, r, rec)
<1>1. attempts \in Seq(AttemptRecord) /\ Len(attempts) <= MaxAttempts
  BY DEF IInv, TypeOK
<1>2. AttemptsKept(attempts, attempts)
  BY DEF AttemptsKept
<1>3. \A q \in Requests : LeaseSound(q, leases'[q], attempts, ws)
  BY NothingTyped DEF OthersKept, LeaseSound
<1>4. /\ runs' \in [Coordinators -> [Requests -> RunRecord]]
      /\ runs'[c][r] = run
      /\ \A d \in Coordinators, q \in Requests :
           runs'[d][q] = runs[d][q] \/ (d = c /\ q = r)
  BY SetRunEffect DEF IInv
<1> QED
  BY <1>1, <1>2, <1>3, <1>4 DEF TurnSound, OthersKept

\* Every turn of the attempt loop, entered with a sound record, is sound.
LEMMA LoopTurnSound ==
  ASSUME IInv, NEW c \in Coordinators, NEW r \in Requests, NEW rec \in RequestRecord,
         NEW ls \in [Requests -> LeaseRecord], NEW ws, WorkersTyped(ws),
         NEW run \in RunRecord,
         RecordSound(r, rec, ls[r], checkpoints[r]),
         rec.stage # "absent",
         \A q \in Requests : ls[q] \in {leases[q], NoLease},
         \A q \in Requests : LeaseSound(q, ls[q], attempts, ws),
         LoopTurn(c, r, rec, ls, ws, run)
  PROVE  TurnSound(c, r, rec)
<1> DEFINE cur == IF rec.stage = "retry-wait" THEN [rec EXCEPT !.stage = "queued"] ELSE rec
           stopped == rec.stage \in TERMINAL_STAGES \/ cancellations[r] # "none"
           schedulable == ~run.aborted /\ ~stopped
           usable == PredecessorUsable(r, run.segment)
           last == ~attemptsLeft(run)
<1>1. TypeOK /\ RecordsTyped
  BY DEF IInv, TypeOK, RecordsTyped, LeaseRecord
<1>2. /\ cur \in RequestRecord
      /\ RecordSound(r, cur, ls[r], checkpoints[r])
      /\ cur.stage # "absent"
      /\ rec.stage \in TERMINAL_STAGES <=> cur.stage \in TERMINAL_STAGES
  <2>1. CASE rec.stage = "retry-wait"
    BY <2>1 DEF RequestRecord, REQUEST_STAGES, RecordSound, TERMINAL_STAGES
  <2>2. CASE rec.stage # "retry-wait"
    BY <2>2
  <2> QED
    BY <2>1, <2>2
<1>3. ASSUME run.aborted,
             requests' = [requests EXCEPT ![r] = rec],
             leases' = ls, workers' = ws,
             SetRun(c, r, Ending(run, "AbortError")),
             UNCHANGED <<attempts, checkpoints>>
      PROVE  TurnSound(c, r, rec)
  <2>1. RecordsTyped' /\ OthersKept(r, ls) /\ requests'[r] = rec
    BY <1>1, <1>3 DEF RecordsTyped, OthersKept
  <2>2. Ending(run, "AbortError") \in RunRecord
        /\ RunSound(r, Ending(run, "AbortError"), attempts)
    BY EndingSound
  <2> QED
    BY <1>3, <2>1, <2>2, MoveSound
<1>4. ASSUME NEW old \in {rec, cur},
             NEW stage \in {"failed", "cancelled"},
             NEW code \in ErrorCodes \cup {"none"},
             finalizeStage(r, old, ls, stage, code),
             workers' = ws,
             SetRun(c, r, Ending(run, "return")),
             attempts' = attempts
      PROVE  TurnSound(c, r, rec)
  <2>1. old \in RequestRecord /\ RecordSound(r, old, ls[r], checkpoints[r])
    BY <1>2
  <2>2. /\ RecordsTyped'
        /\ RecordSound(r, requests'[r], leases'[r], checkpoints'[r])
        /\ requests'[r].stage = "absent" <=> old.stage = "absent"
        /\ old.stage \in TERMINAL_STAGES => requests'[r].stage = old.stage
        /\ leases'[r] \in {ls[r], NoLease}
        /\ OthersKept(r, ls)
    BY <1>1, <1>4, <2>1, FinalizeStageEffect
  <2>3. rec.stage \in TERMINAL_STAGES => requests'[r].stage = rec.stage
    BY <2>2 DEF TERMINAL_STAGES
  <2>4. Ending(run, "return") \in RunRecord /\ RunSound(r, Ending(run, "return"), attempts)
    BY EndingSound
  <2> QED
    BY <1>2, <1>4, <2>2, <2>3, <2>4, MoveSound
<1>5. ASSUME schedulable,
             requests' = [requests EXCEPT ![r] = cur],
             leases' = ls, workers' = ws,
             SetRun(c, r, [run EXCEPT !.pc = "delay", !.id = 0]),
             UNCHANGED <<attempts, checkpoints>>
      PROVE  TurnSound(c, r, rec)
  <2> DEFINE waiting == [run EXCEPT !.pc = "delay", !.id = 0]
  <2>1. RecordsTyped' /\ OthersKept(r, ls) /\ requests'[r] = cur
    BY <1>1, <1>2, <1>5 DEF RecordsTyped, OthersKept
  <2>2. waiting \in RunRecord /\ RunSound(r, waiting, attempts)
    BY DEF RunRecord, RunSound, Assigned
  <2> QED
    BY <1>2, <1>5, <2>1, <2>2, MoveSound
<1>6. ASSUME schedulable, Assign(c, r, cur, ls, ws, run)
      PROVE  TurnSound(c, r, rec)
  <2>1. cur.stage \notin TERMINAL_STAGES \cup {"absent"}
    BY <1>2, <1>6
  <2>2. TurnSound(c, r, cur)
    BY <1>2, <1>6, <2>1, AssignSound
  <2> QED
    BY <1>2, <1>6, <2>2 DEF TurnSound
<1> QED
  BY <1>3, <1>4, <1>5, <1>6 DEF LoopTurn, ErrorCodes

\* A step that is a turn of the attempt loop, and leaves results, cancellations
\* and pushes alone, keeps the invariant.
LEMMA TurnKeepsInvariant ==
  ASSUME IInv, NEW c \in Coordinators, NEW r \in Requests, NEW rec,
         TurnSound(c, r, rec),
         ownerships' \in [Requests -> [owner : Coordinators \cup {NoOwner}, live : BOOLEAN]],
         UNCHANGED <<results, cancellations, pushes, pushed, up>>
  PROVE  IInv'
<1>1. TypeOK'
  BY DEF IInv, TypeOK, TurnSound, RecordsTyped, WorkersTyped, LeaseRecord
<1>2. StaysSubmitted
  BY DEF TurnSound, StaysSubmitted
<1>3. RequestsSound'
  <2>1. RecordSound(r, requests[r], leases[r], checkpoints[r])'
    BY DEF TurnSound, RecordSound
  <2>2. ASSUME NEW q \in Requests \ {r}
        PROVE  RecordSound(q, requests[q], leases[q], checkpoints[q])'
    <3>1. RecordSound(q, requests[q], leases[q], checkpoints[q])
      BY DEF IInv, RequestsSound
    <3>2. /\ requests'[q] = requests[q]
          /\ checkpoints'[q] = checkpoints[q]
          /\ leases'[q] = leases[q] \/ leases'[q].id = 0
      BY NothingTyped DEF TurnSound
    <3> QED
      BY <3>1, <3>2 DEF RecordSound
  <2> QED
    BY <2>1, <2>2 DEF RequestsSound
<1> QED
  BY <1>1, <1>2, <1>3, Preserved DEF TurnSound

------------------------------------------------------------------------------
(* Runs: submission, recovery, the turns that follow a verdict or a delay   *)

\* What the invariant says of the parts a loop turn reads.
LEMMA Parts ==
  ASSUME IInv
  PROVE  /\ RecordsTyped
         /\ WorkersTyped(workers)
         /\ attempts \in Seq(AttemptRecord)
         /\ AttemptsKept(attempts, attempts)
         /\ GenerationsKept(workers, workers)
         /\ runs \in [Coordinators -> [Requests -> RunRecord]]
         /\ \A r \in Requests : LeaseSound(r, leases[r], attempts, workers)
         /\ \A r \in Requests : RecordSound(r, requests[r], leases[r], checkpoints[r])
BY DEF IInv, TypeOK, RecordsTyped, WorkersTyped, LeaseRecord, AttemptsKept,
       GenerationsKept, RequestsSound

\* The runs that submit, recovery and their ends write.
LEMMA NewRunTyped ==
  ASSUME NEW mode \in {"submit", "recovery"}, NEW segment \in Segments, NEW aborted \in BOOLEAN
  PROVE  /\ NewRun(mode, segment) \in RunRecord
         /\ [NewRun(mode, segment) EXCEPT !.aborted = aborted] \in RunRecord
         /\ [NewRun(mode, segment) EXCEPT !.pc = "sleep"] \in RunRecord
         /\ NoRun \in RunRecord
BY SegmentFacts DEF NewRun, NoRun, RunRecord

\* submit: a new record enters the loop at segment 0.
LEMMA SubmitKeeps ==
  ASSUME IInv, NEW c \in Coordinators, NEW r \in Requests, Submit(c, r)
  PROVE  IInv'
<1>1. PICK deadline \in {"none", "armed"}, aborted \in BOOLEAN :
        LoopTurn(c, r, NewRequest(deadline), leases, workers,
                 [NewRun("submit", 0) EXCEPT !.aborted = aborted])
  BY DEF Submit
<1>2. NewRequest(deadline) \in RequestRecord /\ NewRequest(deadline).stage = "queued"
  BY SegmentFacts DEF NewRequest, NoRequest, RequestRecord, REQUEST_STAGES
<1>3. requests[r].stage = "absent"
  BY DEF Submit
<1>4. RecordSound(r, NewRequest(deadline), leases[r], checkpoints[r])
  BY <1>2, <1>3, Parts DEF RecordSound, TERMINAL_STAGES
<1>5. [NewRun("submit", 0) EXCEPT !.aborted = aborted] \in RunRecord
  BY NewRunTyped, SegmentFacts
<1>6. TurnSound(c, r, NewRequest(deadline))
  BY <1>1, <1>2, <1>4, <1>5, Parts, LoopTurnSound DEF RecordsTyped
<1> QED
  BY <1>6, TurnKeepsInvariant DEF Submit, IInv, TypeOK

\* The retry delay ends in another turn, or ends the loop.
LEMMA DelayOverKeeps ==
  ASSUME IInv, NEW c \in Coordinators, NEW r \in Requests, DelayOver(c, r)
  PROVE  IInv'
<1> DEFINE run == runs[c][r]
           again == [run EXCEPT !.attempt = @ + 1]
<1>1. run \in RunRecord /\ run.pc = "delay" /\ requests[r].stage # "absent"
  BY Parts DEF DelayOver, IInv
<1>2. requests[r] \in RequestRecord /\ RecordSound(r, requests[r], leases[r], checkpoints[r])
  BY Parts DEF RecordsTyped
<1>3. CASE attemptsLeft(run) /\ LoopTurn(c, r, requests[r], leases, workers, again)
  <2>1. again \in RunRecord
    BY <1>1, <1>3, CoordinatorAssumption DEF RunRecord, attemptsLeft
  <2>2. TurnSound(c, r, requests[r])
    BY <1>1, <1>2, <1>3, <2>1, Parts, LoopTurnSound DEF RecordsTyped
  <2> QED
    BY <2>2, TurnKeepsInvariant DEF DelayOver, IInv, TypeOK
<1>4. CASE SetRun(c, r, Ending(run, "return"))
           /\ UNCHANGED <<requests, leases, workers, attempts, checkpoints>>
  <2>1. Ending(run, "return") \in RunRecord /\ RunSound(r, Ending(run, "return"), attempts)
    BY <1>1, EndingSound
  <2>2. TurnSound(c, r, requests[r])
    BY <1>1, <1>2, <1>4, <2>1, Parts, MoveSound DEF RecordsTyped, OthersKept
  <2> QED
    BY <2>2, TurnKeepsInvariant DEF DelayOver, IInv, TypeOK
<1> QED
  BY <1>3, <1>4 DEF DelayOver

OwnershipsTyped ==
  ownerships \in [Requests -> [owner : Coordinators \cup {NoOwner}, live : BOOLEAN]]

\* A step that only moves a run, and perhaps a claim, keeps the invariant.
LEMMA RunMoveKeeps ==
  ASSUME IInv, NEW c \in Coordinators, NEW r \in Requests, requests[r].stage # "absent",
         NEW run \in RunRecord, RunSound(r, run, attempts),
         SetRun(c, r, run), OwnershipsTyped',
         UNCHANGED <<requests, results, cancellations, attempts, leases, checkpoints,
                     workers, pushes, pushed, up>>
  PROVE  IInv'
<1>1. TurnSound(c, r, requests[r])
  BY Parts, MoveSound DEF RecordsTyped, OthersKept
<1> QED
  BY <1>1, TurnKeepsInvariant DEF OwnershipsTyped

PlanKinds == {"terminal", "cancel", "fail", "wait-active-owner", "resume"}

\* What the planner may say.
LEMMA PlanFacts ==
  ASSUME NEW request, NEW lease, NEW leaseSegment, NEW predecessorUsable,
         NEW cancellationPresent, NEW maxRetries
  PROVE  LET plan == planDurableRequestRecovery(request, lease, leaseSegment,
                       predecessorUsable, cancellationPresent, maxRetries)
         IN /\ plan.kind = "terminal" <=> request.stage \in TERMINAL_STAGES
            /\ plan.code \in ErrorCodes \cup {"none"}
BY DEF planDurableRequestRecovery, Plan, recoverable, leaseHeld, ErrorCodes

\* Every outcome of the recovery command keeps the invariant.
LEMMA BeginRecoveryKeeps ==
  ASSUME IInv, NEW c \in Coordinators, NEW r \in Requests, requests[r].stage # "absent",
         BeginRecovery(c, r), UNCHANGED <<pushes, pushed, up>>
  PROVE  IInv'
<1> DEFINE plan == PlanFor(r)
           released == [ownerships EXCEPT ![r] = NoClaim]
           asleep == [NewRun("recovery", 0) EXCEPT !.pc = "sleep"]
<1>1. /\ plan.kind = "terminal" <=> requests[r].stage \in TERMINAL_STAGES
      /\ plan.code \in ErrorCodes \cup {"none"}
  BY PlanFacts DEF PlanFor
<1>2. OwnershipsTyped /\ released \in [Requests -> [owner : Coordinators \cup {NoOwner}, live : BOOLEAN]]
  BY DEF IInv, TypeOK, OwnershipsTyped, NoClaim
<1>3. /\ NoRun \in RunRecord /\ RunSound(r, NoRun, attempts)
      /\ asleep \in RunRecord /\ RunSound(r, asleep, attempts)
  BY NewRunTyped, SegmentFacts DEF RunSound, Assigned, NoRun, NewRun
<1>4. requests[r] \in RequestRecord /\ RecordSound(r, requests[r], leases[r], checkpoints[r])
  BY Parts DEF RecordsTyped
<1> HIDE DEF plan, released, asleep
<1>5. CASE SetRun(c, r, NoRun) /\ UNCHANGED durable
  BY <1>2, <1>3, <1>5, RunMoveKeeps DEF durable, OwnershipsTyped
<1>6. CASE SetRun(c, r, asleep) /\ UNCHANGED durable
  BY <1>2, <1>3, <1>6, RunMoveKeeps DEF durable, OwnershipsTyped
<1>7. CASE /\ ownerships' = released
           /\ SetRun(c, r, asleep)
           /\ UNCHANGED <<requests, results, cancellations, attempts, leases, checkpoints, workers>>
  BY <1>2, <1>3, <1>7, RunMoveKeeps DEF OwnershipsTyped
<1>8. CASE /\ plan.kind \in {"cancel", "fail"}
           /\ terminalize(r, IF plan.kind = "cancel" THEN "cancelled" ELSE "failed", plan.code)
           /\ ownerships' = released
           /\ SetRun(c, r, NoRun)
           /\ UNCHANGED <<results, cancellations, attempts, workers>>
  <2>1. requests[r].stage \notin TERMINAL_STAGES
    BY <1>1, <1>8
  <2>2. PICK stage \in {"cancelled", "failed"} : terminalize(r, stage, plan.code)
    BY <1>8
  <2> DEFINE after == [requests[r] EXCEPT !.stage = stage, !.lastErrorCode = plan.code]
  <2>3. after \in RequestRecord /\ after.stage = stage
    BY <1>1, <1>4 DEF RequestRecord, REQUEST_STAGES
  <2>4. /\ requests' = [requests EXCEPT ![r] = after]
        /\ leases' = [leases EXCEPT ![r] = NoLease]
        /\ checkpoints' = [checkpoints EXCEPT ![r] = NoCheckpoints]
    BY <2>2 DEF terminalize, reclaimByRequest
  <2> HIDE DEF after
  <2>5. /\ RecordsTyped' /\ OthersKept(r, leases)
        /\ requests'[r] = after /\ leases'[r] = NoLease /\ checkpoints'[r] = NoCheckpoints
    BY <2>3, <2>4, Parts, NothingTyped DEF RecordsTyped, OthersKept
  <2>6. RecordSound(r, after, NoLease, NoCheckpoints)
    BY <1>4, <2>1, <2>3, NothingTyped DEF RecordSound, TERMINAL_STAGES
  <2>7. TurnSound(c, r, requests[r])
    BY <1>3, <1>4, <1>8, <2>1, <2>3, <2>5, <2>6, Parts, MoveSound DEF RecordsTyped
  <2> QED
    BY <1>2, <1>8, <2>7, TurnKeepsInvariant DEF OwnershipsTyped
<1>9. CASE /\ plan.kind = "resume"
           /\ ownerships' = [ownerships EXCEPT ![r] = [owner |-> c, live |-> TRUE]]
           /\ LoopTurn(c, r, [requests[r] EXCEPT !.stage = "queued"],
                       reclaimByRequest(leases, r), workers,
                       NewRun("recovery", resumeSegment(r)))
           /\ UNCHANGED <<results, cancellations>>
  <2> DEFINE rec == [requests[r] EXCEPT !.stage = "queued"]
             ls == reclaimByRequest(leases, r)
             run == NewRun("recovery", resumeSegment(r))
  <2>1. requests[r].stage \notin TERMINAL_STAGES
    BY <1>1, <1>9
  <2>2. rec \in RequestRecord /\ rec.stage = "queued"
    BY <1>4 DEF RequestRecord, REQUEST_STAGES
  <2>3. /\ ls \in [Requests -> LeaseRecord]
        /\ ls[r] = NoLease
        /\ \A q \in Requests : ls[q] \in {leases[q], NoLease}
    BY Parts, NothingTyped DEF reclaimByRequest, RecordsTyped
  <2>4. RecordSound(r, rec, ls[r], checkpoints[r])
    BY <1>4, <2>1, <2>2 DEF RecordSound, TERMINAL_STAGES
  <2>5. run \in RunRecord
    BY <1>4, NewRunTyped DEF resumeSegment, RequestRecord
  <2>6. \A q \in Requests : LeaseSound(q, ls[q], attempts, workers)
    BY <2>3, Parts, NothingTyped DEF LeaseSound
  <2>7. TurnSound(c, r, rec)
    BY <1>9, <2>2, <2>3, <2>4, <2>5, <2>6, Parts, LoopTurnSound
  <2>8. OwnershipsTyped'
    BY <1>2, <1>9 DEF OwnershipsTyped
  <2> QED
    BY <1>9, <2>7, <2>8, TurnKeepsInvariant DEF OwnershipsTyped
<1> QED
  BY <1>5, <1>6, <1>7, <1>8, <1>9 DEF BeginRecovery, plan, released, asleep

------------------------------------------------------------------------------
(* Steps that issue no attempt                                              *)

\* The attempts are those there were, up to outcomes and outputs.
SameAttempts ==
  /\ attempts' \in Seq(AttemptRecord)
  /\ DOMAIN attempts' = DOMAIN attempts
  /\ Len(attempts') = Len(attempts)
  /\ AttemptsKept(attempts, attempts')

LeasesSound == \A r \in Requests : LeaseSound(r, leases[r], attempts, workers)

\* What a step that issues no attempt shows of the durable state.
DurableSound ==
  /\ RecordsTyped'
  /\ WorkersTyped(workers')
  /\ results' \in [Requests -> Nat]
  /\ cancellations' \in [Requests -> {"none", "requested", "acknowledged"}]
  /\ SameAttempts
  /\ StaysSubmitted
  /\ RequestsSound'
  /\ \A r \in Requests : results'[r] = results[r] \/ ResultSound(r)'
  /\ LeasesSound'

\* Together with what happens to runs and pushes, that keeps the invariant.
LEMMA DurableKeeps ==
  ASSUME IInv, DurableSound, OwnershipsTyped',
         runs' \in [Coordinators -> [Requests -> RunRecord]],
         \A c \in Coordinators, r \in Requests :
           \/ runs'[c][r] = runs[c][r]
           \/ RunSound(r, runs'[c][r], attempts')
              /\ (runs'[c][r].pc # "none" => requests'[r].stage # "absent"),
         pushes' \subseteq [coordinator : Coordinators, id : Nat, payload : Payloads],
         \A p \in pushes' : p \in pushes \/ PushSound(p, attempts'),
         pushed' \in Nat,
         up' \subseteq Coordinators
  PROVE  IInv'
<1>1. TypeOK'
  BY DEF DurableSound, RecordsTyped, WorkersTyped, SameAttempts, OwnershipsTyped,
         TypeOK, LeaseRecord
<1>2. Len(attempts') <= MaxAttempts
  BY DEF IInv, DurableSound, SameAttempts
<1>3. \A r \in Requests : LeaseSound(r, leases'[r], attempts', workers')
  BY DEF DurableSound, LeasesSound
<1>4. \A i \in DOMAIN attempts' :
        i \in DOMAIN attempts \/ requests'[attempts'[i].request].stage # "absent"
  BY DEF DurableSound, SameAttempts
<1> QED
  BY <1>1, <1>2, <1>3, <1>4, Preserved DEF DurableSound, SameAttempts

\* One request changes, and other requests at most lose their lease.
LEMMA OneRequestSound ==
  ASSUME IInv, NEW r \in Requests,
         RecordsTyped', WorkersTyped(workers'),
         results' \in [Requests -> Nat],
         cancellations' \in [Requests -> {"none", "requested", "acknowledged"}],
         SameAttempts,
         RecordSound(r, requests[r], leases[r], checkpoints[r])',
         requests[r].stage # "absent" => requests'[r].stage # "absent",
         results'[r] = results[r] \/ ResultSound(r)',
         \A q \in Requests \ {r} :
           /\ requests'[q] = requests[q]
           /\ checkpoints'[q] = checkpoints[q]
           /\ results'[q] = results[q]
           /\ cancellations'[q] = cancellations[q]
           /\ leases'[q] \in {leases[q], NoLease},
         LeasesSound'
  PROVE  DurableSound
<1>1. ASSUME NEW q \in Requests \ {r}
      PROVE  RecordSound(q, requests[q], leases[q], checkpoints[q])'
  <2>1. RecordSound(q, requests[q], leases[q], checkpoints[q])
    BY Parts
  <2>2. leases'[q] = leases[q] \/ leases'[q].id = 0
    BY NothingTyped
  <2> QED
    BY <2>1, <2>2 DEF RecordSound
<1>2. RequestsSound'
  BY <1>1 DEF RequestsSound
<1> QED
  BY <1>2 DEF DurableSound, StaysSubmitted

\* isolateWorker takes the leases of a generation away with the generation.
LEMMA IsolationEffect ==
  ASSUME IInv, NEW id \in DOMAIN attempts,
         NEW ls \in [Requests -> LeaseRecord], NEW ws, WorkersTyped(ws),
         \A q \in Requests : LeaseSound(q, ls[q], attempts, ws)
  PROVE  /\ WorkersTyped(isolatedWorkers(ws, id))
         /\ isolatedLeases(ws, ls, id) \in [Requests -> LeaseRecord]
         /\ \A q \in Requests : isolatedLeases(ws, ls, id)[q] \in {ls[q], NoLease}
         /\ \A q \in Requests :
              LeaseSound(q, isolatedLeases(ws, ls, id)[q], attempts, isolatedWorkers(ws, id))
<1> DEFINE w == attempts[id].worker
           g == attempts[id].gen
           nws == isolatedWorkers(ws, id)
           nls == isolatedLeases(ws, ls, id)
<1>1. w \in Workers
  BY Parts, AttemptTyped
<1>2. CASE ~isCurrent(ws, w, g)
  BY <1>2 DEF isolatedWorkers, isolatedLeases, revokeGeneration, markStage
<1>3. CASE isCurrent(ws, w, g)
  <2>1. nws = [ws EXCEPT ![w].stage = "absent"]
    BY <1>3 DEF isolatedWorkers, revokeGeneration, markStage
  <2>2. nls = [q \in Requests |->
                 IF ls[q].id # 0 /\ attempts[ls[q].id].worker = w /\ attempts[ls[q].id].gen = g
                   THEN NoLease ELSE ls[q]]
    BY <1>3 DEF isolatedLeases, reclaimByWorkerGeneration
  <2> HIDE DEF nws, nls
  <2>3. WorkersTyped(nws)
    BY <1>1, <2>1 DEF WorkersTyped, WorkerStages
  <2>4. nls \in [Requests -> LeaseRecord] /\ \A q \in Requests : nls[q] \in {ls[q], NoLease}
    BY <2>2, NothingTyped
  <2>5. ASSUME NEW q \in Requests
        PROVE  LeaseSound(q, nls[q], attempts, nws)
    <3>1. CASE nls[q] = NoLease
      BY <3>1, NothingTyped DEF LeaseSound
    <3>2. CASE nls[q] = ls[q] /\ ls[q].id # 0
               /\ ~(attempts[ls[q].id].worker = w /\ attempts[ls[q].id].gen = g)
      <4>1. /\ ls[q].id \in DOMAIN attempts
            /\ attempts[ls[q].id].request = q
            /\ isCurrent(ws, attempts[ls[q].id].worker, attempts[ls[q].id].gen)
        BY <3>2 DEF LeaseSound
      <4>2. attempts[ls[q].id].worker \in Workers
        BY <4>1, Parts, AttemptTyped
      <4>3. attempts[ls[q].id].worker # w
        BY <1>3, <3>2, <4>1 DEF isCurrent
      <4>4. nws[attempts[ls[q].id].worker] = ws[attempts[ls[q].id].worker]
        BY <1>1, <2>1, <4>2, <4>3 DEF WorkersTyped
      <4> QED
        BY <3>2, <4>1, <4>4 DEF LeaseSound, isCurrent
    <3>3. CASE ls[q].id = 0
      BY <2>4, <3>3, NothingTyped DEF LeaseSound
    <3> QED
      BY <2>2, <3>1, <3>2, <3>3
  <2> QED
    BY <2>3, <2>4, <2>5 DEF nws, nls
<1> QED
  BY <1>2, <1>3

\* attempts' is attempts, or has one outcome changed.
LEMMA AttemptsAfter ==
  ASSUME IInv,
         \/ attempts' = attempts
         \/ \E id \in DOMAIN attempts, o \in Outcomes :
              attempts' = updateAttemptOutcome(attempts, id, o)
  PROVE  SameAttempts
<1>1. CASE attempts' = attempts
  BY <1>1, Parts DEF SameAttempts
<1>2. CASE \E id \in DOMAIN attempts, o \in Outcomes :
             attempts' = updateAttemptOutcome(attempts, id, o)
  <2>1. PICK id \in DOMAIN attempts, o \in Outcomes :
          attempts' = updateAttemptOutcome(attempts, id, o)
    BY <1>2
  <2> QED
    BY <2>1, Parts, OutcomeUpdated DEF SameAttempts
<1> QED
  BY <1>1, <1>2

\* Leases that were sound with ws, of which some were taken away, stay sound
\* when the step keeps attempts and the generations of ws.
LEMMA LeasesAfter ==
  ASSUME IInv, SameAttempts, NEW ws, GenerationsKept(ws, workers'), NEW ls,
         \A q \in Requests : LeaseSound(q, ls[q], attempts, ws),
         \A q \in Requests : leases'[q] \in {ls[q], NoLease}
  PROVE  LeasesSound'
<1>1. ASSUME NEW q \in Requests
      PROVE  LeaseSound(q, leases'[q], attempts', workers')
  <2>1. LeaseSound(q, leases'[q], attempts, ws)
    BY NothingTyped DEF LeaseSound
  <2> QED
    BY <2>1, Parts, LeaseStaysSound DEF SameAttempts
<1> QED
  BY <1>1 DEF LeasesSound

\* Only leases, workers and attempt outcomes change.
LEMMA LeaseStepSound ==
  ASSUME IInv, SameAttempts, WorkersTyped(workers'), LeasesSound',
         leases' \in [Requests -> LeaseRecord],
         \A q \in Requests : leases'[q] \in {leases[q], NoLease},
         UNCHANGED <<requests, results, cancellations, checkpoints>>
  PROVE  DurableSound
<1>1. RecordsTyped'
  BY Parts DEF RecordsTyped
<1>2. results' \in [Requests -> Nat]
      /\ cancellations' \in [Requests -> {"none", "requested", "acknowledged"}]
  BY DEF IInv, TypeOK
<1>3. ASSUME NEW q \in Requests
      PROVE  RecordSound(q, requests[q], leases[q], checkpoints[q])'
  <2>1. RecordSound(q, requests[q], leases[q], checkpoints[q])
    BY Parts
  <2>2. leases'[q] = leases[q] \/ leases'[q].id = 0
    BY NothingTyped
  <2> QED
    BY <2>1, <2>2 DEF RecordSound
<1> QED
  BY <1>1, <1>2, <1>3 DEF DurableSound, StaysSubmitted, RequestsSound

\* A request is settled, with ls and ws what the code before it left.
LEMMA FinalizeStepSound ==
  ASSUME IInv, SameAttempts, NEW r \in Requests,
         NEW ls \in [Requests -> LeaseRecord],
         \A q \in Requests : ls[q] \in {leases[q], NoLease},
         WorkersTyped(workers'), NEW ws, GenerationsKept(ws, workers'),
         \A q \in Requests : LeaseSound(q, ls[q], attempts, ws),
         NEW stage \in {"failed", "cancelled"}, NEW code \in ErrorCodes \cup {"none"},
         finalizeStage(r, requests[r], ls, stage, code),
         results' = results,
         cancellations' \in [Requests -> {"none", "requested", "acknowledged"}],
         \A q \in Requests \ {r} : cancellations'[q] = cancellations[q],
         cancellations'[r] # "none" =>
           cancellations[r] # "none" \/ requests'[r].stage = "cancelled"
  PROVE  DurableSound
<1>1. requests[r] \in RequestRecord /\ RecordSound(r, requests[r], leases[r], checkpoints[r])
  BY Parts DEF RecordsTyped
<1>2. RecordSound(r, requests[r], ls[r], checkpoints[r])
  BY <1>1, NothingTyped DEF RecordSound
<1>3. /\ RecordsTyped'
      /\ RecordSound(r, requests'[r], leases'[r], checkpoints'[r])
      /\ requests'[r].stage = "absent" <=> requests[r].stage = "absent"
      /\ leases'[r] \in {ls[r], NoLease}
      /\ OthersKept(r, ls)
  BY <1>1, <1>2, FinalizeStageEffect DEF IInv
<1>4. \A q \in Requests : leases'[q] \in {ls[q], NoLease}
  BY <1>3 DEF OthersKept
<1>5. LeasesSound'
  BY <1>4, LeasesAfter
<1>6. RecordSound(r, requests[r], leases[r], checkpoints[r])'
  BY <1>3 DEF RecordSound
<1> QED
  BY <1>3, <1>5, <1>6, OneRequestSound DEF OthersKept, IInv, TypeOK

\* A worker is isolated and nothing else happens.
LEMMA IsolationStepSound ==
  ASSUME IInv, NEW id \in DOMAIN attempts,
         workers' = isolatedWorkers(workers, id),
         leases' = isolatedLeases(workers, leases, id),
         UNCHANGED <<requests, results, cancellations, attempts, checkpoints>>
  PROVE  DurableSound
<1>1. SameAttempts
  BY AttemptsAfter
<1>2. /\ WorkersTyped(workers')
      /\ leases' \in [Requests -> LeaseRecord]
      /\ \A q \in Requests : leases'[q] \in {leases[q], NoLease}
      /\ \A q \in Requests : LeaseSound(q, leases'[q], attempts, workers')
  BY Parts, IsolationEffect DEF RecordsTyped
<1> QED
  BY <1>1, <1>2, LeaseStepSound DEF LeasesSound

\* Nothing durable changes.
LEMMA NothingStepSound ==
  ASSUME IInv,
         UNCHANGED <<requests, results, cancellations, attempts, leases, checkpoints, workers>>
  PROVE  DurableSound
<1>1. SameAttempts
  BY AttemptsAfter
<1>2. LeasesSound'
  BY Parts DEF LeasesSound
<1> QED
  BY <1>1, <1>2, Parts, LeaseStepSound DEF RecordsTyped, WorkersTyped

\* What acceptResult's first verdict says.
LEMMA FirstVerdictFacts ==
  ASSUME NEW id, NEW payload \in Payloads
  PROVE  LET v == FirstVerdict(id, payload)
             r == attempts[id].request
         IN /\ v \in Verdicts \cup {"validate"}
            /\ v # "accepted"
            /\ v = "committed" =>
                 /\ cancellations[r] = "none"
                 /\ attempts[id].segment = FinalSegment
                 /\ requests[r].stage = "running"
            /\ v = "validate" =>
                 payload \in CheckedPayloads /\ attempts[id].segment # FinalSegment
BY DEF FirstVerdict, isFinalSegment, CheckedPayloads, Verdicts

\* The first half of acceptResult keeps the durable state sound.
LEMMA FirstVerdictSound ==
  ASSUME IInv, NEW id \in DOMAIN attempts, NEW payload \in Payloads,
         ApplyFirstVerdict(id, FirstVerdict(id, payload)),
         cancellations' = cancellations
  PROVE  DurableSound
<1>0. attempts[id].request \in Requests
  BY Parts, AttemptTyped
<1> PICK r \in Requests : r = attempts[id].request
  BY <1>0
<1> DEFINE v == FirstVerdict(id, payload)
<1>1. r \in Requests /\ requests[r].stage # "absent" /\ id \in Nat \ {0}
  BY Parts, AttemptTyped DEF IInv
<1>2. /\ requests[r] \in RequestRecord
      /\ RecordSound(r, requests[r], leases[r], checkpoints[r])
      /\ cancellations \in [Requests -> {"none", "requested", "acknowledged"}]
      /\ results \in [Requests -> Nat]
  BY <1>1, Parts DEF RecordsTyped, IInv, TypeOK
<1>3. v = "committed" =>
        /\ cancellations[r] = "none"
        /\ attempts[id].segment = FinalSegment
        /\ requests[r].stage = "running"
  BY FirstVerdictFacts
<1>4. ApplyFirstVerdict(id, v)
  OBVIOUS
<1> HIDE DEF v
<1>5. CASE v = "committed"
  <2> DEFINE after == [requests[r] EXCEPT !.stage = "completed"]
  <2>1. after \in RequestRecord /\ after.stage = "completed"
    BY <1>2 DEF RequestRecord, REQUEST_STAGES
  <2>2. /\ results' = [results EXCEPT ![r] = id]
        /\ requests' = [requests EXCEPT ![r] = after]
        /\ leases' = [leases EXCEPT ![r] = NoLease]
        /\ attempts' = updateAttemptOutcome(attempts, id, "completed")
        /\ checkpoints' = [checkpoints EXCEPT ![r] = NoCheckpoints]
        /\ workers' = workers
    BY <1>4, <1>5 DEF ApplyFirstVerdict, reclaimByRequest
  <2> HIDE DEF after
  <2>3. SameAttempts
    BY <2>2, AttemptsAfter DEF Outcomes
  <2>4. /\ RecordsTyped'
        /\ results' \in [Requests -> Nat]
        /\ requests'[r] = after /\ leases'[r] = NoLease
        /\ checkpoints'[r] = NoCheckpoints /\ results'[r] = id
    BY <1>1, <1>2, <2>1, <2>2, Parts, NothingTyped DEF RecordsTyped
  <2>5. \A q \in Requests \ {r} :
          /\ requests'[q] = requests[q]
          /\ checkpoints'[q] = checkpoints[q]
          /\ results'[q] = results[q]
          /\ leases'[q] = leases[q]
    BY <1>1, <1>2, <2>2, Parts DEF RecordsTyped
  <2>6. RecordSound(r, requests[r], leases[r], checkpoints[r])'
    BY <1>1, <1>3, <1>5, <2>1, <2>4, NothingTyped DEF RecordSound, TERMINAL_STAGES
  <2>7. ResultSound(r)'
    BY <1>3, <1>5, <2>3, <2>4 DEF ResultSound, SameAttempts, AttemptsKept
  <2>8. LeasesSound'
    BY <2>2, <2>3, <2>4, <2>5, Parts, LeasesAfter
  <2> QED
    BY <1>1, <1>2, <2>1, <2>2, <2>3, <2>4, <2>5, <2>6, <2>7, <2>8, Parts, OneRequestSound
<1>6. CASE v \in {"duplicate", "conflict"}
  <2>1. /\ leases' = [leases EXCEPT ![r] = NoLease]
        /\ UNCHANGED <<results, requests, attempts, checkpoints, workers>>
    BY <1>4, <1>6 DEF ApplyFirstVerdict, reclaimByRequest
  <2>2. leases' \in [Requests -> LeaseRecord]
        /\ \A q \in Requests : leases'[q] \in {leases[q], NoLease}
    BY <2>1, Parts, NothingTyped DEF RecordsTyped
  <2>3. SameAttempts
    BY <2>1, AttemptsAfter
  <2>4. LeasesSound'
    BY <2>1, <2>2, <2>3, Parts, LeasesAfter
  <2> QED
    BY <1>2, <2>1, <2>2, <2>3, <2>4, Parts, LeaseStepSound
<1>7. CASE v = "cancelled"
  <2>1. /\ finalizeStage(r, requests[r], leases, "cancelled", "none")
        /\ UNCHANGED <<results, attempts, workers>>
    BY <1>4, <1>7 DEF ApplyFirstVerdict
  <2>2. SameAttempts
    BY <2>1, AttemptsAfter
  <2> QED
    BY <1>1, <1>2, <2>1, <2>2, Parts, FinalizeStepSound DEF RecordsTyped
<1>8. CASE v = "checkpoint-rejected"
  <2>1. /\ workers' = isolatedWorkers(workers, id)
        /\ leases' = isolatedLeases(workers, leases, id)
        /\ UNCHANGED <<results, requests, attempts, checkpoints>>
    BY <1>4, <1>8 DEF ApplyFirstVerdict
  <2> QED
    BY <2>1, IsolationStepSound
<1>9. CASE v \notin {"committed", "duplicate", "conflict", "cancelled", "checkpoint-rejected"}
  <2>1. UNCHANGED <<results, requests, attempts, checkpoints, workers, leases>>
    BY <1>4, <1>9 DEF ApplyFirstVerdict
  <2> QED
    BY <2>1, NothingStepSound
<1> QED
  BY <1>5, <1>6, <1>7, <1>8, <1>9

\* What acceptResult's second verdict says.
LEMMA SecondVerdictFacts ==
  ASSUME NEW id, NEW payload \in CheckedPayloads
  PROVE  LET v == SecondVerdict(id, payload)
         IN /\ v \in Verdicts
            /\ v \notin {"committed", "duplicate"}
            /\ v = "accepted" =>
                 payload \in Digests /\ requests[attempts[id].request].stage = "running"
<1>1. payload \notin {"invalid", "stale"} => payload \in Digests
  BY CoordinatorAssumption DEF CheckedPayloads, Payloads, AllFaults
<1> QED
  BY <1>1 DEF SecondVerdict, Verdicts

\* The attempt of an accepted checkpoint records outcome and output.
LEMMA OutputRecorded ==
  ASSUME IInv, NEW id \in DOMAIN attempts, NEW digest \in Digests,
         attempts' = [attempts EXCEPT ![id].outcome = "completed", ![id].output = digest]
  PROVE  SameAttempts
<1> DEFINE new == [attempts[id] EXCEPT !.outcome = "completed", !.output = digest]
<1>1. attempts[id] \in AttemptRecord /\ id \in 1 .. Len(attempts) /\ attempts \in Seq(AttemptRecord)
  BY Parts, AttemptTyped
<1>2. new \in AttemptRecord
  BY <1>1 DEF AttemptRecord
<1>3. attempts' = [attempts EXCEPT ![id] = new]
  OBVIOUS
<1>4. /\ new.request = attempts[id].request
      /\ new.worker = attempts[id].worker
      /\ new.gen = attempts[id].gen
      /\ new.segment = attempts[id].segment
  BY <1>1 DEF AttemptRecord
<1> HIDE DEF new
<1>5. /\ [attempts EXCEPT ![id] = new] \in Seq(AttemptRecord)
      /\ Len([attempts EXCEPT ![id] = new]) = Len(attempts)
      /\ \A j \in 1 .. Len(attempts) :
           [attempts EXCEPT ![id] = new][j] = IF j = id THEN new ELSE attempts[j]
  BY <1>1, <1>2, ExceptSeq
<1> QED
  BY <1>1, <1>3, <1>4, <1>5, LenProperties DEF SameAttempts, AttemptsKept

\* The second half of acceptResult keeps the durable state sound.
LEMMA SecondVerdictSound ==
  ASSUME IInv, NEW id \in DOMAIN attempts, NEW payload \in CheckedPayloads,
         ApplySecondVerdict(id, payload, SecondVerdict(id, payload)),
         UNCHANGED <<results, cancellations>>
  PROVE  DurableSound
<1>0. attempts[id].request \in Requests /\ attempts[id].segment \in Segments
  BY Parts, AttemptTyped
<1> PICK r \in Requests : r = attempts[id].request
  BY <1>0
<1> PICK s \in Segments : s = attempts[id].segment
  BY <1>0
<1> DEFINE v == SecondVerdict(id, payload)
<1>1. v = "accepted" => payload \in Digests /\ requests[r].stage = "running"
  BY SecondVerdictFacts
<1>2. /\ requests[r] \in RequestRecord
      /\ RecordSound(r, requests[r], leases[r], checkpoints[r])
      /\ cancellations \in [Requests -> {"none", "requested", "acknowledged"}]
      /\ results \in [Requests -> Nat]
  BY Parts DEF RecordsTyped, IInv, TypeOK
<1>3. ApplySecondVerdict(id, payload, v)
  OBVIOUS
<1> HIDE DEF v
<1>4. CASE v \in {"checkpoint-rejected", "checkpoint-conflict"}
  <2>1. /\ workers' = isolatedWorkers(workers, id)
        /\ leases' = isolatedLeases(workers, leases, id)
        /\ UNCHANGED <<requests, attempts, checkpoints>>
    BY <1>3, <1>4 DEF ApplySecondVerdict
  <2> QED
    BY <2>1, IsolationStepSound
<1>5. CASE v = "cancelled"
  <2>1. /\ finalizeStage(r, requests[r], leases, "cancelled", "none")
        /\ UNCHANGED <<attempts, workers>>
    BY <1>3, <1>5 DEF ApplySecondVerdict
  <2>2. SameAttempts
    BY <2>1, AttemptsAfter
  <2> QED
    BY <1>2, <2>1, <2>2, Parts, FinalizeStepSound DEF RecordsTyped
<1>6. CASE v = "accepted"
  <2>1. /\ checkpoints' =
             IF checkpoints[r][s].digest = "none"
               THEN [checkpoints EXCEPT ![r][s] = [digest |-> payload, expired |-> FALSE]]
               ELSE checkpoints
        /\ attempts' = [attempts EXCEPT ![id].outcome = "completed", ![id].output = payload]
        /\ leases' = reclaim(leases, r, id)
        /\ UNCHANGED <<requests, workers>>
    BY <1>3, <1>6 DEF ApplySecondVerdict
  <2>2. payload \in Digests /\ requests[r].stage = "running"
    BY <1>1, <1>6
  <2>3. SameAttempts
    BY <2>1, <2>2, OutputRecorded
  <2>4. leases' \in [Requests -> LeaseRecord]
        /\ \A q \in Requests : leases'[q] \in {leases[q], NoLease}
    BY <2>1, Parts, NothingTyped DEF RecordsTyped, reclaim, reclaimByRequest
  <2>5. checkpoints' \in [Requests -> [Segments -> CheckpointRecord]]
        /\ \A q \in Requests \ {r} : checkpoints'[q] = checkpoints[q]
    BY <2>1, <2>2, Parts DEF RecordsTyped, CheckpointRecord
  <2>6. LeasesSound'
    BY <2>1, <2>3, <2>4, Parts, LeasesAfter
  <2>7. RecordSound(r, requests[r], leases[r], checkpoints[r])'
    BY <1>2, <2>1, <2>2 DEF RecordSound, TERMINAL_STAGES
  <2> QED
    BY <1>2, <2>1, <2>3, <2>4, <2>5, <2>6, <2>7, Parts, OneRequestSound
       DEF RecordsTyped
<1>7. CASE v \notin {"checkpoint-rejected", "checkpoint-conflict", "cancelled", "accepted"}
  <2>1. UNCHANGED <<requests, attempts, checkpoints, workers, leases>>
    BY <1>3, <1>7 DEF ApplySecondVerdict
  <2> QED
    BY <2>1, NothingStepSound
<1> QED
  BY <1>4, <1>5, <1>6, <1>7

------------------------------------------------------------------------------
(* Runs: verdicts, failures and ends                                        *)

\* A step with sound durable effects that moves one run keeps the invariant.
LEMMA DurableRunKeeps ==
  ASSUME IInv, DurableSound, NEW c \in Coordinators, NEW r \in Requests,
         requests[r].stage # "absent",
         NEW run \in RunRecord, RunSound(r, run, attempts'), SetRun(c, r, run),
         OwnershipsTyped',
         UNCHANGED <<pushes, pushed, up>>
  PROVE  IInv'
<1>1. /\ runs' \in [Coordinators -> [Requests -> RunRecord]]
      /\ runs'[c][r] = run
      /\ \A d \in Coordinators, q \in Requests :
           runs'[d][q] = runs[d][q] \/ (d = c /\ q = r)
  BY SetRunEffect DEF IInv
<1>2. requests'[r].stage # "absent"
  BY DEF DurableSound, StaysSubmitted
<1> QED
  BY <1>1, <1>2, DurableKeeps DEF IInv, TypeOK

\* Marking a worker idle, busy or disconnected keeps every generation.
LEMMA MarkEffect ==
  ASSUME NEW ws, WorkersTyped(ws), NEW w, NEW g, NEW stage \in {"idle", "busy", "disconnected"}
  PROVE  /\ WorkersTyped(markStage(ws, w, g, stage))
         /\ GenerationsKept(ws, markStage(ws, w, g, stage))
BY DEF WorkersTyped, markStage, isCurrent, GenerationsKept, WorkerStages

\* The facts a run with an assignment comes with.
LEMMA AssignedFacts ==
  ASSUME IInv, NEW c \in Coordinators, NEW r \in Requests, Assigned(runs[c][r])
  PROVE  /\ runs[c][r] \in RunRecord
         /\ runs[c][r].id \in DOMAIN attempts
         /\ attempts[runs[c][r].id].request = r
         /\ attempts[runs[c][r].id].segment = runs[c][r].segment
         /\ RunSound(r, runs[c][r], attempts)
         /\ requests[r].stage # "absent"
         /\ WorkersTyped(IdleAgain(runs[c][r]))
         /\ GenerationsKept(workers, IdleAgain(runs[c][r]))
<1>1. runs[c][r] \in RunRecord /\ RunSound(r, runs[c][r], attempts)
  BY Parts DEF IInv
<1>2. requests[r].stage # "absent"
  BY DEF IInv, Assigned
<1> QED
  BY <1>1, <1>2, Parts, MarkEffect DEF RunSound, IdleAgain

\* A run's own result goes through the first half of acceptResult.
LEMMA ExecutorResolvesKeeps ==
  ASSUME IInv, NEW c \in Coordinators, NEW r \in Requests, ExecutorResolves(c, r)
  PROVE  IInv'
<1> PICK run \in RunRecord : run = runs[c][r]
  BY Parts
<1>1. /\ run.pc = "executing"
      /\ run.id \in DOMAIN attempts
      /\ attempts[run.id].request = r
      /\ attempts[run.id].segment = run.segment
      /\ requests[r].stage # "absent"
  BY AssignedFacts DEF ExecutorResolves, Assigned
<1>2. PICK payload \in Payloads :
        /\ ApplyFirstVerdict(run.id, FirstVerdict(run.id, payload))
        /\ SetRun(c, r, IF FirstVerdict(run.id, payload) = "validate"
                          THEN [run EXCEPT !.pc = "validating", !.arg = payload]
                          ELSE [run EXCEPT !.pc = "decided",
                                           !.arg = FirstVerdict(run.id, payload)])
  BY DEF ExecutorResolves
<1>3. DurableSound
  BY <1>1, <1>2, FirstVerdictSound DEF ExecutorResolves
<1>4. /\ run.id \in DOMAIN attempts'
      /\ attempts'[run.id].request = r
      /\ attempts'[run.id].segment = run.segment
  BY <1>1, <1>3 DEF DurableSound, SameAttempts, AttemptsKept
<1>5. CASE FirstVerdict(run.id, payload) = "validate"
  <2> DEFINE next == [run EXCEPT !.pc = "validating", !.arg = payload]
  <2>1. payload \in CheckedPayloads /\ run.segment # FinalSegment
    BY <1>1, <1>5, FirstVerdictFacts
  <2>2. next \in RunRecord /\ RunSound(r, next, attempts')
    BY <1>4, <2>1 DEF RunRecord, RunSound, Assigned
  <2> QED
    BY <1>1, <1>2, <1>3, <1>5, <2>2, DurableRunKeeps
       DEF ExecutorResolves, IInv, TypeOK, OwnershipsTyped
<1>6. CASE FirstVerdict(run.id, payload) # "validate"
  <2> DEFINE v == FirstVerdict(run.id, payload)
             next == [run EXCEPT !.pc = "decided", !.arg = v]
  <2>1. v \in Verdicts /\ v # "accepted"
    BY <1>6, FirstVerdictFacts
  <2> HIDE DEF v
  <2>2. next \in RunRecord /\ RunSound(r, next, attempts')
    BY <1>4, <2>1 DEF RunRecord, RunSound, Assigned
  <2>3. SetRun(c, r, next)
    BY <1>2, <1>6 DEF v
  <2> QED
    BY <1>1, <1>3, <2>2, <2>3, DurableRunKeeps
       DEF ExecutorResolves, IInv, TypeOK, OwnershipsTyped
<1> QED
  BY <1>5, <1>6

\* A run's own checkpoint goes through the second half.
LEMMA CheckpointValidatedKeeps ==
  ASSUME IInv, NEW c \in Coordinators, NEW r \in Requests, CheckpointValidated(c, r)
  PROVE  IInv'
<1> PICK run \in RunRecord : run = runs[c][r]
  BY Parts
<1> DEFINE v == SecondVerdict(run.id, run.arg)
           next == [run EXCEPT !.pc = "decided", !.arg = v]
<1>1. /\ run.pc = "validating"
      /\ run.id \in DOMAIN attempts
      /\ attempts[run.id].request = r
      /\ attempts[run.id].segment = run.segment
      /\ requests[r].stage # "absent"
      /\ run.arg \in CheckedPayloads /\ run.segment # FinalSegment
  BY AssignedFacts DEF CheckpointValidated, Assigned, RunSound
<1>2. ApplySecondVerdict(run.id, run.arg, v) /\ SetRun(c, r, next)
  BY DEF CheckpointValidated
<1>3. DurableSound
  BY <1>1, <1>2, SecondVerdictSound DEF CheckpointValidated
<1>4. v \in Verdicts
  BY <1>1, SecondVerdictFacts
<1> HIDE DEF v
<1>5. /\ run.id \in DOMAIN attempts'
      /\ attempts'[run.id].request = r
      /\ attempts'[run.id].segment = run.segment
  BY <1>1, <1>3 DEF DurableSound, SameAttempts, AttemptsKept
<1>6. next \in RunRecord /\ RunSound(r, next, attempts')
  BY <1>1, <1>4, <1>5 DEF RunRecord, RunSound, Assigned
<1> QED
  BY <1>1, <1>2, <1>3, <1>6, DurableRunKeeps
     DEF CheckpointValidated, IInv, TypeOK, OwnershipsTyped

\* Leases are as sound with the worker idle again.
LEMMA IdleLeases ==
  ASSUME IInv, NEW c \in Coordinators, NEW r \in Requests, Assigned(runs[c][r])
  PROVE  \A q \in Requests : LeaseSound(q, leases[q], attempts, IdleAgain(runs[c][r]))
BY AssignedFacts, Parts, LeaseStaysSound

\* The cursor advances and the next segment's loop begins.
LEMMA AdvanceSegmentKeeps ==
  ASSUME IInv, NEW c \in Coordinators, NEW r \in Requests, AdvanceSegment(c, r)
  PROVE  IInv'
<1> PICK run \in RunRecord : run = runs[c][r]
  BY Parts
<1> DEFINE next == run.segment + 1
           rec == [requests[r] EXCEPT !.stage = "queued", !.currentSegment = next]
           after == [run EXCEPT !.segment = next, !.attempt = 0, !.id = 0, !.arg = "none"]
<1>1. /\ run.pc = "decided" /\ Assigned(run)
      /\ run.segment # FinalSegment
      /\ requests[r].stage = "running"
      /\ LoopTurn(c, r, rec, leases, IdleAgain(run), after)
  BY AssignedFacts DEF AdvanceSegment, Assigned, RunSound
<1>2. next \in Segments
  BY <1>1, SegmentFacts DEF RunRecord
<1> HIDE DEF next
<1>3. requests[r] \in RequestRecord /\ RecordSound(r, requests[r], leases[r], checkpoints[r])
  BY Parts DEF RecordsTyped
<1>4. rec \in RequestRecord /\ rec.stage = "queued"
  BY <1>2, <1>3 DEF RequestRecord, REQUEST_STAGES
<1>5. RecordSound(r, rec, leases[r], checkpoints[r])
  BY <1>1, <1>3, <1>4 DEF RecordSound, TERMINAL_STAGES
<1>6. after \in RunRecord
  BY <1>2, SegmentFacts DEF RunRecord
<1>7. WorkersTyped(IdleAgain(run))
      /\ \A q \in Requests : LeaseSound(q, leases[q], attempts, IdleAgain(run))
  BY <1>1, AssignedFacts, IdleLeases
<1> HIDE DEF rec, after
<1>8. TurnSound(c, r, rec)
  BY <1>1, <1>4, <1>5, <1>6, <1>7, Parts, LoopTurnSound DEF RecordsTyped
<1> QED
  BY <1>8, TurnKeepsInvariant DEF AdvanceSegment, IInv, TypeOK

\* reclaimByRequest followed by finalizeStage.
LEMMA ReclaimedFinalizeSound ==
  ASSUME IInv, SameAttempts, NEW r \in Requests,
         WorkersTyped(workers'), GenerationsKept(workers, workers'),
         NEW code \in ErrorCodes,
         finalizeStage(r, requests[r], reclaimByRequest(leases, r), "failed", code),
         UNCHANGED <<results, cancellations>>
  PROVE  DurableSound
<1> DEFINE ls == reclaimByRequest(leases, r)
<1>1. /\ ls \in [Requests -> LeaseRecord]
      /\ \A q \in Requests : ls[q] \in {leases[q], NoLease}
  BY Parts, NothingTyped DEF reclaimByRequest, RecordsTyped
<1>2. \A q \in Requests : LeaseSound(q, ls[q], attempts, workers)
  BY <1>1, Parts, NothingTyped DEF LeaseSound
<1> HIDE DEF ls
<1>3. finalizeStage(r, requests[r], ls, "failed", code)
  BY DEF ls
<1> QED
  BY <1>1, <1>2, <1>3, FinalizeStepSound DEF IInv, TypeOK

\* A request that is no longer running stays settled, or fails.
LEMMA AdvanceRefusedKeeps ==
  ASSUME IInv, NEW c \in Coordinators, NEW r \in Requests, AdvanceRefused(c, r)
  PROVE  IInv'
<1> PICK run \in RunRecord : run = runs[c][r]
  BY Parts
<1>1. /\ Assigned(run) /\ run.id \in DOMAIN attempts /\ requests[r].stage # "absent"
      /\ workers' = IdleAgain(run)
      /\ WorkersTyped(workers') /\ GenerationsKept(workers, workers')
      /\ UNCHANGED <<results, cancellations, ownerships, pushes, pushed, up>>
  BY AssignedFacts DEF AdvanceRefused, Assigned
<1>2. CASE /\ SetRun(c, r, Ending(run, "StateTransitionViolation"))
           /\ UNCHANGED <<requests, leases, checkpoints, attempts>>
  <2>1. SameAttempts
    BY <1>2, AttemptsAfter
  <2>2. LeasesSound'
    BY <1>1, <1>2, <2>1, Parts, LeasesAfter
  <2>3. DurableSound
    BY <1>1, <1>2, <2>1, <2>2, Parts, LeaseStepSound DEF RecordsTyped
  <2>4. Ending(run, "StateTransitionViolation") \in RunRecord
        /\ RunSound(r, Ending(run, "StateTransitionViolation"), attempts')
    BY EndingSound DEF ErrorCodes
  <2> QED
    BY <1>1, <1>2, <2>3, <2>4, DurableRunKeeps DEF IInv, TypeOK, OwnershipsTyped
<1>3. CASE /\ attempts' = updateAttemptOutcome(attempts, run.id, "failed")
           /\ finalizeStage(r, requests[r], reclaimByRequest(leases, r),
                            "failed", "StateTransitionViolation")
           /\ SetRun(c, r, Ending(run, "return"))
  <2>1. SameAttempts
    BY <1>1, <1>3, AttemptsAfter DEF Outcomes
  <2>2. DurableSound
    BY <1>1, <1>3, <2>1, ReclaimedFinalizeSound DEF ErrorCodes
  <2>3. Ending(run, "return") \in RunRecord /\ RunSound(r, Ending(run, "return"), attempts')
    BY EndingSound
  <2> QED
    BY <1>1, <1>3, <2>2, <2>3, DurableRunKeeps DEF IInv, TypeOK, OwnershipsTyped
<1> QED
  BY <1>2, <1>3 DEF AdvanceRefused

\* A completed, duplicate or cancelled result ends the loop.
LEMMA ReturnVerdictKeeps ==
  ASSUME IInv, NEW c \in Coordinators, NEW r \in Requests, ReturnVerdict(c, r)
  PROVE  IInv'
<1> PICK run \in RunRecord : run = runs[c][r]
  BY Parts
<1>1. /\ Assigned(run) /\ run.id \in DOMAIN attempts /\ requests[r].stage # "absent"
      /\ workers' = IdleAgain(run)
      /\ WorkersTyped(workers') /\ GenerationsKept(workers, workers')
      /\ SetRun(c, r, Ending(run, "return"))
      /\ UNCHANGED <<results, cancellations, ownerships, pushes, pushed, up>>
  BY AssignedFacts DEF ReturnVerdict, Assigned
<1>2. ASSUME attempts' = updateAttemptOutcome(attempts, run.id, "cancelled"),
             finalizeStage(r, requests[r], leases, "cancelled", "none")
      PROVE  DurableSound
  <2>1. SameAttempts
    BY <1>1, <1>2, AttemptsAfter DEF Outcomes
  <2>2. leases \in [Requests -> LeaseRecord] /\ cancellations' = cancellations
    BY <1>1, Parts DEF RecordsTyped
  <2> QED
    BY <1>1, <1>2, <2>1, <2>2, Parts, FinalizeStepSound DEF IInv, TypeOK
<1>3. ASSUME UNCHANGED <<attempts, requests, leases, checkpoints>>
      PROVE  DurableSound
  <2>1. SameAttempts
    BY <1>3, AttemptsAfter
  <2>2. LeasesSound'
    BY <1>1, <1>3, <2>1, Parts, LeasesAfter
  <2> QED
    BY <1>1, <1>3, <2>1, <2>2, Parts, LeaseStepSound DEF RecordsTyped
<1>4. Ending(run, "return") \in RunRecord /\ RunSound(r, Ending(run, "return"), attempts')
  BY EndingSound
<1>5. DurableSound
  BY <1>2, <1>3 DEF ReturnVerdict
<1> QED
  BY <1>1, <1>4, <1>5, DurableRunKeeps DEF IInv, TypeOK, OwnershipsTyped

\* A refused result takes its worker's generation and fails the request.
LEMMA RejectVerdictKeeps ==
  ASSUME IInv, NEW c \in Coordinators, NEW r \in Requests, RejectVerdict(c, r)
  PROVE  IInv'
<1> PICK run \in RunRecord : run = runs[c][r]
  BY Parts
<1> DEFINE ws == IdleAgain(run)
           ls == isolatedLeases(ws, leases, run.id)
           code == acceptanceErrorCode(run.arg)
<1>1. /\ Assigned(run) /\ run.id \in DOMAIN attempts /\ requests[r].stage # "absent"
      /\ WorkersTyped(ws)
      /\ \A q \in Requests : LeaseSound(q, leases[q], attempts, ws)
  BY AssignedFacts, IdleLeases DEF RejectVerdict, Assigned
<1>2. /\ workers' = isolatedWorkers(ws, run.id)
      /\ attempts' = updateAttemptOutcome(attempts, run.id, "suppressed")
      /\ finalizeStage(r, requests[r], ls, "failed", code)
      /\ SetRun(c, r, Ending(run, "return"))
      /\ UNCHANGED <<results, cancellations, ownerships, pushes, pushed, up>>
  BY DEF RejectVerdict
<1>3. code \in ErrorCodes
  BY DEF acceptanceErrorCode, ErrorCodes
<1> HIDE DEF ws, code
<1>4. SameAttempts
  BY <1>1, <1>2, AttemptsAfter DEF Outcomes
<1>5. /\ WorkersTyped(workers')
      /\ ls \in [Requests -> LeaseRecord]
      /\ \A q \in Requests : ls[q] \in {leases[q], NoLease}
      /\ \A q \in Requests : LeaseSound(q, ls[q], attempts, workers')
  BY <1>1, <1>2, Parts, IsolationEffect DEF RecordsTyped
<1> HIDE DEF ls
<1>6. GenerationsKept(workers', workers') /\ cancellations' = cancellations
  BY <1>2 DEF GenerationsKept
<1>7. DurableSound
  BY <1>2, <1>3, <1>4, <1>5, <1>6, FinalizeStepSound DEF IInv, TypeOK
<1>8. Ending(run, "return") \in RunRecord /\ RunSound(r, Ending(run, "return"), attempts')
  BY EndingSound
<1> QED
  BY <1>1, <1>2, <1>7, <1>8, DurableRunKeeps DEF IInv, TypeOK, OwnershipsTyped

\* A failed execution is thrown on, retried, or fails the request.
LEMMA ExecutorFailsKeeps ==
  ASSUME IInv, NEW c \in Coordinators, NEW r \in Requests, ExecutorFails(c, r)
  PROVE  IInv'
<1> PICK run \in RunRecord : run = runs[c][r]
  BY Parts
<1> DEFINE rec == requests[r]
           ws == IdleAgain(run)
           ls == reclaimByRequest(leases, r)
           gone == markStage(ws, attempts[run.id].worker, attempts[run.id].gen, "disconnected")
           later == IF rec.stage = "running"
                      THEN [run EXCEPT !.pc = "delay", !.id = 0]
                      ELSE Ending(run, "StateTransitionViolation")
<1>1. /\ Assigned(run) /\ run.id \in DOMAIN attempts /\ requests[r].stage # "absent"
      /\ WorkersTyped(ws) /\ GenerationsKept(workers, ws)
      /\ UNCHANGED <<results, cancellations, ownerships, pushes, pushed, up>>
  BY AssignedFacts DEF ExecutorFails, Assigned
<1>2. WorkersTyped(gone) /\ GenerationsKept(workers, gone)
  BY <1>1, MarkEffect DEF GenerationsKept
<1>3. rec \in RequestRecord /\ RecordSound(r, rec, leases[r], checkpoints[r])
  BY Parts DEF RecordsTyped
<1>4. PICK kind \in {"transient", "permanent"} :
        \/ /\ workers' = ws
           /\ SetRun(c, r, Ending(run, kind))
           /\ UNCHANGED <<requests, leases, checkpoints, attempts>>
        \/ /\ mayRetry(run, rec, kind)
           /\ workers' = gone
           /\ leases' = ls
           /\ attempts' = updateAttemptOutcome(attempts, run.id, "failed")
           /\ requests' = [requests EXCEPT
                   ![r].retryCount = @ + 1,
                   ![r].stage = IF @ = "running" THEN "retry-wait" ELSE @]
           /\ SetRun(c, r, later)
           /\ UNCHANGED checkpoints
        \/ /\ workers' = ws
           /\ attempts' = updateAttemptOutcome(attempts, run.id, "failed")
           /\ finalizeStage(r, rec, ls, "failed", kind)
           /\ SetRun(c, r, Ending(run, "return"))
  BY DEF ExecutorFails
<1> HIDE DEF ws, gone
<1>5. CASE /\ workers' = ws
           /\ SetRun(c, r, Ending(run, kind))
           /\ UNCHANGED <<requests, leases, checkpoints, attempts>>
  <2>1. SameAttempts
    BY <1>5, AttemptsAfter
  <2>2. LeasesSound'
    BY <1>1, <1>5, <2>1, Parts, LeasesAfter
  <2>3. DurableSound
    BY <1>1, <1>5, <2>1, <2>2, Parts, LeaseStepSound DEF RecordsTyped
  <2>4. Ending(run, kind) \in RunRecord /\ RunSound(r, Ending(run, kind), attempts')
    BY EndingSound DEF ErrorCodes
  <2> QED
    BY <1>1, <1>5, <2>3, <2>4, DurableRunKeeps DEF IInv, TypeOK, OwnershipsTyped
<1>6. CASE /\ mayRetry(run, rec, kind)
           /\ workers' = gone
           /\ leases' = ls
           /\ attempts' = updateAttemptOutcome(attempts, run.id, "failed")
           /\ requests' = [requests EXCEPT
                   ![r].retryCount = @ + 1,
                   ![r].stage = IF @ = "running" THEN "retry-wait" ELSE @]
           /\ SetRun(c, r, later)
           /\ UNCHANGED checkpoints
  <2> DEFINE after == [rec EXCEPT !.retryCount = @ + 1,
                                  !.stage = IF @ = "running" THEN "retry-wait" ELSE @]
  <2>1. after \in RequestRecord
        /\ after.stage = IF rec.stage = "running" THEN "retry-wait" ELSE rec.stage
    <3>1. rec.retryCount \in 0 .. MaxRetries /\ rec.stage \in REQUEST_STAGES \cup {"absent"}
      BY <1>3 DEF RequestRecord
    <3>2. rec.retryCount + 1 \in 0 .. MaxRetries
      BY <1>6, <3>1, CoordinatorAssumption DEF mayRetry
    <3>3. (IF rec.stage = "running" THEN "retry-wait" ELSE rec.stage)
            \in REQUEST_STAGES \cup {"absent"}
      BY <3>1 DEF REQUEST_STAGES
    <3> QED
      BY <1>3, <3>2, <3>3 DEF RequestRecord
  <2>2. requests' = [requests EXCEPT ![r] = after]
    BY <1>6
  <2> HIDE DEF after
  <2>3. ls \in [Requests -> LeaseRecord] /\ ls[r] = NoLease
        /\ \A q \in Requests : ls[q] \in {leases[q], NoLease}
    BY Parts, NothingTyped DEF reclaimByRequest, RecordsTyped
  <2>4. SameAttempts
    BY <1>1, <1>6, AttemptsAfter DEF Outcomes
  <2>5. LeasesSound'
    BY <1>2, <1>6, <2>3, <2>4, Parts, LeasesAfter
  <2>6. RecordsTyped' /\ requests'[r] = after
        /\ \A q \in Requests \ {r} : requests'[q] = requests[q]
    BY <1>6, <2>1, <2>2, <2>3, Parts DEF RecordsTyped
  <2>7. RecordSound(r, after, NoLease, checkpoints[r])
    BY <1>3, <2>1, NothingTyped DEF RecordSound, TERMINAL_STAGES
  <2>8. RecordSound(r, requests[r], leases[r], checkpoints[r])'
    BY <1>1, <1>6, <2>3, <2>6, <2>7 DEF RecordSound
  <2>9. requests'[r].stage # "absent"
    BY <1>1, <2>1, <2>6
  <2>10. WorkersTyped(workers')
    BY <1>2, <1>6
  <2>11. DurableSound
    BY <1>1, <1>6, <2>3, <2>4, <2>5, <2>6, <2>8, <2>9, <2>10, OneRequestSound
       DEF IInv, TypeOK
  <2>12. later \in RunRecord /\ RunSound(r, later, attempts')
    <3>1. CASE rec.stage = "running"
      BY <3>1 DEF RunRecord, RunSound, Assigned
    <3>2. CASE rec.stage # "running"
      BY <3>2, EndingSound DEF ErrorCodes
    <3> QED
      BY <3>1, <3>2
  <2> QED
    BY <1>1, <1>6, <2>11, <2>12, DurableRunKeeps DEF IInv, TypeOK, OwnershipsTyped
<1>7. CASE /\ workers' = ws
           /\ attempts' = updateAttemptOutcome(attempts, run.id, "failed")
           /\ finalizeStage(r, rec, ls, "failed", kind)
           /\ SetRun(c, r, Ending(run, "return"))
  <2>1. SameAttempts
    BY <1>1, <1>7, AttemptsAfter DEF Outcomes
  <2>2. DurableSound
    BY <1>1, <1>7, <2>1, ReclaimedFinalizeSound DEF ErrorCodes
  <2>3. Ending(run, "return") \in RunRecord /\ RunSound(r, Ending(run, "return"), attempts')
    BY EndingSound
  <2> QED
    BY <1>1, <1>7, <2>2, <2>3, DurableRunKeeps DEF IInv, TypeOK, OwnershipsTyped
<1> QED
  BY <1>4, <1>5, <1>6, <1>7

\* An aborted execution only gives its worker back.
LEMMA ExecutionAbortedKeeps ==
  ASSUME IInv, NEW c \in Coordinators, NEW r \in Requests, ExecutionAborted(c, r)
  PROVE  IInv'
<1> PICK run \in RunRecord : run = runs[c][r]
  BY Parts
<1>1. /\ requests[r].stage # "absent"
      /\ WorkersTyped(workers') /\ GenerationsKept(workers, workers')
      /\ SetRun(c, r, Ending(run, "AbortError"))
      /\ UNCHANGED <<requests, results, cancellations, attempts, leases, checkpoints,
                     ownerships, pushes, pushed, up>>
  BY AssignedFacts DEF ExecutionAborted, Assigned
<1>2. SameAttempts
  BY <1>1, AttemptsAfter
<1>3. LeasesSound'
  BY <1>1, <1>2, Parts, LeasesAfter
<1>4. DurableSound
  BY <1>1, <1>2, <1>3, Parts, LeaseStepSound DEF RecordsTyped
<1>5. Ending(run, "AbortError") \in RunRecord
      /\ RunSound(r, Ending(run, "AbortError"), attempts')
  BY EndingSound
<1> QED
  BY <1>1, <1>4, <1>5, DurableRunKeeps DEF IInv, TypeOK, OwnershipsTyped

\* runRequest settles what is unsettled, acknowledges, and lets go.
LEMMA RunEndsKeeps ==
  ASSUME IInv, NEW c \in Coordinators, NEW r \in Requests, RunEnds(c, r)
  PROVE  IInv'
<1> PICK run \in RunRecord : run = runs[c][r]
  BY Parts
<1> DEFINE stage == Settlement(run)[1]
           code == Settlement(run)[2]
           acked == [cancellations EXCEPT ![r] = "acknowledged"]
<1>1. /\ run.pc = "ending" /\ requests[r].stage # "absent"
      /\ run.arg \in ErrorCodes \cup {"return", "AbortError"}
      /\ SetRun(c, r, NoRun)
      /\ UNCHANGED <<results, attempts, workers, pushes, pushed, up>>
  BY DEF RunEnds, IInv, RunSound
<1>2. \/ UNCHANGED <<requests, leases, checkpoints>>
      \/ finalizeStage(r, requests[r], leases, stage, code)
  BY DEF RunEnds
<1>3. \/ cancellations' = cancellations
      \/ requests'[r].stage = "cancelled" /\ cancellations' = acked
  BY DEF RunEnds, acknowledges
<1>4. stage \in {"failed", "cancelled"} /\ code \in ErrorCodes \cup {"none"}
  BY <1>1 DEF Settlement, ErrorCodes
<1> HIDE DEF stage, code
<1>5. /\ cancellations' \in [Requests -> {"none", "requested", "acknowledged"}]
      /\ \A q \in Requests \ {r} : cancellations'[q] = cancellations[q]
      /\ cancellations'[r] # "none" =>
           cancellations[r] # "none" \/ requests'[r].stage = "cancelled"
  BY <1>3 DEF IInv, TypeOK
<1>6. SameAttempts
  BY <1>1, AttemptsAfter
<1>7. DurableSound
  <2>1. CASE UNCHANGED <<requests, leases, checkpoints>>
    <3>1. RecordsTyped' /\ WorkersTyped(workers')
      BY <1>1, <2>1, Parts DEF RecordsTyped, WorkersTyped
    <3>2. RecordSound(r, requests[r], leases[r], checkpoints[r])'
      BY <1>1, <1>5, <2>1, Parts DEF RecordSound
    <3>3. LeasesSound'
      BY <1>1, <2>1, Parts DEF LeasesSound
    <3>4. results' \in [Requests -> Nat]
      BY <1>1 DEF IInv, TypeOK
    <3> QED
      BY <1>1, <1>5, <1>6, <2>1, <3>1, <3>2, <3>3, <3>4, OneRequestSound
  <2>2. CASE finalizeStage(r, requests[r], leases, stage, code)
    <3>1. WorkersTyped(workers') /\ GenerationsKept(workers, workers')
      BY <1>1, Parts
    <3>2. leases \in [Requests -> LeaseRecord]
      BY Parts DEF RecordsTyped
    <3> QED
      BY <1>1, <1>4, <1>5, <1>6, <2>2, <3>1, <3>2, Parts, FinalizeStepSound
  <2> QED
    BY <1>2, <2>1, <2>2
<1>8. OwnershipsTyped'
  BY DEF RunEnds, OwnershipsTyped, IInv, TypeOK, NoClaim
<1>9. NoRun \in RunRecord /\ RunSound(r, NoRun, attempts')
  BY NewRunTyped, SegmentFacts DEF RunSound, Assigned, NoRun
<1> QED
  BY <1>1, <1>7, <1>8, <1>9, DurableRunKeeps

\* The run after an abort: what it refers to is the same, and it rests where it
\* did, or at the rejection of its execution.
AbortedFrom(run, old) ==
  /\ run.id = old.id /\ run.segment = old.segment /\ run.arg = old.arg
  /\ run.pc = old.pc \/ (old.pc = "executing" /\ run.pc = "rejecting")

\* Aborting a run's signal, by a timer or a call, leaves such a run.
LEMMA AbortTyped ==
  ASSUME NEW run \in RunRecord, NEW kind \in {"user", "deadline", "recovery-ownership"}
  PROVE  \A new \in AbortByCall(run, kind) \cup {[Abort(run, kind) EXCEPT !.lost = TRUE]} :
           new \in RunRecord /\ AbortedFrom(new, run)
<1> DEFINE pc == IF run.pc = "executing" THEN "rejecting" ELSE run.pc
<1>1. Abort(run, kind) = [run EXCEPT !.pc = pc, !.aborted = TRUE, !.cancelKind = kind]
  BY DEF Abort
<1>2. pc \in {"none", "sleep", "delay", "executing", "rejecting", "validating", "decided",
              "ending"}
  BY DEF RunRecord
<1>3. pc = run.pc \/ (run.pc = "executing" /\ pc = "rejecting")
  OBVIOUS
<1> HIDE DEF pc
<1>4. Abort(run, kind) \in RunRecord /\ AbortedFrom(Abort(run, kind), run)
  BY <1>1, <1>2, <1>3 DEF RunRecord, AbortedFrom
<1>5. [Abort(run, kind) EXCEPT !.lost = TRUE] \in RunRecord
      /\ AbortedFrom([Abort(run, kind) EXCEPT !.lost = TRUE], run)
  BY <1>4 DEF RunRecord, AbortedFrom
<1>6. [run EXCEPT !.aborted = TRUE, !.cancelKind = kind] \in RunRecord
      /\ AbortedFrom([run EXCEPT !.aborted = TRUE, !.cancelKind = kind], run)
  BY DEF RunRecord, AbortedFrom
<1> QED
  BY <1>4, <1>5, <1>6 DEF AbortByCall

\* An aborted run is as sound as the run before.
LEMMA AbortSound ==
  ASSUME IInv, SameAttempts, NEW c \in Coordinators, NEW r \in Requests,
         NEW run \in RunRecord, AbortedFrom(run, runs[c][r])
  PROVE  RunSound(r, run, attempts')
<1>1. RunSound(r, runs[c][r], attempts)
  BY DEF IInv
<1> QED
  BY <1>1 DEF RunSound, Assigned, SameAttempts, AttemptsKept, AbortedFrom

\* A step that only aborts one run keeps the invariant.
LEMMA AbortKeeps ==
  ASSUME IInv, NEW c \in Coordinators, NEW r \in Requests, runs[c][r].pc # "none",
         NEW run \in RunRecord, AbortedFrom(run, runs[c][r]),
         SetRun(c, r, run), OwnershipsTyped',
         UNCHANGED <<requests, results, cancellations, attempts, leases, checkpoints,
                     workers, pushes, pushed, up>>
  PROVE  IInv'
<1>1. SameAttempts
  BY AttemptsAfter
<1>2. RunSound(r, run, attempts')
  BY <1>1, AbortSound
<1>3. RunSound(r, run, attempts)
  BY <1>2
<1>4. requests[r].stage # "absent"
  BY DEF IInv
<1> QED
  BY <1>3, <1>4, RunMoveKeeps

\* The submitter's signal aborts its run.
LEMMA CallerAbortsKeeps ==
  ASSUME IInv, NEW c \in Coordinators, NEW r \in Requests, CallerAborts(c, r)
  PROVE  IInv'
<1> PICK run \in RunRecord : run = runs[c][r]
  BY Parts
<1>1. run.pc # "none" /\ run.cancelKind \in {"user", "deadline", "recovery-ownership"}
  BY DEF CallerAborts, InRequest, RunRecord
<1>2. PICK new \in AbortByCall(run, run.cancelKind) : SetRun(c, r, new)
  BY DEF CallerAborts
<1>3. new \in RunRecord /\ AbortedFrom(new, run)
  BY <1>1, AbortTyped
<1>4. OwnershipsTyped'
  BY DEF CallerAborts, durable, OwnershipsTyped, IInv, TypeOK
<1> QED
  BY <1>1, <1>2, <1>3, <1>4, AbortKeeps DEF CallerAborts, durable

\* So does the deadline timer.
LEMMA DeadlineTimerKeeps ==
  ASSUME IInv, NEW c \in Coordinators, NEW r \in Requests, DeadlineTimer(c, r)
  PROVE  IInv'
<1> PICK run \in RunRecord : run = runs[c][r]
  BY Parts
<1> DEFINE new == Abort(run, "deadline")
<1>1. run.pc # "none" /\ SetRun(c, r, new)
  BY DEF DeadlineTimer, Interruptible
<1>2. new \in RunRecord /\ AbortedFrom(new, run)
  BY AbortTyped DEF AbortByCall
<1>3. OwnershipsTyped'
  BY DEF DeadlineTimer, durable, OwnershipsTyped, IInv, TypeOK
<1> QED
  BY <1>1, <1>2, <1>3, AbortKeeps DEF DeadlineTimer, durable

\* Renewal moves the claim, or aborts a run that lost it.
LEMMA RenewOwnershipKeeps ==
  ASSUME IInv, NEW c \in Coordinators, NEW r \in Requests, RenewOwnership(c, r)
  PROVE  IInv'
<1> PICK run \in RunRecord : run = runs[c][r]
  BY Parts
<1> DEFINE kind == IF run.aborted THEN run.cancelKind ELSE "recovery-ownership"
           new == [Abort(run, kind) EXCEPT !.lost = TRUE]
<1>1. run.pc # "none"
  BY DEF RenewOwnership, Interruptible
<1>2. \/ SetRun(c, r, new) /\ UNCHANGED ownerships
      \/ /\ ownerships' = [ownerships EXCEPT ![r] = [owner |-> c, live |-> TRUE]]
         /\ UNCHANGED runs
  BY DEF RenewOwnership
<1>3. kind \in {"user", "deadline", "recovery-ownership"}
  BY DEF RunRecord
<1> HIDE DEF kind
<1>4. new \in RunRecord /\ AbortedFrom(new, run)
  BY <1>3, AbortTyped
<1> HIDE DEF new
<1>5. OwnershipsTyped'
  <2>1. [owner |-> c, live |-> TRUE] \in [owner : Coordinators \cup {NoOwner}, live : BOOLEAN]
    OBVIOUS
  <2>2. ownerships \in [Requests -> [owner : Coordinators \cup {NoOwner}, live : BOOLEAN]]
    BY DEF IInv, TypeOK
  <2>3. CASE UNCHANGED ownerships
    BY <2>2, <2>3 DEF OwnershipsTyped
  <2>4. CASE ownerships' = [ownerships EXCEPT ![r] = [owner |-> c, live |-> TRUE]]
    BY <2>1, <2>2, <2>4 DEF OwnershipsTyped
  <2> QED
    BY <1>2, <2>3, <2>4
<1>6. CASE SetRun(c, r, new)
  BY <1>1, <1>4, <1>5, <1>6, AbortKeeps DEF RenewOwnership
<1>7. CASE UNCHANGED runs
  <2>1. DurableSound
    BY NothingStepSound DEF RenewOwnership
  <2> QED
    BY <1>5, <1>7, <2>1, DurableKeeps DEF RenewOwnership, IInv, TypeOK
<1> QED
  BY <1>2, <1>6, <1>7

\* A recovery waiter that is aborted goes away.
LEMMA RecoverySleepAbortedKeeps ==
  ASSUME IInv, NEW c \in Coordinators, NEW r \in Requests, RecoverySleepAborted(c, r)
  PROVE  IInv'
<1>1. NoRun \in RunRecord /\ RunSound(r, NoRun, attempts)
  BY NewRunTyped, SegmentFacts DEF RunSound, Assigned, NoRun
<1>2. requests[r].stage # "absent"
  BY DEF RecoverySleepAborted, IInv
<1>3. OwnershipsTyped'
  BY DEF RecoverySleepAborted, durable, OwnershipsTyped, IInv, TypeOK
<1> QED
  BY <1>1, <1>2, <1>3, RunMoveKeeps DEF RecoverySleepAborted, durable

\* cancel settles the request and records the cancellation in one step.
LEMMA CancelKeeps ==
  ASSUME IInv, NEW c \in Coordinators, NEW r \in Requests, Cancel(c, r)
  PROVE  IInv'
<1> PICK run \in RunRecord : run = runs[c][r]
  BY Parts
<1>1. /\ requests[r] \in RequestRecord
      /\ requests[r].stage \in REQUEST_STAGES \ {"completed", "failed"}
      /\ RecordSound(r, requests[r], leases[r], checkpoints[r])
      /\ finalizeStage(r, requests[r], leases, "cancelled", "none")
      /\ UNCHANGED <<results, ownerships, workers, pushes, pushed, up>>
  BY Parts DEF Cancel, RecordsTyped
<1>2. PICK record \in {"none", "requested", "acknowledged"} :
        cancellations' = [cancellations EXCEPT ![r] = record]
  <2>1. cancellations[r] \in {"none", "requested", "acknowledged"}
    BY DEF IInv, TypeOK
  <2> QED
    BY <2>1 DEF Cancel
<1>3. requests'[r].stage = "cancelled"
  <2>1. leases \in [Requests -> LeaseRecord]
    BY Parts DEF RecordsTyped
  <2>2. /\ requests[r].stage \in TERMINAL_STAGES => requests'[r].stage = requests[r].stage
        /\ requests[r].stage \notin TERMINAL_STAGES \cup {"absent"} =>
             requests'[r].stage = "cancelled"
    BY <1>1, <2>1, FinalizeStageEffect DEF IInv
  <2> QED
    BY <1>1, <2>2 DEF REQUEST_STAGES, TERMINAL_STAGES
<1>4. SameAttempts
  <2>1. isActive(leases, r) => leases[r].id \in DOMAIN attempts
    BY Parts DEF isActive, LeaseSound
  <2> QED
    BY <2>1, AttemptsAfter DEF Cancel, Outcomes
<1>5. DurableSound
  <2>1. leases \in [Requests -> LeaseRecord] /\ WorkersTyped(workers')
        /\ GenerationsKept(workers, workers')
    BY <1>1, Parts DEF RecordsTyped
  <2>2. /\ cancellations' \in [Requests -> {"none", "requested", "acknowledged"}]
        /\ \A q \in Requests \ {r} : cancellations'[q] = cancellations[q]
    BY <1>2 DEF IInv, TypeOK
  <2> QED
    BY <1>1, <1>3, <1>4, <2>1, <2>2, Parts, FinalizeStepSound
<1>6. OwnershipsTyped'
  BY <1>1 DEF OwnershipsTyped, IInv, TypeOK
<1>7. CASE run.pc # "none"
  <2>1. PICK new \in AbortByCall(run, "user") : SetRun(c, r, new)
    BY <1>7 DEF Cancel
  <2>2. new \in RunRecord /\ AbortedFrom(new, run)
    BY AbortTyped
  <2>3. RunSound(r, new, attempts')
    BY <1>4, <2>2, AbortSound
  <2>4. requests[r].stage # "absent"
    BY <1>7 DEF IInv
  <2> QED
    BY <1>1, <1>5, <1>6, <2>1, <2>2, <2>3, <2>4, DurableRunKeeps
<1>8. CASE run.pc = "none"
  <2>1. UNCHANGED runs
    BY <1>8 DEF Cancel
  <2> QED
    BY <1>1, <1>5, <1>6, <2>1, DurableKeeps DEF IInv, TypeOK
<1> QED
  BY <1>7, <1>8

------------------------------------------------------------------------------
(* Pushes, workers, clocks and crashes                                      *)

\* A step that leaves runs and claims alone, and pushes as they are or fewer.
LEMMA OutsideKeeps ==
  ASSUME IInv, DurableSound,
         UNCHANGED <<ownerships, runs, up>>,
         pushes' \subseteq pushes,
         pushed' \in Nat
  PROVE  IInv'
<1>1. OwnershipsTyped'
  BY DEF OwnershipsTyped, IInv, TypeOK
<1> QED
  BY <1>1, DurableKeeps DEF IInv, TypeOK

\* A pushed result goes through the first half of acceptResult.
LEMMA PushResultKeeps ==
  ASSUME IInv, NEW c \in Coordinators, NEW id \in DOMAIN attempts, PushResult(c, id)
  PROVE  IInv'
<1>1. PICK payload \in Payloads :
        /\ ApplyFirstVerdict(id, FirstVerdict(id, payload))
        /\ pushes' = IF FirstVerdict(id, payload) = "validate"
                       THEN pushes \cup {[coordinator |-> c, id |-> id, payload |-> payload]}
                       ELSE pushes
  BY DEF PushResult
<1>2. DurableSound
  BY <1>1, FirstVerdictSound DEF PushResult
<1>3. id \in Nat /\ pushed' \in Nat
  BY Parts, AttemptTyped DEF PushResult, IInv, TypeOK
<1>4. CASE FirstVerdict(id, payload) = "validate"
  <2> DEFINE p == [coordinator |-> c, id |-> id, payload |-> payload]
  <2>1. payload \in CheckedPayloads /\ attempts[id].segment # FinalSegment
    BY <1>4, FirstVerdictFacts
  <2>2. id \in DOMAIN attempts' /\ attempts'[id].segment = attempts[id].segment
    BY <1>2 DEF DurableSound, SameAttempts, AttemptsKept
  <2>3. PushSound(p, attempts')
    BY <2>1, <2>2 DEF PushSound
  <2>4. p \in [coordinator : Coordinators, id : Nat, payload : Payloads]
    BY <1>3
  <2>5. pushes' = pushes \cup {p}
    BY <1>1, <1>4
  <2> HIDE DEF p
  <2>6. OwnershipsTyped'
    BY DEF PushResult, OwnershipsTyped, IInv, TypeOK
  <2> QED
    BY <1>2, <1>3, <2>3, <2>4, <2>5, <2>6, DurableKeeps DEF PushResult, IInv, TypeOK
<1>5. CASE FirstVerdict(id, payload) # "validate"
  BY <1>1, <1>2, <1>3, <1>5, OutsideKeeps DEF PushResult
<1> QED
  BY <1>4, <1>5

\* A pushed checkpoint that has been verified goes through the second half.
LEMMA PushValidatedKeeps ==
  ASSUME IInv, NEW p \in pushes, PushValidated(p)
  PROVE  IInv'
<1>1. p.id \in DOMAIN attempts /\ p.payload \in CheckedPayloads
  BY DEF IInv, PushSound
<1>2. DurableSound
  BY <1>1, SecondVerdictSound DEF PushValidated
<1> QED
  BY <1>2, OutsideKeeps DEF PushValidated, IInv, TypeOK

\* A pushed failure takes the lease, and with isolation the generation.
LEMMA PushFailureKeeps ==
  ASSUME IInv, NEW c \in Coordinators, NEW id \in DOMAIN attempts, PushFailure(c, id)
  PROVE  IInv'
<1>1. attempts[id].request \in Requests
  BY Parts, AttemptTyped
<1> PICK r \in Requests : r = attempts[id].request
  BY <1>1
<1>2. UNCHANGED <<results, cancellations, ownerships, runs, pushes, up>> /\ pushed' \in Nat
  BY DEF PushFailure, IInv, TypeOK
<1>3. CASE /\ attempts' = updateAttemptOutcome(attempts, id, "cancelled")
           /\ finalizeStage(r, requests[r], leases, "cancelled", "none")
           /\ UNCHANGED workers
  <2>1. SameAttempts
    BY <1>3, AttemptsAfter DEF Outcomes
  <2>2. leases \in [Requests -> LeaseRecord] /\ WorkersTyped(workers')
        /\ GenerationsKept(workers, workers')
    BY <1>3, Parts DEF RecordsTyped
  <2>3. /\ cancellations' \in [Requests -> {"none", "requested", "acknowledged"}]
        /\ \A q \in Requests \ {r} : cancellations'[q] = cancellations[q]
    BY <1>2 DEF IInv, TypeOK
  <2>4. DurableSound
    BY <1>2, <1>3, <2>1, <2>2, <2>3, Parts, FinalizeStepSound
  <2> QED
    BY <1>2, <2>4, OutsideKeeps
<1>4. CASE \E isolatable \in BOOLEAN :
             /\ attempts' = updateAttemptOutcome(attempts, id, "failed")
             /\ leases' = IF isolatable
                            THEN isolatedLeases(workers, reclaimByRequest(leases, r), id)
                            ELSE reclaimByRequest(leases, r)
             /\ workers' = IF isolatable THEN isolatedWorkers(workers, id) ELSE workers
             /\ UNCHANGED <<requests, checkpoints>>
  <2> DEFINE ls == reclaimByRequest(leases, r)
  <2>1. /\ ls \in [Requests -> LeaseRecord]
        /\ \A q \in Requests : ls[q] \in {leases[q], NoLease}
    BY Parts, NothingTyped DEF reclaimByRequest, RecordsTyped
  <2>2. \A q \in Requests : LeaseSound(q, ls[q], attempts, workers)
    BY <2>1, Parts, NothingTyped DEF LeaseSound
  <2> HIDE DEF ls
  <2>3. SameAttempts
    BY <1>4, AttemptsAfter DEF Outcomes
  <2>4. /\ WorkersTyped(workers')
        /\ leases' \in [Requests -> LeaseRecord]
        /\ \A q \in Requests : leases'[q] \in {ls[q], NoLease}
        /\ \A q \in Requests : LeaseSound(q, leases'[q], attempts, workers')
    <3>1. CASE leases' = ls /\ workers' = workers
      BY <2>1, <2>2, <3>1, Parts DEF WorkersTyped
    <3>2. CASE leases' = isolatedLeases(workers, ls, id)
               /\ workers' = isolatedWorkers(workers, id)
      BY <2>1, <2>2, <3>2, Parts, IsolationEffect
    <3> QED
      BY <1>4, <3>1, <3>2 DEF ls
  <2>5. GenerationsKept(workers', workers')
    BY DEF GenerationsKept
  <2>6. LeasesSound'
    BY <2>3, <2>4, <2>5, LeasesAfter
  <2>7. DurableSound
    BY <1>2, <1>4, <2>1, <2>3, <2>4, <2>6, LeaseStepSound
  <2> QED
    BY <1>2, <2>7, OutsideKeeps
<1> QED
  BY <1>3, <1>4 DEF PushFailure

\* Only workers and leases change.
LEMMA WorkerStepKeeps ==
  ASSUME IInv, WorkersTyped(workers'),
         leases' \in [Requests -> LeaseRecord],
         \A q \in Requests : leases'[q] \in {leases[q], NoLease},
         \A q \in Requests : LeaseSound(q, leases'[q], attempts, workers'),
         UNCHANGED <<requests, results, cancellations, attempts, checkpoints, ownerships,
                     runs, pushes, pushed, up>>
  PROVE  IInv'
<1>1. SameAttempts
  BY AttemptsAfter
<1>2. LeasesSound'
  BY DEF LeasesSound
<1>3. DurableSound
  BY <1>1, <1>2, LeaseStepSound
<1> QED
  BY <1>3, OutsideKeeps DEF IInv, TypeOK

\* Taking away the leases of a worker's current generation leaves leases that
\* are sound whatever becomes of that worker.
LEMMA GenerationReclaimed ==
  ASSUME IInv, NEW w \in Workers, NEW new, WorkersTyped(new),
         \A v \in Workers \ {w} : new[v] = workers[v],
         leases' = reclaimByWorkerGeneration(leases, attempts, w, workers[w].gen),
         workers' = new,
         UNCHANGED <<requests, results, cancellations, attempts, checkpoints, ownerships,
                     runs, pushes, pushed, up>>
  PROVE  IInv'
<1>1. leases \in [Requests -> LeaseRecord]
  BY Parts DEF RecordsTyped
<1>2. leases' = [q \in Requests |->
        IF leases[q].id # 0 /\ attempts[leases[q].id].worker = w
             /\ attempts[leases[q].id].gen = workers[w].gen
          THEN NoLease ELSE leases[q]]
  BY <1>1 DEF reclaimByWorkerGeneration
<1>3. leases' \in [Requests -> LeaseRecord]
      /\ \A q \in Requests : leases'[q] \in {leases[q], NoLease}
  BY <1>1, <1>2, NothingTyped
<1>4. ASSUME NEW q \in Requests
      PROVE  LeaseSound(q, leases'[q], attempts, workers')
  <2>1. CASE leases'[q] = NoLease
    BY <2>1, NothingTyped DEF LeaseSound
  <2>2. CASE leases'[q] = leases[q] /\ leases[q].id # 0
             /\ ~(attempts[leases[q].id].worker = w /\ attempts[leases[q].id].gen = workers[w].gen)
    <3>1. /\ leases[q].id \in DOMAIN attempts
          /\ attempts[leases[q].id].request = q
          /\ isCurrent(workers, attempts[leases[q].id].worker, attempts[leases[q].id].gen)
      BY <2>2, Parts DEF LeaseSound
    <3>2. attempts[leases[q].id].worker \in Workers \ {w}
      BY <2>2, <3>1, Parts, AttemptTyped DEF isCurrent
    <3> QED
      BY <2>2, <3>1, <3>2 DEF LeaseSound, isCurrent
  <2>3. CASE leases[q].id = 0
    BY <1>3, <2>3, NothingTyped DEF LeaseSound
  <2> QED
    BY <1>2, <2>1, <2>2, <2>3
<1> QED
  BY <1>3, <1>4, WorkerStepKeeps

\* A new connection: a new generation, and nothing left of the old one's leases.
LEMMA RegisterWorkerKeeps ==
  ASSUME IInv, NEW w \in Workers, RegisterWorker(w)
  PROVE  IInv'
<1>1. WorkersTyped(connect(workers, w))
      /\ \A v \in Workers \ {w} : connect(workers, w)[v] = workers[v]
  BY Parts DEF WorkersTyped, connect, WorkerStages
<1>2. CASE workers[w].stage # "absent"
  BY <1>1, <1>2, GenerationReclaimed DEF RegisterWorker
<1>3. CASE workers[w].stage = "absent"
  <2>1. leases' = leases /\ workers' = connect(workers, w)
    BY <1>3 DEF RegisterWorker
  <2>2. ASSUME NEW q \in Requests, leases[q].id # 0
        PROVE  LeaseSound(q, leases[q], attempts, workers')
    <3>1. /\ leases[q].id \in DOMAIN attempts
          /\ attempts[leases[q].id].request = q
          /\ isCurrent(workers, attempts[leases[q].id].worker, attempts[leases[q].id].gen)
      BY <2>2, Parts DEF LeaseSound
    <3>2. attempts[leases[q].id].worker \in Workers \ {w}
      BY <1>3, <3>1, Parts, AttemptTyped DEF isCurrent
    <3> QED
      BY <1>1, <2>1, <3>1, <3>2 DEF LeaseSound, isCurrent
  <2>3. \A q \in Requests : LeaseSound(q, leases'[q], attempts, workers')
    BY <2>1, <2>2 DEF LeaseSound
  <2> QED
    BY <1>1, <2>1, <2>3, Parts, WorkerStepKeeps DEF RegisterWorker, RecordsTyped
<1> QED
  BY <1>2, <1>3

\* A heartbeat changes a worker's stage only.
LEMMA WorkerHeartbeatKeeps ==
  ASSUME IInv, NEW w \in Workers, WorkerHeartbeat(w)
  PROVE  IInv'
<1>1. WorkersTyped(workers') /\ GenerationsKept(workers, workers')
  BY Parts DEF WorkerHeartbeat, heartbeat, WorkersTyped, GenerationsKept, WorkerStages
<1>2. \A q \in Requests : LeaseSound(q, leases[q], attempts, workers')
  BY <1>1, Parts, LeaseStaysSound
<1> QED
  BY <1>1, <1>2, Parts, WorkerStepKeeps DEF WorkerHeartbeat, RecordsTyped

\* The heartbeat monitor gives up on a worker.
LEMMA HeartbeatTimeoutKeeps ==
  ASSUME IInv, NEW w \in Workers, HeartbeatTimeout(w)
  PROVE  IInv'
<1> DEFINE new == markStage(workers, w, workers[w].gen, "disconnected")
<1>1. WorkersTyped(new) /\ \A v \in Workers \ {w} : new[v] = workers[v]
  BY Parts DEF WorkersTyped, markStage, WorkerStages
<1> QED
  BY <1>1, GenerationReclaimed DEF HeartbeatTimeout

\* A worker is removed.
LEMMA RemoveWorkerKeeps ==
  ASSUME IInv, NEW w \in Workers, RemoveWorker(w)
  PROVE  IInv'
<1> DEFINE new == revokeGeneration(workers, w, workers[w].gen)
<1>1. WorkersTyped(new) /\ \A v \in Workers \ {w} : new[v] = workers[v]
  BY Parts DEF WorkersTyped, revokeGeneration, markStage, WorkerStages
<1> QED
  BY <1>1, GenerationReclaimed DEF RemoveWorker

\* A deadline passes: the request's record changes, its stage does not.
LEMMA DeadlinePassesKeeps ==
  ASSUME IInv, NEW r \in Requests, DeadlinePasses(r)
  PROVE  IInv'
<1> DEFINE after == [requests[r] EXCEPT !.deadline = "passed"]
<1>1. after \in RequestRecord /\ after.stage = requests[r].stage
  BY Parts DEF RecordsTyped, RequestRecord
<1>2. requests' = [requests EXCEPT ![r] = after]
  BY DEF DeadlinePasses
<1> HIDE DEF after
<1>3. RecordsTyped' /\ requests'[r] = after
      /\ \A q \in Requests \ {r} : requests'[q] = requests[q]
  BY <1>1, <1>2, Parts DEF RecordsTyped, DeadlinePasses
<1>4. RecordSound(r, requests[r], leases[r], checkpoints[r])'
  BY <1>1, <1>3, Parts DEF RecordSound, DeadlinePasses
<1>5. SameAttempts
  BY AttemptsAfter DEF DeadlinePasses
<1>6. LeasesSound' /\ WorkersTyped(workers')
  BY Parts DEF LeasesSound, WorkersTyped, DeadlinePasses
<1>7. DurableSound
  BY <1>1, <1>3, <1>4, <1>5, <1>6, OneRequestSound DEF DeadlinePasses, IInv, TypeOK
<1> QED
  BY <1>7, OutsideKeeps DEF DeadlinePasses, IInv, TypeOK

\* A lease that grows older still names the same attempt.
LEMMA LeaseGrowsOldKeeps ==
  ASSUME IInv, NEW r \in Requests, LeaseGrowsOld(r)
  PROVE  IInv'
<1> DEFINE older == Older(leases[r])
<1>1. leases[r] \in LeaseRecord
  BY Parts DEF RecordsTyped
<1>2. older \in LeaseRecord /\ older.id = leases[r].id
  BY <1>1 DEF Older, LeaseRecord, LeaseAges
<1>3. leases' = [leases EXCEPT ![r] = older]
  BY DEF LeaseGrowsOld
<1> HIDE DEF older
<1>4. leases' \in [Requests -> LeaseRecord]
      /\ \A q \in Requests : leases'[q].id = leases[q].id
  BY <1>2, <1>3, Parts DEF RecordsTyped
<1>5. RecordsTyped' /\ WorkersTyped(workers')
  BY <1>4, Parts DEF RecordsTyped, WorkersTyped, LeaseGrowsOld
<1>6. SameAttempts
  BY AttemptsAfter DEF LeaseGrowsOld
<1>7. RequestsSound' /\ LeasesSound'
  BY <1>4, Parts DEF RequestsSound, RecordSound, LeasesSound, LeaseSound, LeaseGrowsOld
<1>8. DurableSound
  BY <1>5, <1>6, <1>7 DEF DurableSound, StaysSubmitted, LeaseGrowsOld, IInv, TypeOK
<1> QED
  BY <1>8, OutsideKeeps DEF LeaseGrowsOld, IInv, TypeOK

\* A claim that runs out.
LEMMA ClaimExpiresKeeps ==
  ASSUME IInv, NEW r \in Requests, ClaimExpires(r)
  PROVE  IInv'
<1>1. DurableSound
  BY NothingStepSound DEF ClaimExpires
<1>2. OwnershipsTyped'
  BY DEF ClaimExpires, OwnershipsTyped, IInv, TypeOK
<1> QED
  BY <1>1, <1>2, DurableKeeps DEF ClaimExpires, IInv, TypeOK

\* Only checkpoints change, and no digest appears.
LEMMA CheckpointStepKeeps ==
  ASSUME IInv,
         checkpoints' \in [Requests -> [Segments -> CheckpointRecord]],
         \A r \in Requests, s \in Segments :
           checkpoints'[r][s].digest \in {checkpoints[r][s].digest, "none"},
         UNCHANGED <<requests, results, cancellations, attempts, leases, ownerships,
                     workers, runs, pushes, pushed, up>>
  PROVE  IInv'
<1>1. RecordsTyped' /\ WorkersTyped(workers')
  BY Parts DEF RecordsTyped, WorkersTyped
<1>2. SameAttempts
  BY AttemptsAfter
<1>3. RequestsSound' /\ LeasesSound'
  BY Parts DEF RequestsSound, RecordSound, LeasesSound
<1>4. DurableSound
  BY <1>1, <1>2, <1>3 DEF DurableSound, StaysSubmitted, IInv, TypeOK
<1> QED
  BY <1>4, OutsideKeeps DEF IInv, TypeOK

\* A checkpoint's TTL runs out.
LEMMA CheckpointExpiresKeeps ==
  ASSUME IInv, NEW r \in Requests, NEW s \in Segments, CheckpointExpires(r, s)
  PROVE  IInv'
<1> DEFINE slots == [checkpoints[r] EXCEPT ![s].expired = TRUE]
<1>1. checkpoints[r] \in [Segments -> CheckpointRecord]
  BY Parts DEF RecordsTyped
<1>2. /\ slots \in [Segments -> CheckpointRecord]
      /\ \A t \in Segments : slots[t].digest = checkpoints[r][t].digest
  <2> DEFINE slot == [checkpoints[r][s] EXCEPT !.expired = TRUE]
  <2>1. slot \in CheckpointRecord /\ slot.digest = checkpoints[r][s].digest
    BY <1>1 DEF CheckpointRecord
  <2>2. slots = [checkpoints[r] EXCEPT ![s] = slot]
    OBVIOUS
  <2> HIDE DEF slot, slots
  <2> QED
    BY <1>1, <2>1, <2>2
<1>3. checkpoints' = [checkpoints EXCEPT ![r] = slots]
  BY DEF CheckpointExpires
<1> HIDE DEF slots
<1>4. checkpoints' \in [Requests -> [Segments -> CheckpointRecord]]
      /\ \A q \in Requests, t \in Segments : checkpoints'[q][t].digest = checkpoints[q][t].digest
  BY <1>2, <1>3, Parts DEF RecordsTyped
<1> QED
  BY <1>4, CheckpointStepKeeps DEF CheckpointExpires

\* The cleanup timer removes what has expired.
LEMMA CheckpointCleanupKeeps ==
  ASSUME IInv, CheckpointCleanup
  PROVE  IInv'
<1>1. NoCheckpoint \in CheckpointRecord /\ NoCheckpoint.digest = "none"
  BY DEF NoCheckpoint, CheckpointRecord
<1>2. checkpoints' \in [Requests -> [Segments -> CheckpointRecord]]
      /\ \A r \in Requests, s \in Segments :
           checkpoints'[r][s].digest \in {checkpoints[r][s].digest, "none"}
  BY <1>1, Parts DEF CheckpointCleanup, RecordsTyped
<1> QED
  BY <1>2, CheckpointStepKeeps DEF CheckpointCleanup

\* Between the two hops the request waits again and its worker is idle.
LEMMA BetweenHopsSound ==
  ASSUME IInv, NEW c \in Coordinators, NEW r \in Requests, BetweenHops(c, r),
         UNCHANGED <<results, cancellations, attempts, leases, checkpoints>>
  PROVE  DurableSound
<1> DEFINE rec == [requests[r] EXCEPT !.stage = "queued"]
<1>1. /\ Assigned(runs[c][r]) /\ requests[r].stage = "running"
      /\ requests' = [requests EXCEPT ![r] = rec]
      /\ workers' = IdleAgain(runs[c][r])
  BY DEF BetweenHops, Assigned
<1>2. SameAttempts
  BY AttemptsAfter
<1>3. WorkersTyped(workers') /\ GenerationsKept(workers, workers')
  BY <1>1, AssignedFacts
<1>4. LeasesSound'
  BY <1>2, <1>3, Parts, LeasesAfter
<1>5. requests[r] \in RequestRecord /\ RecordSound(r, requests[r], leases[r], checkpoints[r])
  BY Parts DEF RecordsTyped
<1>6. rec \in RequestRecord /\ rec.stage = "queued"
  BY <1>5 DEF RequestRecord, REQUEST_STAGES
<1>7. RecordSound(r, rec, leases[r], checkpoints[r])
  BY <1>1, <1>5, <1>6 DEF RecordSound, TERMINAL_STAGES
<1> HIDE DEF rec
<1>8. /\ requests'[r] = rec /\ \A q \in Requests \ {r} : requests'[q] = requests[q]
      /\ RecordsTyped'
  BY <1>1, <1>6, Parts DEF RecordsTyped
<1>9. RecordSound(r, requests[r], leases[r], checkpoints[r])'
  BY <1>7, <1>8 DEF RecordSound
<1> QED
  BY <1>2, <1>3, <1>4, <1>6, <1>8, <1>9, OneRequestSound DEF IInv, TypeOK

\* A crash takes runs and pushes away.
LEMMA CrashKeeps ==
  ASSUME IInv, NEW c \in Coordinators, Crash(c)
  PROVE  IInv'
<1>1. DurableSound
  BY NothingStepSound, BetweenHopsSound DEF Crash
<1>2. OwnershipsTyped'
  BY DEF Crash, OwnershipsTyped, IInv, TypeOK
<1>3. NoRun \in RunRecord /\ NoRun.pc = "none"
  BY NewRunTyped, SegmentFacts DEF NoRun
<1>4. \A r \in Requests : RunSound(r, NoRun, attempts')
  BY DEF RunSound, Assigned, NoRun
<1>5. /\ runs' \in [Coordinators -> [Requests -> RunRecord]]
      /\ \A d \in Coordinators, q \in Requests :
           runs'[d][q] = runs[d][q] \/ runs'[d][q] = NoRun
  BY <1>3, Parts DEF Crash
<1> QED
  BY <1>1, <1>2, <1>3, <1>4, <1>5, DurableKeeps DEF Crash, IInv, TypeOK

------------------------------------------------------------------------------
(* The theorems                                                             *)

\* The initial states satisfy the invariant.
LEMMA InitSound == Init => IInv
<1> SUFFICES ASSUME Init PROVE IInv
  OBVIOUS
<1>1. requests \in [Requests -> RequestRecord]
      /\ \A r \in Requests : requests[r].stage = "absent"
  BY SegmentFacts DEF Init, NoRequest, RequestRecord, REQUEST_STAGES
<1>2. runs \in [Coordinators -> [Requests -> RunRecord]]
      /\ \A c \in Coordinators, r \in Requests : runs[c][r].pc = "none"
  BY NewRunTyped, SegmentFacts DEF Init, NoRun
<1>3. attempts = <<>> /\ attempts \in Seq(AttemptRecord) /\ Len(attempts) = 0
      /\ DOMAIN attempts = {}
  BY EmptySeq DEF Init
<1>4. /\ leases \in [Requests -> [id : Nat, age : LeaseAges]]
      /\ \A r \in Requests : leases[r].id = 0
      /\ checkpoints \in [Requests -> [Segments -> CheckpointRecord]]
  BY NothingTyped DEF Init, LeaseRecord
<1>5. /\ ownerships \in [Requests -> [owner : Coordinators \cup {NoOwner}, live : BOOLEAN]]
      /\ workers \in [Workers -> [gen : Nat, stage : WorkerStages]]
  BY DEF Init, NoClaim, WorkerStages
<1>6. TypeOK
  BY <1>1, <1>2, <1>3, <1>4, <1>5 DEF Init, TypeOK
<1>7. RequestsSound
  BY <1>1, <1>4 DEF RequestsSound, RecordSound, TERMINAL_STAGES, Init
<1>8. \A c \in Coordinators, r \in Requests : RunSound(r, runs[c][r], attempts)
  BY <1>2 DEF RunSound, Assigned
<1>9. \A r \in Requests : ResultSound(r) /\ LeaseSound(r, leases[r], attempts, workers)
  BY <1>4 DEF ResultSound, LeaseSound, Init
<1>10. pushes = {} /\ Len(attempts) <= MaxAttempts
  BY <1>3, CoordinatorAssumption DEF Init
<1> QED
  BY <1>2, <1>3, <1>6, <1>7, <1>8, <1>9, <1>10 DEF IInv

\* A promise continuation keeps the invariant.
LEMMA ContinuationKeeps ==
  ASSUME IInv, NEW c \in Coordinators, NEW r \in Requests, Continuation(c, r)
  PROVE  IInv'
<1>1. CASE ExecutorResolves(c, r)
  BY <1>1, ExecutorResolvesKeeps
<1>2. CASE ExecutorFails(c, r)
  BY <1>2, ExecutorFailsKeeps
<1>3. CASE ExecutionAborted(c, r)
  BY <1>3, ExecutionAbortedKeeps
<1>4. CASE RecoverySleepAborted(c, r)
  BY <1>4, RecoverySleepAbortedKeeps
<1>5. CASE AdvanceSegment(c, r)
  BY <1>5, AdvanceSegmentKeeps
<1>6. CASE AdvanceRefused(c, r)
  BY <1>6, AdvanceRefusedKeeps
<1>7. CASE ReturnVerdict(c, r)
  BY <1>7, ReturnVerdictKeeps
<1>8. CASE RejectVerdict(c, r)
  BY <1>8, RejectVerdictKeeps
<1>9. CASE RunEnds(c, r)
  BY <1>9, RunEndsKeeps
<1> QED
  BY <1>1, <1>2, <1>3, <1>4, <1>5, <1>6, <1>7, <1>8, <1>9 DEF Continuation

\* submit with a bound key, recoverPendingRequests, and the recovery poll.
LEMMA RecoverKeeps ==
  ASSUME IInv, NEW c \in Coordinators, NEW r \in Requests,
         Recover(c, r) \/ RecoveryPoll(c, r)
  PROVE  IInv'
<1>1. BeginRecovery(c, r) /\ UNCHANGED <<pushes, pushed, up>>
  BY DEF Recover, RecoveryPoll
<1>2. requests[r].stage # "absent"
  BY DEF Recover, RecoveryPoll, REQUEST_STAGES, IInv
<1> QED
  BY <1>1, <1>2, BeginRecoveryKeeps

\* A call of the application or of the worker transport keeps the invariant.
LEMMA CallKeeps ==
  ASSUME IInv, Call
  PROVE  IInv'
<1>1. ASSUME NEW c \in Coordinators, NEW r \in Requests,
             Submit(c, r) \/ Recover(c, r) \/ Cancel(c, r) \/ CallerAborts(c, r)
      PROVE  IInv'
  BY <1>1, SubmitKeeps, RecoverKeeps, CancelKeeps, CallerAbortsKeeps
<1>2. ASSUME NEW c \in Coordinators, NEW id \in DOMAIN attempts,
             PushResult(c, id) \/ PushFailure(c, id)
      PROVE  IInv'
  BY <1>2, PushResultKeeps, PushFailureKeeps
<1>3. ASSUME NEW w \in Workers,
             RegisterWorker(w) \/ WorkerHeartbeat(w) \/ RemoveWorker(w)
      PROVE  IInv'
  BY <1>3, RegisterWorkerKeeps, WorkerHeartbeatKeeps, RemoveWorkerKeeps
<1> QED
  BY <1>1, <1>2, <1>3 DEF Call

\* A task of the event loop, or what happens outside it, keeps the invariant.
LEMMA TaskKeeps ==
  ASSUME IInv, Task
  PROVE  IInv'
<1>1. ASSUME NEW c \in Coordinators, NEW r \in Requests,
             \/ RecoveryPoll(c, r)
             \/ RenewOwnership(c, r)
             \/ DeadlineTimer(c, r)
             \/ DelayOver(c, r)
             \/ CheckpointValidated(c, r)
      PROVE  IInv'
  BY <1>1, RecoverKeeps, RenewOwnershipKeeps, DeadlineTimerKeeps, DelayOverKeeps,
     CheckpointValidatedKeeps
<1>2. ASSUME NEW p \in pushes, PushValidated(p)
      PROVE  IInv'
  BY <1>2, PushValidatedKeeps
<1>3. ASSUME NEW w \in Workers, HeartbeatTimeout(w)
      PROVE  IInv'
  BY <1>3, HeartbeatTimeoutKeeps
<1>4. ASSUME NEW r \in Requests, DeadlinePasses(r) \/ LeaseGrowsOld(r) \/ ClaimExpires(r)
      PROVE  IInv'
  BY <1>4, DeadlinePassesKeeps, LeaseGrowsOldKeeps, ClaimExpiresKeeps
<1>5. ASSUME NEW r \in Requests, NEW s \in Segments, CheckpointExpires(r, s)
      PROVE  IInv'
  BY <1>5, CheckpointExpiresKeeps
<1>6. CASE CheckpointCleanup
  BY <1>6, CheckpointCleanupKeeps
<1> QED
  BY <1>1, <1>2, <1>3, <1>4, <1>5, <1>6 DEF Task

\* Every step, a stuttering one included, keeps the invariant.
LEMMA StepSound == IInv /\ [Next]_vars => IInv'
<1> SUFFICES ASSUME IInv, [Next]_vars PROVE IInv'
  OBVIOUS
<1>1. ASSUME NEW c \in Coordinators, NEW r \in Requests, Continuation(c, r)
      PROVE  IInv'
  BY <1>1, ContinuationKeeps
<1>2. CASE Call
  BY <1>2, CallKeeps
<1>3. CASE Task
  BY <1>3, TaskKeeps
<1>4. ASSUME NEW c \in Coordinators, Crash(c)
      PROVE  IInv'
  BY <1>4, CrashKeeps
<1>5. CASE UNCHANGED vars
  <2>1. DurableSound
    BY <1>5, NothingStepSound DEF vars
  <2> QED
    BY <1>5, <2>1, OutsideKeeps DEF vars, IInv, TypeOK
<1> QED
  BY <1>1, <1>2, <1>3, <1>4, <1>5 DEF Next

\* The invariant holds in every state of every behaviour.
THEOREM Invariance == Spec => []IInv
<1>1. Init => IInv
  BY InitSound
<1>2. IInv /\ [Next]_vars => IInv'
  BY StepSound
<1> QED
  BY <1>1, <1>2, PTL DEF Spec

\* Records keep their types, and attempts that are referred to exist, through
\* every interleaving of the coordinators' code.
THEOREM TypeCorrect == Spec => []TypeOK
<1>1. IInv => TypeOK
  BY DEF IInv
<1> QED
  BY <1>1, Invariance, PTL

\* No lease outlives the worker connection it was issued for: register,
\* removeWorker, the heartbeat monitor and isolateWorker revoke both together.
THEOREM LeasesCurrent == Spec => []LeaseGenerationCurrent
<1>1. IInv => LeaseGenerationCurrent
  BY DEF IInv, LeaseGenerationCurrent, LeaseSound
<1> QED
  BY <1>1, Invariance, PTL

\* A terminal request holds neither a lease nor a checkpoint.
THEOREM TerminalsReleased == Spec => []TerminalReleasesAll
<1>1. IInv => TerminalReleasesAll
  BY DEF IInv, TerminalReleasesAll, RequestsSound, RecordSound
<1> QED
  BY <1>1, Invariance, PTL

\* Completion and a committed result of the final segment come together.
THEOREM CompletionsCommitted == Spec => []CompletionCommitted
<1>1. IInv => CompletionCommitted
  BY DEF IInv, CompletionCommitted, RequestsSound, RecordSound, ResultSound
<1> QED
  BY <1>1, Invariance, PTL

\* A recorded cancellation wins over every run, recovery and late result.
THEOREM CancellationsFinal == Spec => []CancellationIsFinal
<1>1. IInv => CancellationIsFinal
  BY DEF IInv, CancellationIsFinal, RequestsSound, RecordSound
<1> QED
  BY <1>1, Invariance, PTL
=============================================================================
