-------------------------- MODULE Assurance_proofs --------------------------
(***************************************************************************)
(* Theorems about ContinuousAssurance, for any policy, lease, triggers and *)
(* bounds: the scope can be recovered from every failure short of a crash  *)
(* of the engine, no rotation is lost, and the runtime and the engine      *)
(* together implement the contract of continuous assurance.                *)
(***************************************************************************)
EXTENDS ContinuousAssurance, TLAPS

\* The scope belongs to the only trigger that is begun and not decided, and to the only
\* evaluation.
OwnerInv ==
    /\ \A t \in DOMAIN journal : journal[t].state # "completed" => active = t
    /\ active # None => active \in DOMAIN journal /\ journal[active].state # "completed"
    /\ \A e \in evaluations : active = e.trigger /\ journal[e.trigger].state = "running"
    /\ \A e, f \in evaluations : e = f
    /\ crashes = 0 =>
         \A t \in DOMAIN journal :
           journal[t].state = "running" => \E e \in evaluations : e.trigger = t

\* The ledger knows every trigger that was ever sent to the engine, with a replay as new.
ReplayInv ==
    /\ \A t \in DOMAIN journal :
         t \in DOMAIN ledger /\ journal[t].replay <= ledger[t].replay
    /\ \A request \in requests :
         /\ request.trigger \in DOMAIN ledger
         /\ request.replay <= ledger[request.trigger].replay

ScopeInv == OwnerInv /\ ReplayInv

\* Results are decided by the engine, and what is reported or on its way is decided.
Decision(t, result) == Completed(t) /\ Row(t).result = result

LedgerInv ==
    /\ \A t \in DOMAIN journal : Row(t).state = "completed" => Row(t).result \in Results
    /\ \A t \in DOMAIN ledger :
         ledger[t].state = "completed" => Decision(t, ledger[t].result)
    /\ \A reply \in replies :
         reply.result # Failed => Decision(reply.trigger, reply.result)
    /\ \A call \in waiting : Received(call.trigger)

\* The rotation that reconciles a base with the provider, if it needs one.
Kept(base) ==
    \/ base.credentials = credentials
    \/ \E event \in performed :
         /\ event.key = <<base.due, Rotation>>
         /\ event.previous = base.credentials /\ event.new = credentials

\* While no bootstrap was overtaken, evaluations work on the current snapshot, and health has
\* observed the credentials they leave behind.
RotationInv ==
    ~overtaken =>
      /\ snapshot # None => Kept(snapshot)
      /\ \A e \in evaluations : snapshot # None /\ e.base = snapshot
      /\ active # None => \A b \in bootstraps : b.late
      /\ \A b \in bootstraps : ~b.late => b.seed.credentials = credentials

ObservedInv ==
    \A e \in evaluations :
      Health \notin e.todo =>
        /\ e.todo \subseteq {Evidence}
        /\ Due(e.base, e.at) /\ ~Overdue(e.base, e.at) => e.observed = credentials

IInv == TypeOK /\ ScopeInv /\ LedgerInv /\ RotationInv /\ ObservedInv

-----------------------------------------------------------------------------
(* Plans.                                                                  *)

LEMMA PlanType ==
  ASSUME NEW base, NEW at
  PROVE  /\ Plan(base, at) \subseteq Actions
         /\ Due(base, at) /\ ~Overdue(base, at) => Health \in Plan(base, at)
         /\ Health \notin Plan(base, at) => Plan(base, at) = {}
BY DEF Plan, ActionsOf, Actions, Before, Rotation, Drill, Health

\* Each action waits for those before it.
LEMMA Order ==
  ASSUME NEW e, NEW action, Asks(e, action)
  PROVE  /\ action = Health => e.todo \cap {Rotation, Drill} = {}
         /\ action = Evidence => Health \notin e.todo
         /\ action \in Effects /\ Health \notin e.todo => ~(e.todo \subseteq {Evidence})
         /\ action \in Effects => action # Health /\ action # Evidence
BY DEF Asks, Before, Effects, Rotation, Drill, Health, Evidence

-----------------------------------------------------------------------------
(* Types.                                                                  *)

USE DEF engineVars, storageVars, providerVars

LEMMA ConstantsTyped ==
  /\ Triggers \subseteq Nat /\ None \notin Triggers
  /\ Cadence \in Nat /\ RotationCadence \in Nat /\ DrillCadence \in Nat /\ Lease \in Nat
<1>1. None \notin Nat
  <2>1. Nat \subseteq Int
    OBVIOUS
  <2> QED
    BY <2>1, EngineAssumption
<1> QED
  BY <1>1, EngineAssumption, PolicyAssumption, RuntimeAssumption

LEMMA ResultsTyped ==
  /\ Idle \in Results /\ Hold \in Results
  /\ \A run \in Int : Pass(run) \in Results
  /\ Failed \notin Results
  /\ None \notin Results
<1>1. Idle \in Results /\ Hold \in Results
  BY DEF Results, Idle, Hold
<1>2. \A run \in Int : Pass(run) \in Results
  BY DEF Results, Pass
<1>3. Failed \notin Results
  <2>1. Failed.status = "failed"
    BY DEF Failed
  <2>2. \A result \in Results : result.status # "failed"
    BY DEF Results
  <2> QED
    BY <2>1, <2>2
<1> QED
  BY <1>1, <1>2, <1>3, EngineAssumption

\* A row of either table is updated field by field.
LEMMA JournalUpdated ==
  ASSUME TypeOK, NEW t \in DOMAIN journal, NEW result \in Results
  PROVE  /\ Decided(t, result) \in [DOMAIN journal -> JournalRows]
         /\ DOMAIN Decided(t, result) = DOMAIN journal
         /\ Decided(t, result)[t] = [journal[t] EXCEPT !.state = "completed", !.result = result]
         /\ \A u \in DOMAIN journal \ {t} : Decided(t, result)[u] = journal[u]
<1>1. journal[t] \in JournalRows
  BY DEF TypeOK
<1>2. [journal[t] EXCEPT !.state = "completed", !.result = result] \in JournalRows
  BY <1>1 DEF JournalRows
<1>3. Decided(t, result) =
        [journal EXCEPT ![t] = [journal[t] EXCEPT !.state = "completed", !.result = result]]
  BY DEF Decided, TypeOK
<1> QED
  BY <1>2, <1>3 DEF TypeOK

LEMMA NextSnapshotTyped ==
  ASSUME NEW e \in Evaluations
  PROVE  NextSnapshot(e) \in Snapshots
<1>1. e.base \in Snapshots /\ e.rotation \subseteq Events /\ e.drill \subseteq Events
  BY DEF Evaluations
<1>2. e.rotation # {} => (CHOOSE event \in e.rotation : TRUE) \in Events
  BY <1>1
<1>3. e.drill # {} => (CHOOSE event \in e.drill : TRUE) \in Events
  BY <1>1
<1> DEFINE r == CHOOSE event \in e.rotation : TRUE
           d == CHOOSE event \in e.drill : TRUE
<1>4. e.rotation # {} => r.new \in Nat /\ r.at \in Nat
  BY <1>2 DEF Events
<1>5. e.drill # {} => d.at \in Nat
  BY <1>3 DEF Events
<1>6. /\ e.base.run \in Int /\ e.base.due \in Int /\ e.base.credentials \in Nat
      /\ e.base.rotationDue \in Int /\ e.base.drillDue \in Int
  BY <1>1 DEF Snapshots
<1> QED
  BY <1>4, <1>5, <1>6, ConstantsTyped DEF NextSnapshot, Snapshots

LEMMA TypeInitial == Init => TypeOK
<1>1. NoRows \in [{} -> JournalRows] /\ NoRows \in [{} -> LedgerRows] /\ DOMAIN NoRows = {}
  BY DEF NoRows
<1> SUFFICES ASSUME Init PROVE TypeOK
  OBVIOUS
<1>2. /\ journal = NoRows /\ ledger = NoRows /\ evaluations = {} /\ bootstraps = {}
      /\ performed = {} /\ requests = {} /\ waiting = {} /\ replies = {}
      /\ now = 0 /\ seeds = 0 /\ crashes = 0 /\ credentials = 0
      /\ snapshot = None /\ active = None /\ overtaken = FALSE
  BY DEF Init, EngineInit
<1>3. DOMAIN journal \subseteq Triggers /\ journal \in [DOMAIN journal -> JournalRows]
  BY <1>1, <1>2
<1>4. DOMAIN ledger \subseteq Triggers /\ ledger \in [DOMAIN ledger -> LedgerRows]
  BY <1>1, <1>2
<1> QED
  BY <1>2, <1>3, <1>4 DEF TypeOK

LEMMA DeliverTyped ==
  ASSUME TypeOK, NEW t \in Triggers, Deliver(t)
  PROVE  TypeOK'
<1> DEFINE row == [state |-> "running", replay |-> ReplayOf(t), lease |-> now + Lease,
                   failure |-> FailureOf(t), result |-> None, keys |-> {}]
<1>1. \A u \in DOMAIN ledger : ledger[u] \in LedgerRows
  BY DEF TypeOK
<1>2. ReplayOf(t) \in Nat /\ FailureOf(t) \in Failures
  BY <1>1 DEF ReplayOf, FailureOf, Received, LedgerRows, Failures
<1>3. now \in Nat /\ now + Lease \in Nat
  BY ConstantsTyped DEF TypeOK
<1>4. row \in LedgerRows
  BY <1>2, <1>3 DEF LedgerRows
<1>5. /\ DOMAIN ledger' = DOMAIN ledger \cup {t}
      /\ ledger' \in [DOMAIN ledger' -> LedgerRows]
  BY <1>1, <1>4 DEF Deliver
<1>6. requests' \subseteq [trigger : Triggers, replay : Nat, at : Nat]
  BY <1>2, <1>3 DEF Deliver, TypeOK
<1>7. waiting' \subseteq [trigger : Triggers, replay : Nat, failure : Failures]
  BY <1>2 DEF Deliver, TypeOK
<1> QED
  BY <1>5, <1>6, <1>7 DEF Deliver, TypeOK

\* No result has the attempts under the name the runtime looks for.
LEMMA NoKeys == \A result \in Results : AttemptedKeys(result) = {}
<1>1. \A result \in Results : DOMAIN result = {"status", "run"}
  BY DEF Results
<1> QED
  BY <1>1 DEF AttemptedKeys

\* The runtime updates a row field by field and keeps its replay.
LEMMA CompleteUpdates ==
  ASSUME TypeOK, NEW call \in waiting, NEW reply \in replies, Complete(call, reply),
         Received(call.trigger)
  PROVE  /\ reply.result \in Results /\ reply.trigger = call.trigger
         /\ DOMAIN ledger' = DOMAIN ledger
         /\ ledger' \in [DOMAIN ledger' -> LedgerRows]
         /\ \A t \in DOMAIN ledger : ledger'[t].replay = ledger[t].replay
         /\ ledger'[call.trigger].state = "completed"
         /\ ledger'[call.trigger].result = reply.result
         /\ \A t \in DOMAIN ledger \ {call.trigger} : ledger'[t] = ledger[t]
<1> DEFINE t == call.trigger
           failure == Or(call.failure, IF reply.result = Hold THEN "hold" ELSE None)
           row == [ledger[t] EXCEPT !.state = "completed", !.failure = failure,
                                    !.result = reply.result, !.keys = {}]
<1>1. reply.result \in Results /\ reply.trigger = call.trigger
  BY DEF Complete, Answers, TypeOK
<1>2. AttemptedKeys(reply.result) = {}
  BY <1>1, NoKeys
<1>3. ledger[t] \in LedgerRows /\ t \in DOMAIN ledger
  BY DEF TypeOK, Received
<1>4. failure \in Failures
  BY DEF Or, Failures, TypeOK
<1>5. /\ row \in LedgerRows /\ row.replay = ledger[t].replay
      /\ row.state = "completed" /\ row.result = reply.result
  BY <1>1, <1>3, <1>4 DEF LedgerRows
<1>6. ledger' = [ledger EXCEPT ![t] = row]
  BY <1>2, <1>3 DEF Complete, TypeOK
<1> QED
  BY <1>1, <1>3, <1>5, <1>6 DEF TypeOK

LEMMA FailUpdates ==
  ASSUME TypeOK, NEW call \in waiting, Fail(call), Received(call.trigger)
  PROVE  /\ DOMAIN ledger' = DOMAIN ledger
         /\ ledger' \in [DOMAIN ledger' -> LedgerRows]
         /\ \A t \in DOMAIN ledger :
              /\ ledger'[t].replay = ledger[t].replay
              /\ ledger'[t].state = ledger[t].state
              /\ ledger'[t].result = ledger[t].result
<1> DEFINE t == call.trigger
           failure == Or(call.failure, "engine-failed")
           row == [ledger[t] EXCEPT !.failure = failure]
<1>1. ledger[t] \in LedgerRows /\ t \in DOMAIN ledger
  BY DEF TypeOK, Received
<1>2. failure \in Failures
  BY DEF Or, Failures, TypeOK
<1>3. /\ row \in LedgerRows /\ row.replay = ledger[t].replay
      /\ row.state = ledger[t].state /\ row.result = ledger[t].result
  BY <1>1, <1>2 DEF LedgerRows
<1>4. ledger' = [ledger EXCEPT ![t] = row]
  BY <1>1 DEF Fail, TypeOK
<1> QED
  BY <1>1, <1>3, <1>4 DEF TypeOK

LEMMA ReplyTyped ==
  ASSUME TypeOK, NEW t \in Triggers, NEW replay \in Nat, NEW result \in Results \cup {Failed},
         Reply(t, replay, result)
  PROVE  replies' \subseteq [trigger : Triggers, replay : Nat, result : Results \cup {Failed}]
BY DEF Reply, TypeOK

\* The evaluation that a claim begins.
Begun(request) ==
    [trigger |-> request.trigger, replay |-> request.replay, at |-> request.at, base |-> snapshot,
     todo |-> Plan(snapshot, request.at), rotation |-> {}, drill |-> {},
     observed |-> 0, completed |-> 0]

LEMMA ClaimUpdates ==
  ASSUME TypeOK, NEW request \in requests, Claim(request)
  PROVE  LET t == request.trigger IN
         /\ t \in Triggers /\ request.replay \in Nat /\ snapshot \in Snapshots
         /\ DOMAIN journal' = DOMAIN journal \cup {t}
         /\ journal' \in [DOMAIN journal' -> JournalRows]
         /\ journal'[t].state = "running" /\ journal'[t].replay = request.replay
         /\ \A u \in DOMAIN journal \ {t} : journal'[u] = journal[u]
         /\ evaluations' = evaluations \cup {Begun(request)}
         /\ Begun(request) \in Evaluations
<1> DEFINE t == request.trigger
           row == [state |-> "running", replay |-> request.replay,
                   base |-> IF HasRow(t) THEN Row(t).base ELSE snapshot.run, result |-> None]
<1>1. t \in Triggers /\ request.replay \in Nat /\ request.at \in Nat
  BY DEF TypeOK
<1>2. snapshot \in Snapshots
  BY DEF Claim, TypeOK
<1>3. HasRow(t) => Row(t) \in JournalRows
  BY DEF HasRow, Row, TypeOK
<1>4. row \in JournalRows
  <2>1. (IF HasRow(t) THEN Row(t).base ELSE snapshot.run) \in Int
    BY <1>2, <1>3 DEF JournalRows, Snapshots
  <2> QED
    BY <1>1, <2>1 DEF JournalRows
<1>5. journal' = [u \in DOMAIN journal \cup {t} |-> IF u = t THEN row ELSE journal[u]]
  BY DEF Claim
<1>6. /\ DOMAIN journal' = DOMAIN journal \cup {t}
      /\ journal'[t] = row
      /\ \A u \in DOMAIN journal \ {t} : journal'[u] = journal[u]
  BY <1>5
<1>7. journal' \in [DOMAIN journal' -> JournalRows]
  BY <1>4, <1>5 DEF TypeOK
<1>8. evaluations' = evaluations \cup {Begun(request)}
  BY DEF Claim, Begun
<1>9. Begun(request) \in Evaluations
  BY <1>1, <1>2, PlanType DEF Begun, Evaluations
<1> QED
  BY <1>1, <1>2, <1>6, <1>7, <1>8, <1>9

\* A tick that decides completes its row and frees the scope.
LEMMA CompletedBy ==
  ASSUME TypeOK, NEW t \in DOMAIN journal, NEW result \in Results,
         journal' = Decided(t, result)
  PROVE  /\ DOMAIN journal' = DOMAIN journal
         /\ journal' \in [DOMAIN journal' -> JournalRows]
         /\ journal'[t].state = "completed" /\ journal'[t].result = result
         /\ journal'[t].replay = journal[t].replay
         /\ \A u \in DOMAIN journal \ {t} : journal'[u] = journal[u]
<1>1. journal[t] \in JournalRows
  BY DEF TypeOK
<1>2. journal'[t] = [journal[t] EXCEPT !.state = "completed", !.result = result]
  BY JournalUpdated
<1>3. /\ journal'[t].state = "completed" /\ journal'[t].result = result
      /\ journal'[t].replay = journal[t].replay
  BY <1>1, <1>2 DEF JournalRows
<1> QED
  BY <1>3, JournalUpdated

LEMMA InterruptedBy ==
  ASSUME TypeOK, NEW t \in DOMAIN journal, InterruptExecution(t)
  PROVE  /\ DOMAIN journal' = DOMAIN journal
         /\ journal' \in [DOMAIN journal' -> JournalRows]
         /\ journal'[t].state = "interrupted" /\ journal'[t].replay = journal[t].replay
         /\ \A u \in DOMAIN journal \ {t} : journal'[u] = journal[u]
<1> DEFINE row == [journal[t] EXCEPT !.state = "interrupted"]
<1>1. journal[t] \in JournalRows
  BY DEF TypeOK
<1>2. row \in JournalRows /\ row.state = "interrupted" /\ row.replay = journal[t].replay
  BY <1>1 DEF JournalRows
<1>3. journal' = [journal EXCEPT ![t] = row]
  BY DEF InterruptExecution
<1> QED
  BY <1>2, <1>3 DEF TypeOK

\* The five ends of a tick come down to a decision or an interruption.
Decides(e, result) ==
    /\ journal' = Decided(e.trigger, result) /\ ClearActive(e.trigger)
    /\ EvaluationEnds(e) /\ Reply(e.trigger, e.replay, result)

Interrupts(e) ==
    InterruptExecution(e.trigger) /\ EvaluationEnds(e) /\ Reply(e.trigger, e.replay, Failed)

LEMMA TickEndsOr ==
  ASSUME NEW e \in evaluations, TickEnds(e), TypeOK
  PROVE  /\ UNCHANGED <<now, ledger, requests, waiting>>
         /\ \/ Decides(e, Idle) /\ UNCHANGED snapshot
            \/ Decides(e, Hold) /\ UNCHANGED snapshot
            \/ /\ Decides(e, Pass(NextSnapshot(e).run)) /\ EndsWithPass(e)
               /\ snapshot' = NextSnapshot(e)
            \/ Interrupts(e) /\ UNCHANGED snapshot
BY DEF TickEnds, EndsIdle, EndsOnHold, EndsWithPass, EndsInConflict, Throws, CompleteExecution,
       Decides, Interrupts, InterruptExecution

LEMMA DecisionsAreResults ==
  ASSUME TypeOK, NEW e \in evaluations
  PROVE  /\ Idle \in Results /\ Hold \in Results /\ NextSnapshot(e) \in Snapshots
         /\ NextSnapshot(e).run \in Int /\ Pass(NextSnapshot(e).run) \in Results
<1>1. NextSnapshot(e) \in Snapshots
  BY NextSnapshotTyped DEF TypeOK
<1>2. NextSnapshot(e).run \in Int
  BY <1>1 DEF Snapshots
<1> QED
  BY <1>1, <1>2, ResultsTyped

\* The steps that only the engine's automation and its bootstraps take.
Advanced(e, action) ==
    [e EXCEPT !.todo = @ \ {action},
              !.rotation = IF action = Rotation THEN EffectsOf(e, action) ELSE @,
              !.drill = IF action = Drill THEN EffectsOf(e, action) ELSE @,
              !.observed = IF action = Health THEN credentials ELSE @,
              !.completed = IF action = Health THEN now ELSE @]

LEMMA AdvanceUpdates ==
  ASSUME TypeOK, NEW e \in evaluations, NEW action, Advance(e, action)
  PROVE  /\ evaluations' = (evaluations \ {e}) \cup {Advanced(e, action)}
         /\ Advanced(e, action) \in Evaluations
         /\ Advanced(e, action).trigger = e.trigger
         /\ Advanced(e, action).base = e.base /\ Advanced(e, action).at = e.at
         /\ Advanced(e, action).todo = e.todo \ {action}
         /\ Advanced(e, action).rotation =
              IF action = Rotation THEN EffectsOf(e, action) ELSE e.rotation
         /\ Advanced(e, action).observed = IF action = Health THEN credentials ELSE e.observed
<1>1. e \in Evaluations /\ EffectsOf(e, action) \subseteq Events
  BY DEF TypeOK, EffectsOf
<1>2. now \in Nat /\ credentials \in Nat
  BY DEF TypeOK
<1>3. evaluations' = (evaluations \ {e}) \cup {Advanced(e, action)}
  BY DEF Advance, Advanced
<1> QED
  BY <1>1, <1>2, <1>3 DEF Evaluations, Advanced

LEMMA AdvanceTyped ==
  ASSUME TypeOK, NEW e \in evaluations, NEW action \in Actions, EngineStep(Advance(e, action))
  PROVE  TypeOK'
<1>1. evaluations' \subseteq Evaluations
  BY AdvanceUpdates DEF EngineStep, TypeOK
<1> QED
  BY <1>1 DEF EngineStep, Advance, TypeOK

LEMMA PerformTyped ==
  ASSUME TypeOK, NEW e \in evaluations, NEW action \in Effects, EngineStep(Perform(e, action))
  PROVE  TypeOK'
<1> DEFINE event == [key |-> KeyOf(e, action), at |-> now, previous |-> credentials,
                     new |-> IF action = Rotation THEN credentials + 1 ELSE credentials]
<1>1. e.base.due \in Int
  BY DEF TypeOK, Evaluations, Snapshots
<1>2. KeyOf(e, action) \in Int \X Effects
  BY <1>1 DEF KeyOf, IdempotencyKey
<1>3. now \in Nat /\ credentials \in Nat
  BY DEF TypeOK
<1>4. event \in Events /\ event.new \in Nat
  BY <1>2, <1>3 DEF Events
<1>5. performed' = performed \cup {event} /\ credentials' = event.new
  BY DEF EngineStep, Perform
<1> QED
  BY <1>4, <1>5 DEF EngineStep, Perform, TypeOK

LEMMA BootstrapTyped ==
  ASSUME TypeOK,
         EngineStep(BootstrapBegins) \/ \E b \in bootstraps : EngineStep(BootstrapSeeds(b))
  PROVE  TypeOK'
<1>1. CASE EngineStep(BootstrapBegins)
  <2>a. seeds \in Nat /\ now \in Nat /\ credentials \in Nat
    BY DEF TypeOK
  <2>b. /\ -1 - seeds \in Int /\ now + Cadence \in Int
        /\ now + RotationCadence \in Int /\ now + DrillCadence \in Int
    BY <2>a, ConstantsTyped
  <2>1. Seed \in Snapshots
    BY <2>a, <2>b DEF Seed, Snapshots
  <2>2. bootstraps' \subseteq [seed : Snapshots, late : BOOLEAN]
    <3> DEFINE b == [seed |-> Seed, late |-> FALSE]
    <3>1. b \in [seed : Snapshots, late : BOOLEAN]
      BY <2>1
    <3>2. bootstraps' = bootstraps \cup {b}
      BY <1>1 DEF EngineStep, BootstrapBegins
    <3> HIDE DEF b
    <3> QED
      BY <3>1, <3>2 DEF TypeOK
  <2>3. seeds' \in Nat
    BY <1>1, <2>a DEF EngineStep, BootstrapBegins
  <2> QED
    BY <1>1, <2>2, <2>3 DEF EngineStep, BootstrapBegins, TypeOK
<1>2. ASSUME NEW b \in bootstraps, EngineStep(BootstrapSeeds(b))
      PROVE  TypeOK'
  <2>1. b.seed \in Snapshots /\ b.late \in BOOLEAN
    BY DEF TypeOK
  <2>2. Late(bootstraps \ {b}) \subseteq [seed : Snapshots, late : BOOLEAN]
    BY DEF TypeOK, Late
  <2> QED
    BY <1>2, <2>1, <2>2 DEF EngineStep, BootstrapSeeds, TypeOK
<1> QED
  BY <1>1, <1>2

\* The scope of an evaluation is its trigger's, which has a row.
LEMMA Owned ==
  ASSUME TypeOK, ScopeInv, NEW e \in evaluations
  PROVE  /\ e.trigger \in DOMAIN journal /\ e.trigger \in Triggers /\ e.replay \in Nat
         /\ active = e.trigger /\ journal[e.trigger].state = "running"
<1>1. e \in Evaluations
  BY DEF TypeOK
<1>2. e.trigger \in Triggers /\ e.replay \in Nat
  BY <1>1 DEF Evaluations
<1>3. active = e.trigger /\ journal[e.trigger].state = "running"
  BY DEF ScopeInv, OwnerInv
<1>4. active # None
  BY <1>2, <1>3, ConstantsTyped
<1> QED
  BY <1>2, <1>3, <1>4 DEF ScopeInv, OwnerInv

LEMMA TypeStep ==
  ASSUME TypeOK, ScopeInv, LedgerInv, [Next]_vars
  PROVE  TypeOK'
<1>1. CASE Tick
  BY <1>1 DEF Tick, TypeOK
<1>2. ASSUME NEW t \in Triggers, Deliver(t) PROVE TypeOK'
  BY <1>2, DeliverTyped
<1>3. ASSUME NEW call \in waiting, Fail(call) PROVE TypeOK'
  <2>1. Received(call.trigger)
    BY DEF LedgerInv
  <2>2. /\ DOMAIN ledger' = DOMAIN ledger /\ ledger' \in [DOMAIN ledger' -> LedgerRows]
    BY <1>3, <2>1, FailUpdates
  <2> QED
    BY <1>3, <2>2 DEF Fail, TypeOK
<1>4. ASSUME NEW call \in waiting, NEW reply \in replies, Complete(call, reply) PROVE TypeOK'
  <2>1. Received(call.trigger)
    BY DEF LedgerInv
  <2>2. /\ DOMAIN ledger' = DOMAIN ledger /\ ledger' \in [DOMAIN ledger' -> LedgerRows]
    BY <1>4, <2>1, CompleteUpdates
  <2> QED
    BY <1>4, <2>2 DEF Complete, TypeOK
<1>5. CASE RuntimeCrash
  BY <1>5 DEF RuntimeCrash, TypeOK
<1>6. ASSUME NEW request \in requests, TickClaims(request) PROVE TypeOK'
  <2>1. Claim(request) /\ Receive(request) /\ UNCHANGED replies
    BY <1>6 DEF TickClaims
  <2>2. /\ DOMAIN journal' \subseteq Triggers /\ journal' \in [DOMAIN journal' -> JournalRows]
        /\ evaluations' \subseteq Evaluations /\ active' \in Triggers
    <3> DEFINE t == request.trigger
    <3>1. t \in Triggers /\ DOMAIN journal' = DOMAIN journal \cup {t}
      BY <2>1, ClaimUpdates
    <3>2. journal' \in [DOMAIN journal' -> JournalRows]
      BY <2>1, ClaimUpdates
    <3>3. evaluations' = evaluations \cup {Begun(request)} /\ Begun(request) \in Evaluations
      BY <2>1, ClaimUpdates
    <3>4. active' = t
      BY <2>1 DEF Claim
    <3> QED
      BY <3>1, <3>2, <3>3, <3>4 DEF TypeOK
  <2>3. bootstraps' \subseteq [seed : Snapshots, late : BOOLEAN]
    BY <2>1 DEF Claim, Late, TypeOK
  <2> QED
    BY <2>1, <2>2, <2>3 DEF Claim, Receive, TypeOK
<1>7. ASSUME NEW request \in requests, TickRefused(request) PROVE TypeOK'
  <2>1. request.trigger \in Triggers /\ request.replay \in Nat
    BY DEF TypeOK
  <2>2. replies' \subseteq [trigger : Triggers, replay : Nat, result : Results \cup {Failed}]
    BY <1>7, <2>1, ReplyTyped DEF TickRefused
  <2> QED
    BY <1>7, <2>2 DEF TickRefused, Receive, TypeOK
<1>8. ASSUME NEW request \in requests, TickRepeated(request) PROVE TypeOK'
  <2>1. request.trigger \in Triggers /\ request.replay \in Nat
    BY DEF TypeOK
  <2>2. Row(request.trigger).result \in Results
    BY <1>8 DEF TickRepeated, Completed, HasRow, LedgerInv
  <2>3. replies' \subseteq [trigger : Triggers, replay : Nat, result : Results \cup {Failed}]
    BY <1>8, <2>1, <2>2, ReplyTyped DEF TickRepeated
  <2> QED
    BY <1>8, <2>3 DEF TickRepeated, Receive, TypeOK
<1>9. ASSUME NEW e \in evaluations, TickEnds(e) PROVE TypeOK'
  <2>1. /\ e.trigger \in DOMAIN journal /\ e.trigger \in Triggers /\ e.replay \in Nat
    BY Owned
  <2>2. ASSUME NEW result \in Results, Decides(e, result), snapshot' \in Snapshots \cup {None},
               UNCHANGED <<now, ledger, requests, waiting>>
        PROVE  TypeOK'
    <3>1. /\ DOMAIN journal' = DOMAIN journal /\ journal' \in [DOMAIN journal' -> JournalRows]
      BY <2>1, <2>2, CompletedBy DEF Decides
    <3>2. replies' \subseteq [trigger : Triggers, replay : Nat, result : Results \cup {Failed}]
      BY <2>1, <2>2, ReplyTyped DEF Decides
    <3>3. active' \in Triggers \cup {None}
      BY <2>2 DEF Decides, ClearActive, TypeOK
    <3> QED
      BY <2>2, <3>1, <3>2, <3>3 DEF Decides, EvaluationEnds, TypeOK
  <2>3. ASSUME Interrupts(e), UNCHANGED <<now, ledger, requests, waiting>> PROVE TypeOK'
    <3>1. /\ DOMAIN journal' = DOMAIN journal /\ journal' \in [DOMAIN journal' -> JournalRows]
      BY <2>1, <2>3, InterruptedBy DEF Interrupts
    <3>2. replies' \subseteq [trigger : Triggers, replay : Nat, result : Results \cup {Failed}]
      BY <2>1, <2>3, ReplyTyped DEF Interrupts
    <3> QED
      BY <2>3, <3>1, <3>2 DEF Interrupts, InterruptExecution, EvaluationEnds, TypeOK
  <2>4. snapshot \in Snapshots \cup {None}
    BY DEF TypeOK
  <2> QED
    BY <1>9, <2>2, <2>3, <2>4, TickEndsOr, DecisionsAreResults
<1>10. ASSUME NEW e \in evaluations, NEW action \in Actions, EngineStep(Advance(e, action))
       PROVE  TypeOK'
  BY <1>10, AdvanceTyped
<1>11. ASSUME NEW e \in evaluations, NEW action \in Effects, EngineStep(Perform(e, action))
       PROVE  TypeOK'
  BY <1>11, PerformTyped
<1>12. CASE EngineStep(BootstrapBegins) \/ \E b \in bootstraps : EngineStep(BootstrapSeeds(b))
  BY <1>12, BootstrapTyped
<1>13. CASE EngineStep(EngineCrash)
  BY <1>13 DEF EngineStep, EngineCrash, TypeOK
<1>14. CASE UNCHANGED vars
  BY <1>14 DEF vars, TypeOK
<1> QED
  BY <1>1, <1>2, <1>3, <1>4, <1>5, <1>6, <1>7, <1>8, <1>9, <1>10, <1>11, <1>12, <1>13, <1>14
     DEF Next
-----------------------------------------------------------------------------
(* The scope.                                                              *)

\* A trigger is claimed when nothing is under evaluation, and no other trigger is begun.
LEMMA ClaimAlone ==
  ASSUME TypeOK, ScopeInv, NEW request \in requests, Claim(request)
  PROVE  /\ evaluations = {}
         /\ \A u \in DOMAIN journal \ {request.trigger} : journal[u].state = "completed"
         /\ request.trigger \in DOMAIN journal => journal[request.trigger].state = "interrupted"
<1> DEFINE t == request.trigger
<1>1. t \in DOMAIN journal => journal[t].state = "interrupted"
  BY DEF Claim, Claimable, HasRow, Row
<1>2. active = None \/ active = t
  BY DEF Claim, Claimable, ScopeBusy
<1>3. evaluations = {}
  BY <1>1, <1>2, Owned, ConstantsTyped
<1>4. ASSUME NEW u \in DOMAIN journal, u # t PROVE journal[u].state = "completed"
  <2>1. u # None
    BY ConstantsTyped DEF TypeOK
  <2> QED
    BY <1>2, <1>4, <2>1 DEF ScopeInv, OwnerInv
<1> QED
  BY <1>1, <1>3, <1>4

LEMMA OwnerStep ==
  ASSUME TypeOK, ScopeInv, LedgerInv, [Next]_vars
  PROVE  OwnerInv'
<1>1. ASSUME UNCHANGED <<journal, active, evaluations, crashes>> PROVE OwnerInv'
  BY <1>1 DEF ScopeInv, OwnerInv
<1>2. ASSUME NEW t \in Triggers, Deliver(t) PROVE OwnerInv'
  BY <1>1, <1>2 DEF Deliver
<1>3. ASSUME NEW call \in waiting, Fail(call) \/ \E reply \in replies : Complete(call, reply)
      PROVE  OwnerInv'
  BY <1>1, <1>3 DEF Fail, Complete
<1>4. ASSUME NEW request \in requests, TickClaims(request) PROVE OwnerInv'
  <2> DEFINE t == request.trigger
  <2>1. Claim(request) /\ active' = t /\ crashes' = crashes
    BY <1>4 DEF TickClaims, Claim
  <2>2. /\ t \in Triggers /\ DOMAIN journal' = DOMAIN journal \cup {t}
        /\ journal'[t].state = "running"
        /\ \A u \in DOMAIN journal \ {t} : journal'[u] = journal[u]
    BY <2>1, ClaimUpdates
  <2>3. evaluations' = {Begun(request)} /\ Begun(request).trigger = t
    BY <2>1, ClaimUpdates, ClaimAlone DEF Begun
  <2>4. \A u \in DOMAIN journal' \ {t} : journal'[u].state = "completed"
    BY <2>1, <2>2, ClaimAlone
  <2> QED
    BY <2>1, <2>2, <2>3, <2>4 DEF OwnerInv
<1>5. ASSUME NEW request \in requests, TickRefused(request) \/ TickRepeated(request)
      PROVE  OwnerInv'
  BY <1>1, <1>5 DEF TickRefused, TickRepeated
<1>6. ASSUME NEW e \in evaluations, TickEnds(e) PROVE OwnerInv'
  <2> DEFINE t == e.trigger
  <2>1. /\ t \in DOMAIN journal /\ t # None /\ active = t
        /\ evaluations = {e}
        /\ \A u \in DOMAIN journal \ {t} : journal[u].state = "completed"
    BY Owned, ConstantsTyped DEF ScopeInv, OwnerInv
  <2>2. ASSUME NEW result \in Results, Decides(e, result) PROVE OwnerInv'
    <3>1. /\ DOMAIN journal' = DOMAIN journal /\ journal'[t].state = "completed"
          /\ \A u \in DOMAIN journal \ {t} : journal'[u] = journal[u]
      BY <2>1, <2>2, CompletedBy DEF Decides
    <3>2. active' = None /\ evaluations' = {}
      BY <2>1, <2>2 DEF Decides, ClearActive, EvaluationEnds
    <3> QED
      BY <2>1, <3>1, <3>2 DEF OwnerInv
  <2>3. ASSUME Interrupts(e) PROVE OwnerInv'
    <3>1. /\ DOMAIN journal' = DOMAIN journal /\ journal'[t].state = "interrupted"
          /\ \A u \in DOMAIN journal \ {t} : journal'[u] = journal[u]
      BY <2>1, <2>3, InterruptedBy DEF Interrupts
    <3>2. active' = t /\ evaluations' = {}
      BY <2>1, <2>3 DEF Interrupts, InterruptExecution, EvaluationEnds
    <3> QED
      BY <2>1, <3>1, <3>2 DEF OwnerInv
  <2> QED
    BY <1>6, <2>2, <2>3, TickEndsOr, DecisionsAreResults
<1>7. ASSUME NEW e \in evaluations, NEW action \in Actions, EngineStep(Advance(e, action))
      PROVE  OwnerInv'
  <2>1. UNCHANGED <<journal, active, crashes>>
    BY <1>7 DEF EngineStep, Advance
  <2>2. PICK f : evaluations' = (evaluations \ {e}) \cup {f} /\ f.trigger = e.trigger
    BY <1>7, AdvanceUpdates DEF EngineStep
  <2>3. evaluations = {e}
    BY DEF ScopeInv, OwnerInv
  <2> QED
    BY <2>1, <2>2, <2>3 DEF ScopeInv, OwnerInv
<1>8. ASSUME NEW e \in evaluations, NEW action \in Effects, EngineStep(Perform(e, action))
      PROVE  OwnerInv'
  BY <1>1, <1>8 DEF EngineStep, Perform
<1>9. CASE EngineStep(BootstrapBegins) \/ \E b \in bootstraps : EngineStep(BootstrapSeeds(b))
  BY <1>1, <1>9 DEF EngineStep, BootstrapBegins, BootstrapSeeds
<1>10. CASE EngineStep(EngineCrash)
  <2>1. evaluations' = {} /\ crashes' # 0 /\ UNCHANGED <<journal, active>>
    BY <1>10 DEF EngineStep, EngineCrash, TypeOK
  <2> QED
    BY <2>1 DEF ScopeInv, OwnerInv
<1>11. CASE Tick \/ RuntimeCrash \/ UNCHANGED vars
  BY <1>1, <1>11 DEF Tick, RuntimeCrash, vars
<1> QED
  BY <1>2, <1>3, <1>4, <1>5, <1>6, <1>7, <1>8, <1>9, <1>10, <1>11 DEF Next

LEMMA ReplayStep ==
  ASSUME TypeOK, ScopeInv, LedgerInv, [Next]_vars
  PROVE  ReplayInv'
<1>1. ASSUME DOMAIN journal' = DOMAIN journal, requests' \subseteq requests,
             \A t \in DOMAIN journal : journal'[t].replay = journal[t].replay,
             DOMAIN ledger' = DOMAIN ledger,
             \A t \in DOMAIN ledger : ledger'[t].replay = ledger[t].replay
      PROVE  ReplayInv'
  BY <1>1 DEF ScopeInv, ReplayInv
<1>2. ASSUME NEW t \in Triggers, Deliver(t) PROVE ReplayInv'
  <2> DEFINE request == [trigger |-> t, replay |-> ReplayOf(t), at |-> now]
  <2>1. /\ DOMAIN ledger' = DOMAIN ledger \cup {t}
        /\ ledger'[t].replay = ReplayOf(t)
        /\ \A u \in DOMAIN ledger \ {t} : ledger'[u] = ledger[u]
    BY <1>2 DEF Deliver
  <2>2. t \in DOMAIN ledger => ledger[t].replay \in Nat /\ ReplayOf(t) = ledger[t].replay + 1
    BY DEF TypeOK, LedgerRows, ReplayOf, Received
  <2>3. ReplayOf(t) \in Nat
    BY <2>2 DEF ReplayOf, Received
  <2>4. ASSUME NEW u \in DOMAIN ledger, NEW k \in Nat, k <= ledger[u].replay
        PROVE  k <= ledger'[u].replay
    <3>1. CASE u = t
      BY <2>1, <2>2, <2>4, <3>1
    <3>2. CASE u # t
      BY <2>1, <2>4, <3>2
    <3> QED
      BY <3>1, <3>2
  <2>5. journal' = journal /\ requests' = requests \cup {request}
    BY <1>2 DEF Deliver
  <2>6. \A u \in DOMAIN journal : journal[u].replay \in Nat
    BY DEF TypeOK, JournalRows
  <2>7. \A r \in requests : r.replay \in Nat
    BY DEF TypeOK
  <2>8. \A u \in DOMAIN journal' :
          u \in DOMAIN ledger' /\ journal'[u].replay <= ledger'[u].replay
    BY <2>1, <2>4, <2>5, <2>6 DEF ScopeInv, ReplayInv
  <2>9. \A r \in requests :
          r.trigger \in DOMAIN ledger' /\ r.replay <= ledger'[r.trigger].replay
    BY <2>1, <2>4, <2>7 DEF ScopeInv, ReplayInv
  <2>10. request.trigger \in DOMAIN ledger' /\ request.replay <= ledger'[request.trigger].replay
    BY <2>1, <2>3
  <2> QED
    BY <2>5, <2>8, <2>9, <2>10 DEF ReplayInv
<1>3. ASSUME NEW call \in waiting, Fail(call) PROVE ReplayInv'
  <2>1. Received(call.trigger) /\ UNCHANGED <<journal, requests>>
    BY <1>3 DEF LedgerInv, Fail
  <2> QED
    BY <1>1, <1>3, <2>1, FailUpdates
<1>4. ASSUME NEW call \in waiting, NEW reply \in replies, Complete(call, reply)
      PROVE  ReplayInv'
  <2>1. Received(call.trigger) /\ UNCHANGED <<journal, requests>>
    BY <1>4 DEF LedgerInv, Complete
  <2> QED
    BY <1>1, <1>4, <2>1, CompleteUpdates
<1>5. ASSUME NEW request \in requests, TickClaims(request) PROVE ReplayInv'
  <2> DEFINE t == request.trigger
  <2>1. /\ Claim(request) /\ ledger' = ledger /\ requests' \subseteq requests
    BY <1>5 DEF TickClaims, Receive
  <2>2. /\ DOMAIN journal' = DOMAIN journal \cup {t}
        /\ journal'[t].replay = request.replay
        /\ \A u \in DOMAIN journal \ {t} : journal'[u] = journal[u]
    BY <2>1, ClaimUpdates
  <2> QED
    BY <2>1, <2>2 DEF ScopeInv, ReplayInv
<1>6. ASSUME NEW request \in requests, TickRefused(request) \/ TickRepeated(request)
      PROVE  ReplayInv'
  BY <1>1, <1>6 DEF TickRefused, TickRepeated, Receive
<1>7. ASSUME NEW e \in evaluations, TickEnds(e) PROVE ReplayInv'
  <2>1. e.trigger \in DOMAIN journal /\ UNCHANGED <<ledger, requests>>
    BY <1>7, Owned DEF TickEnds
  <2>2. /\ DOMAIN journal' = DOMAIN journal
        /\ \A t \in DOMAIN journal : journal'[t].replay = journal[t].replay
    <3>1. ASSUME NEW result \in Results, Decides(e, result)
          PROVE  /\ DOMAIN journal' = DOMAIN journal
                 /\ \A t \in DOMAIN journal : journal'[t].replay = journal[t].replay
      BY <2>1, <3>1, CompletedBy DEF Decides
    <3>2. ASSUME Interrupts(e)
          PROVE  /\ DOMAIN journal' = DOMAIN journal
                 /\ \A t \in DOMAIN journal : journal'[t].replay = journal[t].replay
      BY <2>1, <3>2, InterruptedBy DEF Interrupts
    <3> QED
      BY <1>7, <3>1, <3>2, TickEndsOr, DecisionsAreResults
  <2> QED
    BY <1>1, <2>1, <2>2
<1>8. ASSUME NEW e \in evaluations, NEW action, EngineStep(Advance(e, action) \/ Perform(e, action))
      PROVE  ReplayInv'
  BY <1>1, <1>8 DEF EngineStep, Advance, Perform
<1>9. CASE EngineStep(BootstrapBegins) \/ \E b \in bootstraps : EngineStep(BootstrapSeeds(b))
  BY <1>1, <1>9 DEF EngineStep, BootstrapBegins, BootstrapSeeds
<1>10. CASE Tick \/ RuntimeCrash \/ EngineStep(EngineCrash) \/ UNCHANGED vars
  BY <1>1, <1>10 DEF Tick, RuntimeCrash, EngineStep, EngineCrash, vars
<1> QED
  BY <1>2, <1>3, <1>4, <1>5, <1>6, <1>7, <1>8, <1>9, <1>10 DEF Next, EngineStep
-----------------------------------------------------------------------------
(* Decisions.                                                              *)

LEMMA DecisionKept ==
  ASSUME TypeOK, ScopeInv, [Next]_vars,
         NEW t, NEW result, Decision(t, result)
  PROVE  Decision(t, result)'
<1> USE DEF Decision, Completed, HasRow, Row
<1>1. ASSUME NEW request \in requests, TickClaims(request) PROVE Decision(t, result)'
  <2>1. Claim(request) /\ t # request.trigger
    BY <1>1 DEF TickClaims, Claim, Claimable
  <2> QED
    BY <2>1, ClaimUpdates
<1>2. ASSUME NEW e \in evaluations, TickEnds(e) PROVE Decision(t, result)'
  <2>1. e.trigger \in DOMAIN journal /\ t # e.trigger
    BY Owned
  <2>2. ASSUME NEW r \in Results, Decides(e, r) PROVE Decision(t, result)'
    BY <2>1, <2>2, CompletedBy DEF Decides
  <2>3. ASSUME Interrupts(e) PROVE Decision(t, result)'
    BY <2>1, <2>3, InterruptedBy DEF Interrupts
  <2> QED
    BY <1>2, <2>2, <2>3, TickEndsOr, DecisionsAreResults
<1>3. CASE UNCHANGED journal
  BY <1>3
<1> QED
  BY <1>1, <1>2, <1>3
     DEF Next, vars, Tick, Deliver, Fail, Complete, RuntimeCrash, TickRefused, TickRepeated,
         EngineStep, Advance, Perform, BootstrapBegins, BootstrapSeeds, EngineCrash

LEMMA Replied ==
  ASSUME NEW t, NEW replay, NEW result, Reply(t, replay, result), NEW reply \in replies'
  PROVE  reply \in replies \/ (reply.trigger = t /\ reply.result = result)
BY DEF Reply

LEMMA LedgerStep ==
  ASSUME TypeOK, ScopeInv, LedgerInv, [Next]_vars
  PROVE  LedgerInv'
<1> DEFINE Results1 ==
             \A t \in DOMAIN journal : journal[t].state = "completed" => journal[t].result \in Results
           Ledger1 ==
             \A t \in DOMAIN ledger :
               ledger[t].state = "completed" => Decision(t, ledger[t].result)
           Replies1 ==
             \A reply \in replies : reply.result # Failed => Decision(reply.trigger, reply.result)
           Waiting1 == \A call \in waiting : call.trigger \in DOMAIN ledger
<1>0. LedgerInv <=> Results1 /\ Ledger1 /\ Replies1 /\ Waiting1
  BY DEF LedgerInv, Row, Received
<1>a. ASSUME UNCHANGED ledger PROVE Ledger1'
  BY <1>0, <1>a, DecisionKept
<1>b. ASSUME replies' \subseteq replies PROVE Replies1'
  BY <1>0, <1>b, DecisionKept
<1>c. ASSUME waiting' \subseteq waiting, DOMAIN ledger' = DOMAIN ledger PROVE Waiting1'
  BY <1>0, <1>c
<1>d. ASSUME NEW t, NEW replay, NEW result, Reply(t, replay, result),
             result # Failed => Decision(t, result)'
      PROVE  Replies1'
  BY <1>0, <1>d, Replied, DecisionKept
<1>1. ASSUME NEW t \in Triggers, Deliver(t) PROVE LedgerInv'
  <2>1. /\ DOMAIN ledger' = DOMAIN ledger \cup {t} /\ ledger'[t].state = "running"
        /\ \A u \in DOMAIN ledger \ {t} : ledger'[u] = ledger[u]
    BY <1>1 DEF Deliver
  <2>2. Ledger1'
    BY <1>0, <2>1, DecisionKept
  <2>3. Waiting1'
    BY <1>0, <1>1, <2>1 DEF Deliver
  <2>4. Results1' /\ Replies1'
    BY <1>0, <1>1, <1>b DEF Deliver, engineVars, storageVars
  <2> QED
    BY <2>2, <2>3, <2>4 DEF LedgerInv, Row, Received
<1>2. ASSUME NEW call \in waiting, Fail(call) PROVE LedgerInv'
  <2>1. Received(call.trigger)
    BY DEF LedgerInv
  <2>2. /\ DOMAIN ledger' = DOMAIN ledger
        /\ \A t \in DOMAIN ledger :
             ledger'[t].state = ledger[t].state /\ ledger'[t].result = ledger[t].result
    BY <1>2, <2>1, FailUpdates
  <2>3. Ledger1'
    BY <1>0, <2>2, DecisionKept
  <2>4. Results1' /\ Replies1' /\ Waiting1'
    BY <1>0, <1>2, <1>b, <1>c, <2>2 DEF Fail
  <2> QED
    BY <2>3, <2>4 DEF LedgerInv, Row, Received
<1>3. ASSUME NEW call \in waiting, NEW reply \in replies, Complete(call, reply)
      PROVE  LedgerInv'
  <2>1. Received(call.trigger) /\ Decision(reply.trigger, reply.result)
    BY <1>3 DEF LedgerInv, Complete
  <2>2. /\ DOMAIN ledger' = DOMAIN ledger /\ reply.trigger = call.trigger
        /\ ledger'[call.trigger].result = reply.result
        /\ \A t \in DOMAIN ledger \ {call.trigger} : ledger'[t] = ledger[t]
    BY <1>3, <2>1, CompleteUpdates
  <2>3. Ledger1'
    BY <1>0, <2>1, <2>2, DecisionKept
  <2>4. Results1' /\ Replies1' /\ Waiting1'
    BY <1>0, <1>3, <1>b, <1>c, <2>2 DEF Complete
  <2> QED
    BY <2>3, <2>4 DEF LedgerInv, Row, Received
<1>4. ASSUME NEW request \in requests, TickClaims(request) PROVE LedgerInv'
  <2> DEFINE t == request.trigger
  <2>1. Claim(request) /\ UNCHANGED <<ledger, waiting, replies>>
    BY <1>4 DEF TickClaims, Receive
  <2>2. /\ DOMAIN journal' = DOMAIN journal \cup {t} /\ journal'[t].state = "running"
        /\ \A u \in DOMAIN journal \ {t} : journal'[u] = journal[u]
    BY <2>1, ClaimUpdates
  <2>3. Results1'
    BY <1>0, <2>2
  <2> QED
    BY <1>a, <1>b, <1>c, <2>1, <2>3 DEF LedgerInv, Row, Received
<1>5. ASSUME NEW request \in requests, TickRefused(request) PROVE LedgerInv'
  <2>1. Reply(request.trigger, request.replay, Failed) /\ UNCHANGED <<journal, ledger, waiting>>
    BY <1>5 DEF TickRefused, Receive
  <2> QED
    BY <1>0, <1>a, <1>c, <1>d, <2>1 DEF LedgerInv, Row, Received
<1>6. ASSUME NEW request \in requests, TickRepeated(request) PROVE LedgerInv'
  <2> DEFINE t == request.trigger
  <2>1. Reply(t, request.replay, Row(t).result) /\ UNCHANGED <<journal, ledger, waiting>>
    BY <1>6 DEF TickRepeated, Receive
  <2>2. Decision(t, Row(t).result)'
    BY <1>6, <2>1 DEF TickRepeated, Decision, Completed, HasRow, Row
  <2>3. Decision(t, Row(t).result)
    BY <1>6 DEF TickRepeated, Decision
  <2>4. Replies1'
    <3> DEFINE result == Row(t).result
    <3>1. Decision(t, result) /\ Reply(t, request.replay, result)
      BY <2>1, <2>3
    <3> HIDE DEF result
    <3>2. \A reply \in replies' :
            reply \in replies \/ (reply.trigger = t /\ reply.result = result)
      BY <3>1, Replied
    <3>3. \A reply \in replies' : reply.result # Failed => Decision(reply.trigger, reply.result)
      BY <1>0, <3>1, <3>2
    <3> QED
      BY <3>3, DecisionKept
  <2> QED
    BY <1>0, <1>a, <1>c, <2>1, <2>4 DEF LedgerInv, Row, Received
<1>7. ASSUME NEW e \in evaluations, TickEnds(e) PROVE LedgerInv'
  <2> DEFINE t == e.trigger
  <2>1. t \in DOMAIN journal /\ UNCHANGED <<ledger, waiting>>
    BY <1>7, Owned DEF TickEnds
  <2>2. ASSUME NEW result \in Results, Decides(e, result) PROVE Results1' /\ Replies1'
    <3>1. /\ DOMAIN journal' = DOMAIN journal
          /\ journal'[t].state = "completed" /\ journal'[t].result = result
          /\ \A u \in DOMAIN journal \ {t} : journal'[u] = journal[u]
      BY <2>1, <2>2, CompletedBy DEF Decides
    <3>2. Decision(t, result)'
      BY <2>1, <3>1 DEF Decision, Completed, HasRow, Row
    <3>3. Results1'
      BY <1>0, <3>1
    <3>4. Reply(t, e.replay, result)
      BY <2>2 DEF Decides
    <3> QED
      BY <1>d, <3>2, <3>3, <3>4
  <2>3. ASSUME Interrupts(e) PROVE Results1' /\ Replies1'
    <3>1. /\ DOMAIN journal' = DOMAIN journal /\ journal'[t].state = "interrupted"
          /\ \A u \in DOMAIN journal \ {t} : journal'[u] = journal[u]
      BY <2>1, <2>3, InterruptedBy DEF Interrupts
    <3>2. Results1'
      BY <1>0, <3>1
    <3>3. Reply(t, e.replay, Failed)
      BY <2>3 DEF Interrupts
    <3> QED
      BY <1>d, <3>2, <3>3
  <2>4. Results1' /\ Replies1'
    BY <1>7, <2>2, <2>3, TickEndsOr, DecisionsAreResults
  <2> QED
    BY <1>a, <1>c, <2>1, <2>4 DEF LedgerInv, Row, Received
<1>8. CASE UNCHANGED <<journal, ledger>> /\ replies' \subseteq replies /\ waiting' \subseteq waiting
  BY <1>0, <1>8, <1>a, <1>b, <1>c DEF LedgerInv, Row, Received
<1>9. ASSUME NEW e \in evaluations, NEW action, EngineStep(Advance(e, action) \/ Perform(e, action))
      PROVE  LedgerInv'
  BY <1>8, <1>9 DEF EngineStep, Advance, Perform
<1>10. CASE \/ EngineStep(BootstrapBegins) \/ \E b \in bootstraps : EngineStep(BootstrapSeeds(b))
            \/ EngineStep(EngineCrash) \/ RuntimeCrash \/ Tick \/ UNCHANGED vars
  BY <1>8, <1>10 DEF EngineStep, BootstrapBegins, BootstrapSeeds, EngineCrash, RuntimeCrash, Tick, vars
<1> QED
  BY <1>1, <1>2, <1>3, <1>4, <1>5, <1>6, <1>7, <1>9, <1>10 DEF Next, EngineStep
-----------------------------------------------------------------------------
(* Rotations.                                                              *)

\* While health has not been asked nothing is observed; once it has, nothing rotates.
LEMMA ObservedStep ==
  ASSUME TypeOK, ScopeInv, ObservedInv, [Next]_vars
  PROVE  ObservedInv'
<1>1. ASSUME evaluations' \subseteq evaluations, UNCHANGED credentials PROVE ObservedInv'
  BY <1>1 DEF ObservedInv
<1>2. ASSUME NEW request \in requests, TickClaims(request) PROVE ObservedInv'
  <2>1. Claim(request) /\ UNCHANGED credentials
    BY <1>2 DEF TickClaims, Claim
  <2>2. evaluations' = {Begun(request)}
    BY <2>1, ClaimUpdates, ClaimAlone
  <2>3. /\ Begun(request).todo = Plan(snapshot, request.at)
        /\ Begun(request).base = snapshot /\ Begun(request).at = request.at
    BY DEF Begun
  <2> QED
    BY <2>2, <2>3, PlanType DEF ObservedInv
<1>3. ASSUME NEW e \in evaluations, NEW action \in Actions, EngineStep(Advance(e, action))
      PROVE  ObservedInv'
  <2> DEFINE f == Advanced(e, action)
  <2>1. Advance(e, action) /\ UNCHANGED credentials
    BY <1>3 DEF EngineStep, Advance
  <2>2. /\ evaluations' = (evaluations \ {e}) \cup {f}
        /\ f.todo = e.todo \ {action} /\ f.base = e.base /\ f.at = e.at
        /\ f.observed = IF action = Health THEN credentials ELSE e.observed
    BY <2>1, AdvanceUpdates
  <2>3. e.todo \subseteq Actions /\ Actions = {Rotation, Drill, Health, Evidence}
    BY DEF TypeOK, Evaluations, Actions, Before
  <2>4. action = Health => e.todo \cap {Rotation, Drill} = {}
    BY <2>1, Order DEF Advance
  <2>5. Health \notin f.todo =>
          /\ f.todo \subseteq {Evidence}
          /\ Due(f.base, f.at) /\ ~Overdue(f.base, f.at) => f.observed = credentials
    BY <2>2, <2>3, <2>4 DEF ObservedInv
  <2> QED
    BY <2>1, <2>2, <2>5 DEF ObservedInv
<1>4. ASSUME NEW e \in evaluations, NEW action \in Effects, EngineStep(Perform(e, action))
      PROVE  ObservedInv'
  <2>1. Asks(e, action) /\ evaluations' = evaluations
    BY <1>4 DEF EngineStep, Perform
  <2>2. Health \in e.todo
    BY <2>1, Order DEF ObservedInv
  <2> QED
    BY <2>1, <2>2 DEF ObservedInv, ScopeInv, OwnerInv
<1>5. ASSUME NEW e \in evaluations, TickEnds(e) PROVE ObservedInv'
  <2>1. EvaluationEnds(e)
    BY <1>5, TickEndsOr DEF Decides, Interrupts
  <2> QED
    BY <1>1, <2>1 DEF EvaluationEnds
<1> QED
  BY <1>1, <1>2, <1>3, <1>4, <1>5
     DEF Next, vars, Tick, Deliver, Fail, Complete, RuntimeCrash, TickRefused, TickRepeated,
         EngineStep, BootstrapBegins, BootstrapSeeds, EngineCrash

\* What a pass commits has the provider's credentials.
LEMMA PassKeeps ==
  ASSUME TypeOK, ObservedInv, NEW e \in evaluations, EndsWithPass(e)
  PROVE  NextSnapshot(e).credentials = credentials
<1>1. e.observed = credentials
  BY DEF EndsWithPass, Passes, ObservedInv
<1>2. RotationInOrder(e)
  BY DEF EndsWithPass, Passes, GatePasses
<1>3. CASE e.rotation = {}
  BY <1>1, <1>2, <1>3 DEF RotationInOrder, NextSnapshot
<1>4. CASE e.rotation # {}
  <2>1. (CHOOSE event \in e.rotation : TRUE) \in e.rotation
    BY <1>4
  <2> QED
    BY <1>1, <1>2, <1>4, <2>1 DEF RotationInOrder, NextSnapshot
<1> QED
  BY <1>3, <1>4

\* A cycle that rotates reconciles its base, and nothing else has rotated since.
LEMMA PerformKeeps ==
  ASSUME TypeOK, NEW e \in evaluations, NEW action \in Effects, Perform(e, action),
         Kept(e.base)
  PROVE  Kept(e.base)'
<1> DEFINE event == [key |-> KeyOf(e, action), at |-> now, previous |-> credentials,
                     new |-> IF action = Rotation THEN credentials + 1 ELSE credentials]
<1>1. performed' = performed \cup {event} /\ EffectsOf(e, action) = {}
  BY DEF Perform
<1>2. CASE action = Rotation
  <2>1. e.base.credentials = credentials
    BY <1>1, <1>2 DEF Kept, EffectsOf, KeyOf, IdempotencyKey
  <2>2. credentials' = credentials + 1
    BY <1>2 DEF Perform
  <2>3. /\ event.key = <<e.base.due, Rotation>>
        /\ event.previous = e.base.credentials /\ event.new = credentials'
    BY <1>2, <2>1, <2>2 DEF KeyOf, IdempotencyKey
  <2> QED
    BY <1>1, <2>3 DEF Kept
<1>3. CASE action # Rotation
  <2>1. credentials' = credentials
    BY <1>3 DEF Perform
  <2> QED
    BY <1>1, <2>1 DEF Kept
<1> QED
  BY <1>2, <1>3

LEMMA RotationStep ==
  ASSUME TypeOK, ScopeInv, ObservedInv, RotationInv, [Next]_vars
  PROVE  RotationInv'
<1> SUFFICES ASSUME ~overtaken' PROVE RotationInv'
  BY DEF RotationInv
<1>0. /\ ~overtaken
      /\ snapshot # None => Kept(snapshot)
      /\ \A e \in evaluations : snapshot # None /\ e.base = snapshot
      /\ active # None => \A b \in bootstraps : b.late
      /\ \A b \in bootstraps : ~b.late => b.seed.credentials = credentials
  <2>1. ~overtaken
    BY DEF Next, vars, Tick, Deliver, Fail, Complete, RuntimeCrash, TickClaims, Receive, Claim,
           TickRefused, TickRepeated, TickEnds, EndsIdle, EndsOnHold, EndsWithPass, EndsInConflict,
           Throws, EvaluationEnds, EngineStep, Advance, Perform, BootstrapBegins, BootstrapSeeds,
           EngineCrash
  <2> QED
    BY <2>1 DEF RotationInv
<1>1. ASSUME UNCHANGED <<snapshot, credentials, performed>>, bootstraps' \subseteq bootstraps,
             evaluations' \subseteq evaluations, active' = active \/ active' = None
      PROVE  RotationInv'
  BY <1>0, <1>1 DEF RotationInv, Kept
<1>2. ASSUME NEW request \in requests, TickClaims(request) PROVE RotationInv'
  <2>1. Claim(request)
    BY <1>2 DEF TickClaims
  <2>2. /\ evaluations' = {Begun(request)} /\ Begun(request).base = snapshot
        /\ snapshot # None /\ UNCHANGED <<snapshot, credentials, performed>>
    BY <2>1, ClaimUpdates, ClaimAlone DEF Begun, Claim
  <2>3. \A b \in bootstraps' : b.late
    <3>1. \A b \in bootstraps : b \in [seed : Snapshots, late : BOOLEAN]
      BY DEF TypeOK
    <3> QED
      BY <2>1, <3>1 DEF Claim, Late
  <2> QED
    BY <1>0, <2>2, <2>3 DEF RotationInv, Kept
<1>3. ASSUME NEW e \in evaluations, NEW action \in Actions, EngineStep(Advance(e, action))
      PROVE  RotationInv'
  <2>1. Advance(e, action) /\ UNCHANGED <<snapshot, credentials, performed, bootstraps, active>>
    BY <1>3 DEF EngineStep, Advance
  <2>2. /\ evaluations' = (evaluations \ {e}) \cup {Advanced(e, action)}
        /\ Advanced(e, action).base = e.base
    BY <2>1, AdvanceUpdates
  <2> QED
    BY <1>0, <2>1, <2>2 DEF RotationInv, Kept
<1>4. ASSUME NEW e \in evaluations, NEW action \in Effects, EngineStep(Perform(e, action))
      PROVE  RotationInv'
  <2>1. Perform(e, action) /\ UNCHANGED <<snapshot, active, bootstraps, evaluations>>
    BY <1>4 DEF EngineStep, Perform
  <2>2. e.base = snapshot /\ snapshot # None
    BY <1>0
  <2>3. active # None
    BY Owned, ConstantsTyped
  <2>4. Kept(snapshot)'
    BY <1>0, <2>1, <2>2, PerformKeeps DEF Kept
  <2> QED
    BY <1>0, <2>1, <2>2, <2>3, <2>4 DEF RotationInv
<1>5. ASSUME NEW e \in evaluations, TickEnds(e) PROVE RotationInv'
  <2>1. /\ UNCHANGED <<credentials, performed, bootstraps>>
        /\ evaluations' \subseteq evaluations
    BY <1>5, TickEndsOr DEF Decides, Interrupts, EvaluationEnds
  <2>2. active' = active \/ active' = None
    BY <1>5, TickEndsOr DEF Decides, Interrupts, ClearActive, InterruptExecution
  <2>3. CASE UNCHANGED snapshot
    BY <1>1, <2>1, <2>2, <2>3
  <2>4. CASE EndsWithPass(e) /\ snapshot' = NextSnapshot(e)
    <3>1. snapshot'.credentials = credentials'
      BY <2>1, <2>4, PassKeeps
    <3>2. evaluations' = {}
      BY <1>5, TickEndsOr DEF Decides, Interrupts, EvaluationEnds, ScopeInv, OwnerInv
    <3> QED
      BY <1>0, <2>1, <2>2, <3>1, <3>2 DEF RotationInv, Kept
  <2> QED
    BY <1>5, <2>3, <2>4, TickEndsOr
<1>6. CASE EngineStep(BootstrapBegins)
  <2> DEFINE b == [seed |-> Seed, late |-> FALSE]
  <2>1. /\ UNCHANGED <<snapshot, active, evaluations, credentials, performed>>
        /\ active = None /\ bootstraps' = bootstraps \cup {b}
    BY <1>6 DEF EngineStep, BootstrapBegins
  <2>2. b.seed.credentials = credentials
    BY DEF Seed
  <2> QED
    BY <1>0, <2>1, <2>2 DEF RotationInv, Kept
<1>7. ASSUME NEW b \in bootstraps, EngineStep(BootstrapSeeds(b)) PROVE RotationInv'
  <2>1. /\ UNCHANGED <<active, evaluations, credentials, performed>> /\ snapshot' = b.seed
        /\ bootstraps' = Late(bootstraps \ {b}) /\ ~b.late
    BY <1>7 DEF EngineStep, BootstrapSeeds
  <2>2. active = None /\ b.seed.credentials = credentials
    BY <1>0, <2>1
  <2>3. evaluations = {}
    BY <2>2, Owned, ConstantsTyped
  <2>4. \A c \in bootstraps' : c.late
    <3>1. \A c \in bootstraps : c \in [seed : Snapshots, late : BOOLEAN]
      BY DEF TypeOK
    <3> QED
      BY <2>1, <3>1 DEF Late
  <2> QED
    BY <2>1, <2>2, <2>3, <2>4 DEF RotationInv, Kept
<1>8. ASSUME NEW request \in requests, TickRefused(request) \/ TickRepeated(request)
      PROVE  RotationInv'
  BY <1>1, <1>8 DEF TickRefused, TickRepeated
<1>9. CASE EngineStep(EngineCrash)
  BY <1>1, <1>9 DEF EngineStep, EngineCrash
<1>10. CASE \/ Tick \/ RuntimeCrash \/ UNCHANGED vars \/ \E t \in Triggers : Deliver(t)
            \/ \E call \in waiting : Fail(call) \/ \E reply \in replies : Complete(call, reply)
  <2>1. CASE Tick \/ RuntimeCrash \/ UNCHANGED vars
    BY <1>1, <2>1 DEF Tick, RuntimeCrash, vars
  <2>2. ASSUME NEW t \in Triggers, Deliver(t) PROVE RotationInv'
    BY <1>1, <2>2 DEF Deliver
  <2>3. ASSUME NEW call \in waiting, Fail(call) PROVE RotationInv'
    BY <1>1, <2>3 DEF Fail
  <2>4. ASSUME NEW call \in waiting, NEW reply \in replies, Complete(call, reply)
        PROVE  RotationInv'
    BY <1>1, <2>4 DEF Complete
  <2> QED
    BY <1>10, <2>1, <2>2, <2>3, <2>4
<1> QED
  BY <1>2, <1>3, <1>4, <1>5, <1>6, <1>7, <1>8, <1>9, <1>10 DEF Next

-----------------------------------------------------------------------------
(* The invariant and what it implies.                                      *)

LEMMA Initial == Init => IInv
<1> SUFFICES ASSUME Init PROVE IInv
  OBVIOUS
<1>1. /\ DOMAIN journal = {} /\ DOMAIN ledger = {} /\ evaluations = {} /\ bootstraps = {}
      /\ requests = {} /\ waiting = {} /\ replies = {} /\ snapshot = None /\ active = None
  BY DEF Init, EngineInit, NoRows
<1>2. TypeOK
  BY TypeInitial
<1>3. ScopeInv
  BY <1>1 DEF ScopeInv, OwnerInv, ReplayInv
<1>4. LedgerInv /\ RotationInv /\ ObservedInv
  BY <1>1 DEF LedgerInv, RotationInv, ObservedInv
<1> QED
  BY <1>2, <1>3, <1>4 DEF IInv

LEMMA Inductive == IInv /\ [Next]_vars => IInv'
<1> SUFFICES ASSUME IInv, [Next]_vars PROVE IInv'
  OBVIOUS
<1>1. TypeOK /\ ScopeInv /\ LedgerInv /\ RotationInv /\ ObservedInv
  BY DEF IInv
<1>2. TypeOK'
  BY <1>1, TypeStep
<1>3. ScopeInv'
  BY <1>1, OwnerStep, ReplayStep DEF ScopeInv
<1>4. LedgerInv' /\ RotationInv' /\ ObservedInv'
  BY <1>1, LedgerStep, RotationStep, ObservedStep
<1> QED
  BY <1>2, <1>3, <1>4 DEF IInv

\* The invariant holds of every reachable state, whatever the policy, the lease and the bounds.
THEOREM Invariant == Spec => []IInv
BY Initial, Inductive, PTL DEF Spec

\* An interrupted trigger has the scope, and its next delivery a newer replay.
LEMMA Recovers == IInv => ScopeRecoverable
<1> SUFFICES ASSUME IInv PROVE ScopeRecoverable
  OBVIOUS
<1>0. TypeOK /\ OwnerInv /\ ReplayInv /\ LedgerInv
  BY DEF IInv, ScopeInv
<1>1. ASSUME crashes = 0, NEW t \in DOMAIN journal, ~Completed(t)
      PROVE  \/ \E e \in evaluations : e.trigger = t
             \/ /\ Received(t) /\ ledger[t].state = "running"
                /\ Claimable([trigger |-> t, replay |-> ReplayOf(t)])
  <2>1. journal[t] \in JournalRows /\ journal[t].state # "completed" /\ active = t
    BY <1>0, <1>1 DEF TypeOK, Completed, HasRow, Row, OwnerInv
  <2>2. CASE journal[t].state = "running"
    BY <1>0, <1>1, <2>2 DEF OwnerInv
  <2>3. CASE journal[t].state = "interrupted"
    <3>1. t \in DOMAIN ledger /\ ledger[t] \in LedgerRows /\ journal[t].replay <= ledger[t].replay
      BY <1>0 DEF TypeOK, ReplayInv
    <3>2. ledger[t].state = "running"
      BY <1>0, <1>1, <3>1 DEF LedgerInv, Decision, LedgerRows
    <3>3. journal[t].replay \in Nat /\ ledger[t].replay \in Nat
      BY <2>1, <3>1 DEF JournalRows, LedgerRows
    <3>4. ReplayOf(t) > journal[t].replay
      BY <3>1, <3>3 DEF ReplayOf, Received
    <3> QED
      BY <2>1, <2>3, <3>1, <3>2, <3>4 DEF Claimable, ScopeBusy, Received, Row
  <2> QED
    BY <2>1, <2>2, <2>3 DEF JournalRows
<1>2. active # None => HasRow(active) /\ ~Completed(active)
  BY <1>0 DEF OwnerInv, HasRow, Completed, Row
<1> QED
  BY <1>1, <1>2 DEF ScopeRecoverable, Recoverable

\* Without a crash of the engine no failure and no overlap of deliveries wedges a trigger or
\* the scope (claimExecution, interruptExecution, runScheduled).
THEOREM AlwaysRecoverable == Spec => []ScopeRecoverable
BY Invariant, Recovers, PTL

\* A rotation is in the snapshot, or in the provider under the key that the snapshot's next
\* cycle asks for (runContinuousAssuranceAutomation, buildAggregatePayload).
THEOREM RotationsKept == Spec => []RotationKept
<1>1. IInv => RotationKept
  BY DEF IInv, RotationInv, RotationKept, Kept
<1> QED
  BY <1>1, Invariant, PTL
-----------------------------------------------------------------------------
(* The contract.  Current, Working, Outcome and Reported are its variables. *)

Current == IF snapshot = None THEN None ELSE snapshot.run
Working == {[trigger |-> e.trigger, base |-> e.base.run] : e \in evaluations}
Outcome == [t \in Triggers |-> OutcomeOf(t)]
Reported == [t \in Triggers |-> ReportOf(t)]

LEMMA CurrentStays == UNCHANGED snapshot => UNCHANGED Current
BY DEF Current

LEMMA WorkingStays == UNCHANGED evaluations => UNCHANGED Working
BY DEF Working

LEMMA OutcomeStays == UNCHANGED journal => UNCHANGED Outcome
BY DEF Outcome, OutcomeOf, Completed, HasRow, Row

LEMMA ReportedStays == UNCHANGED ledger => UNCHANGED Reported
BY DEF Reported, ReportOf, Received

LEMMA SnapshotNamed ==
  ASSUME NEW s \in Snapshots
  PROVE  s # None /\ s.run # None
<1>1. s.run \in Int
  BY DEF Snapshots
<1> QED
  BY <1>1, EngineAssumption

LEMMA Starts == Init => Contract!Init
<1> SUFFICES ASSUME Init PROVE Contract!Init
  OBVIOUS
<1>1. /\ snapshot = None /\ evaluations = {}
      /\ DOMAIN journal = {} /\ DOMAIN ledger = {}
  BY DEF Init, EngineInit, NoRows
<1>2. \A t \in Triggers : OutcomeOf(t) = None /\ ReportOf(t) = None
  BY <1>1 DEF OutcomeOf, Completed, HasRow, ReportOf, Received
<1> QED
  BY <1>1, <1>2 DEF Contract!Init

\* A tick that ends is a decision on its base, or gives up.
LEMMA EndsRefine ==
  ASSUME IInv, NEW e \in evaluations, TickEnds(e)
  PROVE  Contract!Next
<1> DEFINE t == e.trigger
           claim == [trigger |-> t, base |-> e.base.run]
<1>0. TypeOK /\ ScopeInv
  BY DEF IInv
<1>1. /\ t \in Triggers /\ t \in DOMAIN journal /\ journal[t].state = "running"
      /\ evaluations = {e} /\ claim \in Working
  BY <1>0, Owned DEF ScopeInv, OwnerInv, Working
<1>2. UNCHANGED Reported
  BY <1>0, TickEndsOr, ReportedStays
<1>3. OutcomeOf(t) = None
  BY <1>1 DEF OutcomeOf, Completed, HasRow, Row
<1>4. ASSUME NEW result \in Results, Decides(e, result),
             \/ UNCHANGED snapshot /\ result.status # "pass"
             \/ /\ EndsWithPass(e) /\ snapshot' = NextSnapshot(e)
                /\ result = Pass(NextSnapshot(e).run)
      PROVE  Contract!Next
  <2>1. /\ DOMAIN journal' = DOMAIN journal
        /\ journal'[t].state = "completed" /\ journal'[t].result = result
        /\ \A u \in DOMAIN journal \ {t} : journal'[u] = journal[u]
    BY <1>0, <1>1, <1>4, CompletedBy DEF Decides
  <2>2. Outcome' = [Outcome EXCEPT ![t] = result]
    <3>1. OutcomeOf(t)' = result
      BY <1>1, <2>1 DEF OutcomeOf, Completed, HasRow, Row
    <3>2. \A u \in Triggers \ {t} : OutcomeOf(u)' = OutcomeOf(u)
      BY <2>1 DEF OutcomeOf, Completed, HasRow, Row
    <3> QED
      BY <1>1, <3>1, <3>2 DEF Outcome
  <2>3. Outcome[t] = None /\ Outcome'[t] = result /\ result # None
    BY <1>1, <1>3, <2>2, ResultsTyped DEF Outcome
  <2>4. Working' = {}
    BY <1>1, <1>4 DEF Decides, EvaluationEnds, Working
  <2>5. IF result.status = "pass" THEN Current = claim.base /\ Current' = result.run
        ELSE UNCHANGED Current
    <3>1. CASE UNCHANGED snapshot /\ result.status # "pass"
      BY <3>1, CurrentStays
    <3>2. CASE /\ EndsWithPass(e) /\ snapshot' = NextSnapshot(e)
               /\ result = Pass(NextSnapshot(e).run)
      <4>1. Current = e.base.run
        BY <3>2 DEF EndsWithPass, CanCommit, Current
      <4>2. Current' = NextSnapshot(e).run
        BY <1>0, <3>2, DecisionsAreResults, SnapshotNamed DEF Current
      <4> QED
        BY <3>2, <4>1, <4>2 DEF Pass
    <3> QED
      BY <1>4, <3>1, <3>2
  <2>6. claim.trigger = t
    OBVIOUS
  <2> HIDE DEF claim
  <2>7. Contract!Decide(claim)
    BY <1>2, <2>2, <2>3, <2>4, <2>5, <2>6
       DEF Contract!Decide, Current, Working, Outcome, Reported
  <2> QED
    BY <1>1, <2>7 DEF Contract!Next, Working
<1>5. ASSUME Interrupts(e), UNCHANGED snapshot PROVE Contract!Next
  <2>1. /\ DOMAIN journal' = DOMAIN journal /\ journal'[t].state = "interrupted"
        /\ \A u \in DOMAIN journal \ {t} : journal'[u] = journal[u]
    BY <1>0, <1>1, <1>5, InterruptedBy DEF Interrupts
  <2>2. \A u \in Triggers : OutcomeOf(u)' = OutcomeOf(u)
    <3>1. OutcomeOf(t)' = OutcomeOf(t)
      BY <1>3, <2>1 DEF OutcomeOf, Completed, HasRow, Row
    <3>2. \A u \in Triggers \ {t} : OutcomeOf(u)' = OutcomeOf(u)
      BY <2>1 DEF OutcomeOf, Completed, HasRow, Row
    <3> QED
      BY <3>1, <3>2
  <2>3. UNCHANGED Outcome
    BY <2>2 DEF Outcome
  <2>4. Working' = {}
    BY <1>1, <1>5 DEF Interrupts, EvaluationEnds, Working
  <2>5. Contract!GiveUp
    BY <1>2, <1>5, <2>3, <2>4, CurrentStays DEF Contract!GiveUp, Current, Working, Outcome, Reported
  <2> QED
    BY <2>5 DEF Contract!Next
<1>6. Idle.status # "pass" /\ Hold.status # "pass"
  BY DEF Idle, Hold
<1> QED
  BY <1>0, <1>4, <1>5, <1>6, TickEndsOr, DecisionsAreResults

LEMMA Refines ==
  ASSUME IInv, [Next]_vars
  PROVE  [Contract!Next]_(Contract!vars)
<1>0. TypeOK /\ ScopeInv /\ OwnerInv /\ LedgerInv
  BY DEF IInv, ScopeInv
<1>1. ASSUME UNCHANGED <<snapshot, evaluations, journal>>, UNCHANGED Reported
      PROVE  UNCHANGED Contract!vars
  BY <1>1, CurrentStays, WorkingStays, OutcomeStays
     DEF Contract!vars, Current, Working, Outcome, Reported
<1>2. ASSUME NEW t \in Triggers, Deliver(t) PROVE UNCHANGED Contract!vars
  <2>1. /\ DOMAIN ledger' = DOMAIN ledger \cup {t}
        /\ t \in DOMAIN ledger => ledger[t].state = "running"
        /\ ledger'[t].state = "running"
        /\ \A u \in DOMAIN ledger \ {t} : ledger'[u] = ledger[u]
    BY <1>2 DEF Deliver, Deliverable, Received
  <2>2. \A u \in Triggers : ReportOf(u)' = ReportOf(u)
    BY <2>1 DEF ReportOf, Received
  <2>3. UNCHANGED Reported
    BY <2>2 DEF Reported
  <2> QED
    BY <1>1, <1>2, <2>3 DEF Deliver
<1>3. ASSUME NEW call \in waiting, Fail(call) PROVE UNCHANGED Contract!vars
  <2>1. Received(call.trigger)
    BY <1>0 DEF LedgerInv
  <2>2. /\ DOMAIN ledger' = DOMAIN ledger
        /\ \A t \in DOMAIN ledger :
             ledger'[t].state = ledger[t].state /\ ledger'[t].result = ledger[t].result
    BY <1>0, <1>3, <2>1, FailUpdates
  <2>3. \A t \in Triggers : ReportOf(t)' = ReportOf(t)
    BY <2>2 DEF ReportOf, Received
  <2>4. UNCHANGED Reported
    BY <2>3 DEF Reported
  <2> QED
    BY <1>1, <1>3, <2>4 DEF Fail
<1>4. ASSUME NEW call \in waiting, NEW reply \in replies, Complete(call, reply)
      PROVE  Contract!Next
  <2> DEFINE t == call.trigger
  <2>1. Received(t) /\ Decision(reply.trigger, reply.result) /\ t \in Triggers
    BY <1>0, <1>4 DEF LedgerInv, Complete, TypeOK
  <2>2. /\ DOMAIN ledger' = DOMAIN ledger /\ reply.trigger = t /\ reply.result \in Results
        /\ ledger'[t].state = "completed" /\ ledger'[t].result = reply.result
        /\ \A u \in DOMAIN ledger \ {t} : ledger'[u] = ledger[u]
    BY <1>0, <1>4, <2>1, CompleteUpdates
  <2>3. Outcome[t] = reply.result /\ reply.result # None
    BY <2>1, <2>2, ResultsTyped DEF Outcome, OutcomeOf, Decision
  <2>4. Reported' = [Reported EXCEPT ![t] = Outcome[t]]
    <3>1. ReportOf(t)' = reply.result
      BY <2>1, <2>2 DEF ReportOf, Received
    <3>2. \A u \in Triggers \ {t} : ReportOf(u)' = ReportOf(u)
      BY <2>2 DEF ReportOf, Received
    <3> QED
      BY <2>1, <2>3, <3>1, <3>2 DEF Reported
  <2>5. UNCHANGED <<snapshot, evaluations, journal>>
    BY <1>4 DEF Complete
  <2>6. Contract!Report(t)
    BY <2>3, <2>4, <2>5, CurrentStays, WorkingStays, OutcomeStays
       DEF Contract!Report, Current, Working, Outcome, Reported
  <2> QED
    BY <2>1, <2>6 DEF Contract!Next
<1>5. ASSUME NEW request \in requests, TickClaims(request) PROVE Contract!Next
  <2> DEFINE t == request.trigger
  <2>1. Claim(request) /\ UNCHANGED <<snapshot, ledger>> /\ snapshot # None
    BY <1>5 DEF TickClaims, Receive, Claim
  <2>2. /\ t \in Triggers /\ snapshot \in Snapshots
        /\ DOMAIN journal' = DOMAIN journal \cup {t} /\ journal'[t].state = "running"
        /\ \A u \in DOMAIN journal \ {t} : journal'[u] = journal[u]
        /\ evaluations = {} /\ evaluations' = {Begun(request)}
        /\ t \in DOMAIN journal => journal[t].state = "interrupted"
    BY <1>0, <2>1, ClaimUpdates, ClaimAlone
  <2>3. Current = snapshot.run /\ Current # None
    BY <2>1, <2>2, SnapshotNamed DEF Current
  <2>4. Working = {} /\ Working' = {[trigger |-> t, base |-> snapshot.run]}
    BY <2>2 DEF Working, Begun
  <2>5. \A u \in Triggers : OutcomeOf(u)' = OutcomeOf(u)
    <3>1. OutcomeOf(t) = None /\ OutcomeOf(t)' = None
      BY <2>2 DEF OutcomeOf, Completed, HasRow, Row
    <3>2. \A u \in Triggers \ {t} : OutcomeOf(u)' = OutcomeOf(u)
      BY <2>2 DEF OutcomeOf, Completed, HasRow, Row
    <3> QED
      BY <3>1, <3>2
  <2>6. UNCHANGED Outcome
    BY <2>5 DEF Outcome
  <2>7. Outcome[t] = None
    BY <2>2 DEF Outcome, OutcomeOf, Completed, HasRow, Row
  <2>8. Contract!Begin(t)
    BY <2>1, <2>3, <2>4, <2>6, <2>7, CurrentStays, ReportedStays
       DEF Contract!Begin, Current, Working, Outcome, Reported
  <2> QED
    BY <2>2, <2>8 DEF Contract!Next
<1>6. ASSUME NEW request \in requests, TickRefused(request) \/ TickRepeated(request)
      PROVE  UNCHANGED Contract!vars
  BY <1>1, <1>6, ReportedStays DEF TickRefused, TickRepeated, Receive
<1>7. ASSUME NEW e \in evaluations, TickEnds(e) PROVE Contract!Next
  BY <1>7, EndsRefine
<1>8. ASSUME NEW e \in evaluations, NEW action \in Actions, EngineStep(Advance(e, action))
      PROVE  UNCHANGED Contract!vars
  <2>1. Advance(e, action) /\ UNCHANGED <<snapshot, journal, ledger>>
    BY <1>8 DEF EngineStep, Advance
  <2>2. evaluations = {e}
    BY <1>0 DEF OwnerInv
  <2>3. /\ evaluations' = {Advanced(e, action)} /\ Advanced(e, action).trigger = e.trigger
        /\ Advanced(e, action).base = e.base
    BY <1>0, <2>1, <2>2, AdvanceUpdates
  <2>4. UNCHANGED Working
    BY <2>2, <2>3 DEF Working
  <2> QED
    BY <2>1, <2>4, CurrentStays, OutcomeStays, ReportedStays
       DEF Contract!vars, Current, Working, Outcome, Reported
<1>9. ASSUME NEW e \in evaluations, NEW action \in Effects, EngineStep(Perform(e, action))
      PROVE  UNCHANGED Contract!vars
  BY <1>1, <1>9, ReportedStays DEF EngineStep, Perform
<1>10. CASE EngineStep(BootstrapBegins)
  BY <1>1, <1>10, ReportedStays DEF EngineStep, BootstrapBegins
<1>11. ASSUME NEW b \in bootstraps, EngineStep(BootstrapSeeds(b)) PROVE Contract!Next
  <2>1. snapshot' = b.seed /\ UNCHANGED <<evaluations, journal, ledger>>
    BY <1>11 DEF EngineStep, BootstrapSeeds
  <2>2. Current' # None
    BY <1>0, <2>1, SnapshotNamed DEF Current, TypeOK
  <2>3. Contract!Seed
    BY <2>1, <2>2, WorkingStays, OutcomeStays, ReportedStays
       DEF Contract!Seed, Current, Working, Outcome, Reported
  <2> QED
    BY <2>3 DEF Contract!Next
<1>12. CASE EngineStep(EngineCrash)
  <2>1. evaluations' = {} /\ UNCHANGED <<snapshot, journal, ledger>>
    BY <1>12 DEF EngineStep, EngineCrash
  <2>2. Working' = {}
    BY <2>1 DEF Working
  <2>3. Contract!GiveUp
    BY <2>1, <2>2, CurrentStays, OutcomeStays, ReportedStays
       DEF Contract!GiveUp, Current, Working, Outcome, Reported
  <2> QED
    BY <2>3 DEF Contract!Next
<1>13. CASE Tick \/ RuntimeCrash \/ UNCHANGED vars
  BY <1>1, <1>13, ReportedStays DEF Tick, RuntimeCrash, vars
<1> QED
  BY <1>2, <1>3, <1>4, <1>5, <1>6, <1>7, <1>8, <1>9, <1>10, <1>11, <1>12, <1>13 DEF Next

\* One evaluation at a time, one outcome for each trigger, commits that replace what they were
\* derived from, and reports of nothing but outcomes, whatever is lost, repeated or crashes
\* (runScheduled, claimExecution, completePassExecution).
THEOREM ContractImplemented == Spec => ImplementsContract
<1>1. IInv /\ [Next]_vars => [Contract!Next]_(Contract!vars)
  BY Refines
<1> QED
  BY <1>1, Starts, Invariant, PTL DEF Spec, ImplementsContract, Contract!Spec
=============================================================================
