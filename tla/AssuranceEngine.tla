-------------------------- MODULE AssuranceEngine --------------------------
(***************************************************************************)
(* The engine of continuous assurance: a Durable Object for one scope      *)
(* whose storage holds the current snapshot, the trigger that occupies the *)
(* scope and a journal of triggers, and the evaluations it has under way.  *)
(* A handler runs without interruption up to an await of a binding or a    *)
(* validation; what it does up to there is one action.  The storage        *)
(* survives a crash, evaluations and bootstraps in progress do not.        *)
(*                                                                         *)
(* The provider rotates credentials and exercises recovery at most once    *)
(* for each idempotency key, and does so, if at all, while the evaluation  *)
(* that asked is alive.                                                    *)
(***************************************************************************)
EXTENDS AssuranceAutomation, FiniteSets

CONSTANTS Triggers, None, MaxSeeds, MaxCrashes

\* What an evaluation decides; a pass names the run it commits.
Idle == [status |-> "idle", run |-> None]
Hold == [status |-> "hold", run |-> None]
Pass(run) == [status |-> "pass", run |-> run]
Results == [status : {"idle", "hold", "pass"}, run : Int \cup {None}]

ASSUME EngineAssumption ==
    /\ Triggers \subseteq Nat
    /\ None \notin Int /\ None \notin Snapshots /\ None \notin Results
    /\ MaxSeeds \in Nat /\ MaxCrashes \in Nat

VARIABLES
    now,            \* the clock of all parties
    snapshot,       \* current_snapshot, or None before the first bootstrap
    active,         \* engine_scope.active_trigger_key
    journal,        \* execution_journal: a function on the triggers that have a row
    evaluations,    \* claimed ticks whose runTick has not ended
    bootstraps,     \* bootstraps that await the validation of their snapshot
    seeds,          \* bootstraps so far
    overtaken,      \* a bootstrap was stored although a tick or another one came in between
    credentials,    \* the provider's current version
    performed,      \* the provider's effects, by idempotency key
    crashes         \* crashes of the engine so far

storageVars == <<snapshot, active, journal>>
providerVars == <<credentials, performed>>
engineVars == <<storageVars, evaluations, bootstraps, seeds, overtaken, providerVars, crashes>>

NoRows == [t \in {} |-> None]

EngineInit ==
    /\ now = 0
    /\ snapshot = None /\ active = None /\ journal = NoRows
    /\ evaluations = {} /\ bootstraps = {} /\ seeds = 0 /\ overtaken = FALSE
    /\ credentials = 0 /\ performed = {}
    /\ crashes = 0

-----------------------------------------------------------------------------
(* claimExecution *)

Row(t) == journal[t]
HasRow(t) == t \in DOMAIN journal

ScopeBusy(t) == active # None /\ active # t

Completed(t) == HasRow(t) /\ Row(t).state = "completed"

\* A trigger may run when it is new or was interrupted before this replay, and the scope is free.
Claimable(request) ==
    LET t == request.trigger IN
    /\ HasRow(t) => Row(t).state = "interrupted" /\ request.replay > Row(t).replay
    /\ ~ScopeBusy(t)

\* What the bootstraps under validation were checked against holds no more.
Late(under) == {[b EXCEPT !.late = TRUE] : b \in under}

\* runTick up to the automation's first await: the snapshot is read and the trigger claimed.
Claim(request) ==
    LET t == request.trigger IN
    /\ snapshot # None /\ Claimable(request)
    /\ journal' = [u \in DOMAIN journal \cup {t} |->
                     IF u = t
                     THEN [state |-> "running", replay |-> request.replay,
                           base |-> IF HasRow(t) THEN Row(t).base ELSE snapshot.run,
                           result |-> None]
                     ELSE journal[u]]
    /\ active' = t
    /\ evaluations' = evaluations \cup
         {[trigger |-> t, replay |-> request.replay, at |-> request.at, base |-> snapshot,
           todo |-> Plan(snapshot, request.at), rotation |-> {}, drill |-> {},
           observed |-> 0, completed |-> 0]}
    /\ bootstraps' = Late(bootstraps)
    /\ UNCHANGED <<snapshot, seeds, overtaken, providerVars, crashes>>

-----------------------------------------------------------------------------
(* The automation's actions *)

\* The action an evaluation is at.
Asks(e, action) == action \in e.todo /\ Before[action] \cap e.todo = {}

KeyOf(e, action) == IdempotencyKey(e.base, e.at, action)

EffectsOf(e, action) == {event \in performed : event.key = KeyOf(e, action)}

\* The provider does what an evaluation asks for; the answer is another step, or never comes.
Perform(e, action) ==
    /\ e \in evaluations /\ action \in Effects /\ Asks(e, action)
    /\ EffectsOf(e, action) = {}
    /\ performed' = performed \cup
         {[key |-> KeyOf(e, action), at |-> now, previous |-> credentials,
           new |-> IF action = Rotation THEN credentials + 1 ELSE credentials]}
    /\ credentials' = IF action = Rotation THEN credentials + 1 ELSE credentials
    /\ UNCHANGED <<storageVars, evaluations, bootstraps, seeds, overtaken, crashes>>

\* An attempt at the action succeeds, if need be after others with the same key.
Advance(e, action) ==
    /\ e \in evaluations /\ Asks(e, action)
    /\ action \in Effects => EffectsOf(e, action) # {}
    /\ evaluations' = (evaluations \ {e}) \cup
         {[e EXCEPT !.todo = @ \ {action},
                    !.rotation = IF action = Rotation THEN EffectsOf(e, action) ELSE @,
                    !.drill = IF action = Drill THEN EffectsOf(e, action) ELSE @,
                    !.observed = IF action = Health THEN credentials ELSE @,
                    !.completed = IF action = Health THEN now ELSE @]}
    /\ UNCHANGED <<storageVars, bootstraps, seeds, overtaken, providerVars, crashes>>

-----------------------------------------------------------------------------
(* The end of a tick *)

ClearActive(t) == active' = IF active = t THEN None ELSE active

Decided(t, result) ==
    [journal EXCEPT ![t].state = "completed", ![t].result = result]

\* completeExecution: an evaluation that is not due, or that holds, leaves the snapshot alone.
CompleteExecution(e, result) ==
    /\ journal' = Decided(e.trigger, result)
    /\ ClearActive(e.trigger)
    /\ UNCHANGED snapshot

EvaluationEnds(e) ==
    /\ evaluations' = evaluations \ {e}
    /\ UNCHANGED <<bootstraps, seeds, overtaken, providerVars, crashes>>

EndsIdle(e) ==
    /\ e \in evaluations /\ ~Due(e.base, e.at)
    /\ CompleteExecution(e, Idle)
    /\ EvaluationEnds(e)

\* A check, an action after its last attempt, or the evidence fails at some point.
EndsOnHold(e) ==
    /\ e \in evaluations
    /\ CompleteExecution(e, Hold)
    /\ EvaluationEnds(e)

Passes(e) ==
    /\ e \in evaluations /\ e.todo = {}
    /\ Due(e.base, e.at) /\ ~Overdue(e.base, e.at)
    /\ GatePasses(e)

\* Mutant: the snapshot is replaced whatever it is by now.
CanCommitBlindly(e) ==
    snapshot # None /\ HasRow(e.trigger) /\ Row(e.trigger).state = "running"

CanCommit(e) ==
    /\ snapshot # None /\ snapshot.run = e.base.run
    /\ HasRow(e.trigger) /\ Row(e.trigger).state = "running"

\* completePassExecution commits the next snapshot and the outcome together.
EndsWithPass(e) ==
    /\ Passes(e) /\ CanCommit(e)
    /\ snapshot' = NextSnapshot(e)
    /\ journal' = Decided(e.trigger, Pass(NextSnapshot(e).run))
    /\ ClearActive(e.trigger)
    /\ EvaluationEnds(e)

\* interruptExecution: the trigger keeps the scope until it is replayed.
InterruptExecution(t) ==
    /\ journal' = [journal EXCEPT ![t].state = "interrupted"]
    /\ UNCHANGED <<snapshot, active>>

\* Mutant: the conflict is returned, not thrown, and the journal stays as it is.
EndsInConflictQuietly(e) ==
    /\ Passes(e) /\ ~CanCommit(e)
    /\ UNCHANGED storageVars
    /\ EvaluationEnds(e)

\* The snapshot is not the evaluation's base any more: engine-snapshot-cas-conflict.
EndsInConflict(e) ==
    /\ Passes(e) /\ ~CanCommit(e)
    /\ InterruptExecution(e.trigger)
    /\ EvaluationEnds(e)

\* The automation, or the transaction that completes it, throws.
Throws(e) ==
    /\ e \in evaluations
    /\ InterruptExecution(e.trigger)
    /\ EvaluationEnds(e)

-----------------------------------------------------------------------------
(* bootstrap and crashes *)

\* What an operator seeds: verified evidence of the provider as it is now, after a cycle that
\* rotated and exercised.  The operator names the current run, or is refused.
Seed ==
    [run |-> -1 - seeds, due |-> now + Cadence, credentials |-> credentials,
     rotationDue |-> now + RotationCadence, drillDue |-> now + DrillCadence]

BootstrapBegins ==
    /\ active = None /\ seeds < MaxSeeds
    /\ bootstraps' = bootstraps \cup {[seed |-> Seed, late |-> FALSE]}
    /\ seeds' = seeds + 1
    /\ UNCHANGED <<storageVars, evaluations, overtaken, providerVars, crashes>>

\* The validation has passed; what was checked before it is not checked again.
BootstrapSeeds(b) ==
    /\ b \in bootstraps
    /\ snapshot' = b.seed
    /\ bootstraps' = Late(bootstraps \ {b})
    /\ overtaken' = (overtaken \/ b.late)
    /\ UNCHANGED <<active, journal, evaluations, seeds, providerVars, crashes>>

EngineCrash ==
    /\ crashes < MaxCrashes
    /\ evaluations # {} \/ bootstraps # {}
    /\ evaluations' = {} /\ bootstraps' = {}
    /\ crashes' = crashes + 1
    /\ UNCHANGED <<storageVars, seeds, overtaken, providerVars>>
=============================================================================
