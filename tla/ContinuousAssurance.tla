------------------------ MODULE ContinuousAssurance ------------------------
(***************************************************************************)
(* Continuous assurance as it is deployed: the cron runtime, a Durable     *)
(* Object with a ledger of triggers, and the engine it calls through a     *)
(* service binding.  A trigger is named by its scheduled time and may be   *)
(* delivered any number of times.  The runtime reads its ledger before the *)
(* call and uses what it read after it; meanwhile the lease may expire and *)
(* the trigger be delivered again, the call may fail on either side, and   *)
(* either object may crash.                                                *)
(***************************************************************************)
EXTENDS AssuranceEngine

CONSTANTS
    Lease,          \* RUN_LEASE_MS
    MaxTime,        \* bound of the clock
    MaxReplays      \* bound of the deliveries of a trigger that reach the engine

ASSUME RuntimeAssumption == Lease \in Nat /\ MaxTime \in Nat /\ MaxReplays \in Nat

VARIABLES
    ledger,         \* execution_ledger: a function on the triggers that have a row
    requests,       \* ticks sent to the engine and not received
    waiting,        \* the runtime's calls of the engine, with what it read before
    replies         \* the engine's answers on their way to a waiting call

vars == <<now, engineVars, ledger, requests, waiting, replies>>

\* An answer without a result stands for every status other than 200.
Failed == [status |-> "failed", run |-> None]

Init ==
    /\ EngineInit
    /\ ledger = NoRows /\ requests = {} /\ waiting = {} /\ replies = {}

-----------------------------------------------------------------------------
(* runScheduled *)

Received(t) == t \in DOMAIN ledger

\* A completed trigger answers from the ledger; a leased one is in progress.
Deliverable(t) ==
    Received(t) => ledger[t].state = "running" /\ ledger[t].lease <= now

ReplayOf(t) == IF Received(t) THEN ledger[t].replay + 1 ELSE 0
FailureOf(t) == IF Received(t) THEN ledger[t].failure ELSE None

Deliver(t) ==
    /\ t <= now /\ Deliverable(t) /\ ReplayOf(t) <= MaxReplays
    /\ ledger' = [u \in DOMAIN ledger \cup {t} |->
                    IF u = t
                    THEN [state |-> "running", replay |-> ReplayOf(t), lease |-> now + Lease,
                          failure |-> FailureOf(t), result |-> None, keys |-> {}]
                    ELSE ledger[u]]
    /\ requests' = requests \cup {[trigger |-> t, replay |-> ReplayOf(t), at |-> now]}
    /\ waiting' = waiting \cup
         {[trigger |-> t, replay |-> ReplayOf(t), failure |-> FailureOf(t)]}
    /\ UNCHANGED <<now, engineVars, replies>>

Or(value, default) == IF value # None THEN value ELSE default

\* The runtime looks for the keys of the attempts under a name the engine does not use.
AttemptedKeys(result) == IF "attempts" \in DOMAIN result THEN result.attempts ELSE {}

Answers(reply, call) == reply.trigger = call.trigger /\ reply.replay = call.replay

\* The answer is a result: the row is completed with it.
Complete(call, reply) ==
    /\ call \in waiting /\ reply \in replies /\ Answers(reply, call)
    /\ reply.result # Failed
    /\ ledger' = [ledger EXCEPT
                    ![call.trigger].state = "completed",
                    ![call.trigger].failure =
                        Or(call.failure, IF reply.result = Hold THEN "hold" ELSE None),
                    ![call.trigger].result = reply.result,
                    ![call.trigger].keys = AttemptedKeys(reply.result)]
    /\ waiting' = waiting \ {call} /\ replies' = replies \ {reply}
    /\ UNCHANGED <<now, engineVars, requests>>

\* The answer is an error, or the call fails whatever became of the tick.
Fail(call) ==
    /\ call \in waiting
    /\ ledger' = [ledger EXCEPT ![call.trigger].failure = Or(call.failure, "engine-failed")]
    /\ waiting' = waiting \ {call}
    /\ replies' = {reply \in replies : ~Answers(reply, call)}
    /\ UNCHANGED <<now, engineVars, requests>>

RuntimeCrash ==
    /\ waiting # {}
    /\ waiting' = {} /\ replies' = {}
    /\ UNCHANGED <<now, engineVars, ledger, requests>>

-----------------------------------------------------------------------------
(* The engine's side of a tick *)

\* An answer that nobody waits for is lost.
Reply(t, replay, result) ==
    replies' = replies \cup
      {r \in {[trigger |-> t, replay |-> replay, result |-> result]} :
         \E call \in waiting : Answers(r, call)}

Receive(request) ==
    /\ request \in requests
    /\ requests' = requests \ {request}
    /\ UNCHANGED <<now, ledger, waiting>>

TickClaims(request) ==
    Receive(request) /\ Claim(request) /\ UNCHANGED replies

\* There is no snapshot, the trigger is under way or the scope is another's.
TickRefused(request) ==
    /\ Receive(request)
    /\ ~Completed(request.trigger) \/ snapshot = None
    /\ snapshot = None \/ ~Claimable(request)
    /\ Reply(request.trigger, request.replay, Failed)
    /\ UNCHANGED engineVars

\* A completed trigger answers from the journal.
TickRepeated(request) ==
    /\ Receive(request)
    /\ snapshot # None /\ Completed(request.trigger)
    /\ Reply(request.trigger, request.replay, Row(request.trigger).result)
    /\ UNCHANGED engineVars

EngineStep(step) == step /\ UNCHANGED <<now, ledger, requests, waiting, replies>>

\* A tick that ends answers its call.
TickEnds(e) ==
    /\ \/ EndsIdle(e) /\ Reply(e.trigger, e.replay, Idle)
       \/ EndsOnHold(e) /\ Reply(e.trigger, e.replay, Hold)
       \/ EndsWithPass(e) /\ Reply(e.trigger, e.replay, Pass(NextSnapshot(e).run))
       \/ (EndsInConflict(e) \/ Throws(e)) /\ Reply(e.trigger, e.replay, Failed)
    /\ UNCHANGED <<now, ledger, requests, waiting>>

Tick ==
    /\ now < MaxTime
    /\ now' = now + 1
    /\ UNCHANGED <<engineVars, ledger, requests, waiting, replies>>

Next ==
    \/ Tick
    \/ \E t \in Triggers : Deliver(t)
    \/ \E call \in waiting : Fail(call) \/ \E reply \in replies : Complete(call, reply)
    \/ RuntimeCrash
    \/ \E request \in requests :
         TickClaims(request) \/ TickRefused(request) \/ TickRepeated(request)
    \/ \E e \in evaluations :
         \/ TickEnds(e)
         \/ \E action \in Actions : EngineStep(Advance(e, action))
         \/ \E action \in Effects : EngineStep(Perform(e, action))
    \/ EngineStep(BootstrapBegins)
    \/ \E b \in bootstraps : EngineStep(BootstrapSeeds(b))
    \/ EngineStep(EngineCrash)

Spec == Init /\ [][Next]_vars
-----------------------------------------------------------------------------
(* Types *)

Events == [key : Int \X Effects, at : Nat, previous : Nat, new : Nat]

Evaluations ==
    [trigger : Triggers, replay : Nat, at : Nat, base : Snapshots, todo : SUBSET Actions,
     rotation : SUBSET Events, drill : SUBSET Events, observed : Nat, completed : Nat]

JournalRows ==
    [state : {"running", "interrupted", "completed"}, replay : Nat, base : Int,
     result : Results \cup {None}]

Failures == {None, "hold", "engine-failed"}

LedgerRows ==
    [state : {"running", "completed"}, replay : Nat, lease : Nat, failure : Failures,
     result : Results \cup {None}, keys : {{}}]

TypeOK ==
    /\ now \in Nat /\ seeds \in Nat /\ crashes \in Nat /\ credentials \in Nat
    /\ snapshot \in Snapshots \cup {None}
    /\ active \in Triggers \cup {None}
    /\ DOMAIN journal \subseteq Triggers /\ journal \in [DOMAIN journal -> JournalRows]
    /\ DOMAIN ledger \subseteq Triggers /\ ledger \in [DOMAIN ledger -> LedgerRows]
    /\ evaluations \subseteq Evaluations
    /\ bootstraps \subseteq [seed : Snapshots, late : BOOLEAN] /\ overtaken \in BOOLEAN
    /\ performed \subseteq Events
    /\ requests \subseteq [trigger : Triggers, replay : Nat, at : Nat]
    /\ waiting \subseteq [trigger : Triggers, replay : Nat, failure : Failures]
    /\ replies \subseteq [trigger : Triggers, replay : Nat, result : Results \cup {Failed}]

-----------------------------------------------------------------------------
(* Properties *)

\* A trigger that the engine has begun and not decided is being evaluated, or its row in the
\* ledger is still running and the replay that the next delivery sends will be claimed.
Recoverable ==
    \A t \in DOMAIN journal :
      ~Completed(t) =>
        \/ \E e \in evaluations : e.trigger = t
        \/ /\ Received(t) /\ ledger[t].state = "running"
           /\ Claimable([trigger |-> t, replay |-> ReplayOf(t)])

\* As long as the engine has not crashed, no failure of a call on either side, in whatever
\* order deliveries overlap, leaves a trigger or the scope occupied for good (claimExecution,
\* interruptExecution, runScheduled).
ScopeRecoverable ==
    /\ crashes = 0 => Recoverable
    /\ active # None => HasRow(active) /\ ~Completed(active)

\* A rotation is never lost: the snapshot has the provider's credentials, or the cycle that
\* it makes due has rotated from the snapshot's credentials to the provider's, and gets that
\* event again under the same key, whatever held, crashed or was replayed since.  Bootstraps
\* stored although a tick was claimed during their validation are the exception.
RotationKept ==
    snapshot # None /\ ~overtaken =>
      \/ snapshot.credentials = credentials
      \/ \E event \in performed :
           /\ event.key = <<snapshot.due, Rotation>>
           /\ event.previous = snapshot.credentials /\ event.new = credentials

-----------------------------------------------------------------------------
(* The contract: outcomes, commits and what the runtime reports of them *)

OutcomeOf(t) == IF Completed(t) THEN Row(t).result ELSE None

ReportOf(t) == IF Received(t) /\ ledger[t].state = "completed" THEN ledger[t].result ELSE None

Contract == INSTANCE AssuranceContract WITH
    current <- IF snapshot = None THEN None ELSE snapshot.run,
    working <- {[trigger |-> e.trigger, base |-> e.base.run] : e \in evaluations},
    outcome <- [t \in Triggers |-> OutcomeOf(t)],
    report <- [t \in Triggers |-> ReportOf(t)]

\* Triggers are evaluated one at a time and decided once; a pass replaces exactly the run it
\* was derived from; and the ledger reports what the engine decided, in whatever order calls
\* fail, are repeated and are answered (completePassExecution, claimExecution, runScheduled).
ImplementsContract == Contract!Spec

-----------------------------------------------------------------------------
(* What the documents promise and the code breaks; Recoverable without its condition too *)

\* Once a failure is recorded it stays ("the original first failure is retained"); calls of
\* one trigger that overlap write what they read before.
FirstFailureKept ==
    [][\A t \in DOMAIN ledger :
         ledger[t].failure # None => ledger'[t].failure = ledger[t].failure]_vars

\* A completed row of a trigger that acted has the keys of its actions ("action idempotency
\* keys returned by the assurance engine").
ActionKeysRecorded ==
    \A t \in DOMAIN ledger :
      ledger[t].result # None /\ ledger[t].result.status = "pass" => ledger[t].keys # {}

\* A bootstrap never overwrites what happened during its validation ("engine-bootstrap-scope-
\* active", "engine-bootstrap-current-run-mismatch").
BootstrapExclusive == ~overtaken

\* A commit replaces the run that the journal names as its base.
JournalNamesBase ==
    [][snapshot # None /\ snapshot' # snapshot /\ bootstraps' = bootstraps =>
         \E t \in DOMAIN journal :
           Row(t).base = snapshot.run /\ journal'[t].state = "completed" /\ Row(t).state = "running"]_vars
=============================================================================
