----------------------------- MODULE UnzenClient -----------------------------
(***************************************************************************)
(* UnzenClient.runExecution (core/packages/client/src/unzen-client.ts): one *)
(* execution fetches the manifest and the code, runs it in the browser and  *)
(* falls back to the server, telling a listener what it does.  The caller   *)
(* may abort it and dispose() ends every execution under way; the listener  *)
(* may do either from inside an event, in the middle of a handler.          *)
(*                                                                         *)
(* Between two awaits the code runs without interruption, so a step of an   *)
(* execution is an operator from the client's state to the set of states    *)
(* it may leave, one for each thing a listener may do.                      *)
(***************************************************************************)
EXTENDS Naturals, FiniteSets, SequencesExt

CONSTANTS
    Executions,
    None

VARIABLES
    mode,           \* the client's routing mode, given to its constructor
    disposed,       \* the client's flag
    runs            \* what runExecution keeps for each execution, and its history: the events its
                    \* listener saw (`late`: after the internal signal) and whether its inputs were
                    \* sent, and sent late

vars == <<mode, disposed, runs>>

Modes == {"production", "development", "browser-only"}

\* What the manifest may say of a function; None: it is not listed.
Entries == [runtime : {"quickjs", "moonbit"}, noFallback : BOOLEAN]
Awaits == {"manifest", "code", "browser", "server"}
Terminals == {"completed", "cancelled", "failed"}
Answers == {"ok", "function", "deadline", "failure", "cancelled"}
Codes == {"completed", "cancelled", "manifest_fetch_failed", "code_fetch_failed",
          "browser_runtime_failed", "deadline_exceeded", "function_failed",
          "server_fallback_failed", "client_disposed"}
\* The constant that stands for no value at all.
ConstantsSound == None \notin Answers
Events == Terminals \cup {"accepted", "manifest-fetch-started", "manifest-fetch-completed",
    "code-fetch-started", "code-fetch-completed", "sandbox-initializing",
    "browser-execution-started", "browser-execution-failed", "fallback-started",
    "server-execution-started", "cancel-requested"}

NewRun ==
    [phase |-> "idle", answer |-> None, entry |-> None, caller |-> FALSE, aborted |-> FALSE,
     requested |-> FALSE, terminal |-> FALSE, log |-> <<>>, late |-> {}, sent |-> "no", attempts |-> <<>>,
     fallbackUsed |-> FALSE, finalRoute |-> None, lastOn |-> None, outcome |-> None]

Init ==
    /\ mode \in Modes
    /\ disposed = FALSE
    /\ runs = [r \in Executions |-> NewRun]

\* The client as one value, which the operators below take and return.
Client == [disposed |-> disposed, runs |-> runs]
Becomes(s) == disposed' = s.disposed /\ runs' = s.runs /\ UNCHANGED mode

\* Every state the second operator leads to from a state of the first's.
Then(states, Op(_)) == UNION {Op(s) : s \in states}

InFlight(run) == run.phase \notin {"idle", "done"}

-----------------------------------------------------------------------------
(* Events, listeners and cancellation.                                     *)

\* Mutant: the internal signal does not interrupt the operation under way.
InterruptLater(run) == [run EXCEPT !.aborted = TRUE]

\* internalController.abort(): an operation under way loses the race with it.
Interrupt(run) ==
    [run EXCEPT !.aborted = TRUE,
                !.answer = IF run.phase \in Awaits /\ @ = None THEN "cancelled" ELSE @]

DisposeClient(s) ==
    IF s.disposed THEN s
    ELSE [disposed |-> TRUE,
          runs |-> [r \in Executions |-> IF InFlight(s.runs[r]) THEN Interrupt(s.runs[r])
                                         ELSE s.runs[r]]]

\* Mutant: only the terminal event silences the execution.
SuppressedWhenTerminal(run, type) == run.terminal

Suppressed(run, type) == run.terminal \/ (run.requested /\ type # "cancelled")

Logged(run, type) ==
    [run EXCEPT !.log = Append(@, type),
                !.late = IF run.aborted THEN @ \cup {type} ELSE @,
                !.terminal = @ \/ type \in Terminals,
                !.requested = @ \/ type \in Terminals \cup {"cancel-requested"}]

Log(s, r, type) == [s EXCEPT !.runs[r] = Logged(@, type)]

\* forwardAbort: the request is announced before the internal signal fires; that listener may
\* dispose the client.
CallerAborts(s, r) ==
    LET t == [s EXCEPT !.runs[r].caller = TRUE]
        told == IF Suppressed(t.runs[r], "cancel-requested") THEN {t}
                ELSE LET u == Log(t, r, "cancel-requested") IN {u, DisposeClient(u)}
    IN  IF ~InFlight(s.runs[r]) THEN {t}
        ELSE {[u EXCEPT !.runs[r] = Interrupt(@)] : u \in told}

\* emit(): the listener looks on, aborts this execution or disposes the client.
Emit(s, r, type) ==
    IF Suppressed(s.runs[r], type) THEN {s}
    ELSE LET t == Log(s, r, type) IN
         {t, DisposeClient(t)} \cup (IF t.runs[r].caller THEN {} ELSE CallerAborts(t, r))

\* The finally of runExecution and the outcome its caller sees.
Finish(s, r, code) ==
    {[s EXCEPT !.runs[r].phase = "done", !.runs[r].outcome = code]}

Cancelled(s, r) ==
    Then(Emit(s, r, "cancelled"), LAMBDA t : Finish(t, r, "cancelled"))

Fail(s, r, code) ==
    Then(Emit(s, r, "failed"), LAMBDA t : Finish(t, r, code))

\* The check that follows an await or an event.
UnlessAborted(s, r, Op(_)) ==
    IF s.runs[r].aborted THEN Cancelled(s, r) ELSE Op(s)

EmitThen(s, r, type, Op(_)) ==
    Then(Emit(s, r, type), LAMBDA t : UnlessAborted(t, r, Op))

\* An operation raced with the internal signal begins; if that has fired, it is lost already.
Await(s, r, phase) ==
    [s EXCEPT !.runs[r].phase = phase,
              !.runs[r].answer = IF s.runs[r].aborted THEN "cancelled" ELSE None]

PushAttempt(s, r, kind, outcome, code) ==
    [s EXCEPT !.runs[r].attempts = Append(@, [kind |-> kind, outcome |-> outcome, code |-> code])]

-----------------------------------------------------------------------------
(* The stretches of runExecution between two awaits.                       *)

FetchManifest(s, r) ==
    LET route == IF mode = "development" THEN "server" ELSE "browser" IN
    Then(Emit([s EXCEPT !.runs[r].lastOn = route], r, "manifest-fetch-started"),
         LAMBDA t : {Await(t, r, "manifest")})

\* execute(): an aborted signal is seen before anything else, then the client's own flag.
StartRun(s, r) ==
    LET t == [s EXCEPT !.runs[r].phase = "running"] IN
    IF s.runs[r].caller THEN Cancelled(t, r)
    ELSE IF s.disposed THEN Fail(t, r, "client_disposed")
    ELSE EmitThen(t, r, "accepted", LAMBDA u : FetchManifest(u, r))

\* FallbackHandler.execute refuses an aborted signal, before and after the arguments are serialised:
\* that calls code of the application, which may abort, dispose or fail.
Serialised(s, r) ==
    {s, DisposeClient(s)} \cup (IF s.runs[r].caller THEN {} ELSE CallerAborts(s, r))

Send(s, r) == [s EXCEPT !.runs[r].sent = IF s.runs[r].aborted THEN "late" ELSE "live"]

\* Mutant: the signal is not looked at again after the arguments are serialised.
CallServerUnchecked(s, r) ==
    LET t == Await(s, r, "server") IN
    IF t.runs[r].aborted THEN {t}
    ELSE { Send(u, r) : u \in Serialised(t, r) } \cup {[t EXCEPT !.runs[r].answer = "function"]}

CallServer(s, r) ==
    LET t == Await(s, r, "server") IN
    IF t.runs[r].aborted THEN {t}
    ELSE { IF u.runs[r].aborted THEN u ELSE Send(u, r) : u \in Serialised(t, r) }
         \cup {[t EXCEPT !.runs[r].answer = "function"]}

ServerOnly(run) == ~run.entry.noFallback /\ run.entry.runtime # "moonbit"

\* Mutant: the manifest is not asked whether inputs may be sent.
AfterManifestTrusting(s, r) ==
    EmitThen(s, r, "server-execution-started", LAMBDA t : CallServer(t, r))

\* development: the manifest must prove that the inputs may be sent.
AfterManifestDevelopment(s, r) ==
    IF ServerOnly(s.runs[r])
    THEN EmitThen(s, r, "server-execution-started", LAMBDA t : CallServer(t, r))
    ELSE Fail(s, r, "browser_runtime_failed")

FetchCode(s, r) ==
    Then(Emit(s, r, "code-fetch-started"), LAMBDA t : {Await(t, r, "code")})

AfterManifest(s, r, answer) ==
    IF answer = "cancelled" \/ s.runs[r].aborted THEN Cancelled(s, r)
    ELSE IF answer # "ok" THEN Fail(s, r, "manifest_fetch_failed")
    ELSE EmitThen(s, r, "manifest-fetch-completed",
            LAMBDA t : IF t.runs[r].entry = None THEN Fail(t, r, "function_failed")
                       ELSE IF mode = "development" THEN AfterManifestDevelopment(t, r)
                       ELSE FetchCode(t, r))

\* The executor is asked whether it has to initialise; the events before it runs are not
\* followed by a check of the signal.
RunInBrowser(s, r) ==
    Then({s} \cup Emit(s, r, "sandbox-initializing"),
         LAMBDA t : Then(Emit(t, r, "browser-execution-started"),
                         LAMBDA u : {Await(u, r, "browser")}))

AfterCode(s, r, answer) ==
    IF answer = "cancelled" \/ s.runs[r].aborted THEN Cancelled(s, r)
    ELSE IF answer # "ok" THEN Fail(s, r, "code_fetch_failed")
    ELSE EmitThen(s, r, "code-fetch-completed", LAMBDA t : RunInBrowser(t, r))

Complete(s, r, route) ==
    Then(Emit([PushAttempt(s, r, route, "succeeded", None) EXCEPT !.runs[r].finalRoute = route],
              r, "completed"),
         LAMBDA t : Finish(t, r, "completed"))

\* The two codes of a failed server attempt, network or other, are one here.
classifyError(answer, phase) ==
    CASE answer = "function" -> "function_failed"
      [] answer = "deadline" -> "deadline_exceeded"
      [] answer \in {"ok", "cancelled"} -> "cancelled"
      [] OTHER -> IF phase = "browser" THEN "browser_runtime_failed" ELSE "server_fallback_failed"

Fallback(s, r) ==
    LET t == [s EXCEPT !.runs[r].fallbackUsed = TRUE, !.runs[r].lastOn = "server"] IN
    EmitThen(t, r, "fallback-started",
        LAMBDA u : EmitThen(u, r, "server-execution-started", LAMBDA v : CallServer(v, r)))

\* A failure of the function is final; one of the environment falls back where that is allowed.
AfterBrowser(s, r, answer) ==
    IF answer = "cancelled" \/ s.runs[r].aborted
    THEN Cancelled(PushAttempt(s, r, "browser", "cancelled", "cancelled"), r)
    ELSE IF answer = "ok" THEN Complete(s, r, "browser")
    ELSE EmitThen(PushAttempt(s, r, "browser", "failed", classifyError(answer, "browser")), r, "browser-execution-failed",
            LAMBDA t : IF answer # "function" /\ mode = "production" /\ ServerOnly(t.runs[r])
                       THEN Fallback(t, r)
                       ELSE Fail(t, r, classifyError(answer, "browser")))

\* Mutant: a server attempt that fails is not recorded.
AfterServerUnrecorded(s, r, answer) ==
    IF answer = "ok" /\ ~s.runs[r].aborted THEN Complete(s, r, "server")
    ELSE IF answer = "cancelled" \/ s.runs[r].aborted THEN Cancelled(s, r)
    ELSE Fail(s, r, classifyError(answer, "server"))

AfterServer(s, r, answer) ==
    IF answer = "ok" /\ ~s.runs[r].aborted THEN Complete(s, r, "server")
    ELSE LET outcome == IF answer \in {"ok", "cancelled"} THEN "cancelled" ELSE "failed"
             t == PushAttempt(s, r, "server", outcome, classifyError(answer, "server"))
         IN  IF answer = "cancelled" \/ s.runs[r].aborted THEN Cancelled(t, r)
             ELSE Fail(t, r, classifyError(answer, "server"))

-----------------------------------------------------------------------------

Start(r) ==
    /\ runs[r].phase = "idle"
    /\ \E s \in StartRun(Client, r) : Becomes(s)

\* A request that is not well formed is refused before its listener is known.
RefuseRequest(r) ==
    /\ runs[r].phase = "idle"
    /\ \E s \in Finish(Client, r, "function_failed") : Becomes(s)

\* What the execution waits for ends; the manifest says what it says.
Answer(r) ==
    /\ runs[r].phase \in Awaits
    /\ runs[r].answer = None
    /\ \E answer \in Answers \ {"cancelled"}, entry \in Entries \cup {None} :
          /\ runs[r].phase \in {"manifest", "code"} => answer \in {"ok", "failure"}
          /\ entry # runs[r].entry => runs[r].phase = "manifest" /\ answer = "ok"
          /\ runs' = [runs EXCEPT ![r].answer = answer, ![r].entry = entry]
    /\ UNCHANGED <<mode, disposed>>

\* The code after the await.
Continue(r) ==
    /\ runs[r].phase \in Awaits
    /\ runs[r].answer # None
    /\ LET answer == runs[r].answer
           s == [Client EXCEPT !.runs[r].phase = "running", !.runs[r].answer = None]
       IN  \E t \in CASE runs[r].phase = "manifest" -> AfterManifest(s, r, answer)
                      [] runs[r].phase = "code" -> AfterCode(s, r, answer)
                      [] runs[r].phase = "browser" -> AfterBrowser(s, r, answer)
                      [] OTHER -> AfterServer(s, r, answer) : Becomes(t)

Abort(r) ==
    /\ ~runs[r].caller
    /\ runs[r].phase # "done"
    /\ \E s \in CallerAborts(Client, r) : Becomes(s)

Dispose ==
    /\ ~disposed
    /\ Becomes(DisposeClient(Client))

Next ==
    \/ \E r \in Executions : Start(r) \/ RefuseRequest(r) \/ Answer(r) \/ Continue(r) \/ Abort(r)
    \/ Dispose

Spec == Init /\ [][Next]_vars

-----------------------------------------------------------------------------
(* Properties.                                                             *)

Attempts == [kind : {"browser", "server"}, outcome : {"succeeded", "failed", "cancelled"},
             code : Codes \cup {None}]

TypeOK ==
    /\ mode \in Modes
    /\ disposed \in BOOLEAN
    /\ runs \in [Executions ->
         [phase : {"idle", "done"} \cup Awaits, answer : Answers \cup {None},
          entry : Entries \cup {None}, caller : BOOLEAN, aborted : BOOLEAN, requested : BOOLEAN,
          terminal : BOOLEAN, log : Seq(Events), late : SUBSET Events,
          sent : {"no", "live", "late"}, attempts : Seq(Attempts),
          fallbackUsed : BOOLEAN, finalRoute : {"browser", "server", None},
          lastOn : {"browser", "server", None}, outcome : Codes \cup {None}]]

Has(r, type) == \E i \in DOMAIN runs[r].log : runs[r].log[i] = type

\* "Exactly one terminal event is emitted per execution", it is the last, and it agrees with what
\* the caller is told, whatever listeners do while it is emitted.  Cancel is final: once it is
\* announced no phase event follows and the execution ends as cancelled, even if its result has
\* arrived.
OneTerminalEvent ==
    \A r \in Executions :
        LET log == runs[r].log
            ends == {i \in DOMAIN log : log[i] \in Terminals}
        IN  /\ IF runs[r].phase # "done" \/ log = <<>> THEN ends = {}
               ELSE /\ ends = {Len(log)}
                    /\ log[Len(log)] = (IF runs[r].outcome \in {"completed", "cancelled"}
                                        THEN runs[r].outcome ELSE "failed")
            /\ \A i \in DOMAIN log : log[i] = "cancel-requested" =>
                  /\ \A j \in DOMAIN log : j > i => log[j] = "cancelled"
                  /\ runs[r].phase = "done" => runs[r].outcome = "cancelled"

\* Inputs reach the server at most where the manifest and the mode allow it, and in production
\* only after the browser failed for a reason that is not the function's own.
InputsStayPrivate ==
    \A r \in Executions :
        runs[r].sent # "no" =>
            /\ mode # "browser-only"
            /\ runs[r].entry # None /\ ServerOnly(runs[r])
            /\ mode = "production" =>
                 /\ runs[r].attempts # <<>>
                 /\ Head(runs[r].attempts).kind = "browser"
                 /\ Head(runs[r].attempts).code \in {"browser_runtime_failed", "deadline_exceeded"}

\* No request leaves for the server once the execution has been cancelled or the client disposed,
\* be it from a listener or while the arguments are serialised; nor is one sent twice.
NothingSentAfterCancel ==
    /\ \A r \in Executions : runs[r].sent # "late"
    /\ \A r \in Executions : runs[r].sent # "no" =>
          Cardinality({i \in DOMAIN runs[r].log : runs[r].log[i] = "server-execution-started"}) = 1

\* The diagnostics tell the truth: the final route is that of the last attempt, which is the only
\* one that succeeded; every attempt was announced; a server attempt is recorded for inputs sent.
DiagnosticsAgree ==
    /\ TypeOK
    /\ \A r \in Executions :
        LET run == runs[r]
            won == {i \in DOMAIN run.attempts : run.attempts[i].outcome = "succeeded"}
        IN  run.phase = "done" =>
              /\ won = (IF run.outcome = "completed" THEN {Len(run.attempts)} ELSE {})
              /\ run.outcome = "completed" => run.finalRoute = Last(run.attempts).kind
              /\ run.outcome # "completed" => run.finalRoute = None
              /\ \A i \in DOMAIN run.attempts :
                    run.attempts[i].kind = "server" => Has(r, "server-execution-started")
              /\ run.sent # "no" => run.attempts # <<>> /\ Last(run.attempts).kind = "server"
              /\ run.outcome \notin {"completed", "cancelled"} /\ run.attempts # <<>>
                    => Last(run.attempts).code = run.outcome

\* Cancelling or disposing leaves no promise unsettled: an execution that was cancelled, from
\* outside or from inside any of its own events, waits for nothing any more, so it ends although
\* neither the network nor the worker ever answers.
CancelledRunWaitsForNobody ==
    \A r \in Executions :
        InFlight(runs[r]) /\ (runs[r].caller \/ disposed) => runs[r].answer # None

\* The comment at the check after browser-execution-failed: fallbackUsed is not marked "for a run
\* that never reached the server attempt".
FallbackReachesServer ==
    \A r \in Executions :
        runs[r].phase = "done" /\ runs[r].fallbackUsed => Has(r, "server-execution-started")

\* The comment on cancellationRequested: once "the internal signal aborts", "no new phase event
\* may be emitted -- only the terminal cancelled may follow".
QuietAfterDispose ==
    \A r \in Executions : runs[r].late \subseteq {"cancel-requested", "cancelled"}
=============================================================================
