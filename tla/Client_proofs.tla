--------------------------- MODULE Client_proofs ---------------------------
(***************************************************************************)
(* Proofs about the client library's execution pipeline and its two caches. *)
(*                                                                         *)
(* One execution of the client ends with one terminal event, keeps its      *)
(* inputs where they may go, tells the truth in its diagnostics and never   *)
(* hangs once cancelled, for any number of executions and whatever their    *)
(* listeners do.  An operator of UnzenClient goes through states in which   *)
(* no step of the system ends: the execution is "running" and its events    *)
(* are being told.  The argument follows the code: a lemma for emit(), one  *)
(* for each way to finish, and then one for each stretch between two        *)
(* awaits, which says that wherever listeners interfere the execution is    *)
(* left sound, and the other executions with it.                           *)
(*                                                                         *)
(* The manifest cache has its properties for any number of calls, versions  *)
(* and invalidations.  The argument turns on the request that may still     *)
(* commit: there is one at most, invalidate() and the last waiter abort it  *)
(* in the step that forgets it, and so the fetcher's fields cannot change   *)
(* under a request between its answer and its commit.                      *)
(*                                                                         *)
(* The code cache keeps its account for codes of every size: sums over sets *)
(* of hashes are counted one hash at a time, by an induction over the size  *)
(* of the set, and each eviction splits the cache in what goes and what     *)
(* stays.  Its requests are the mirror image of the map of downloads: a     *)
(* hash maps to a request exactly while that request may still store it.    *)
(***************************************************************************)
EXTENDS UnzenClient, ManifestFetcher, CodeFetcher, SequenceTheorems, FiniteSetTheorems, TLAPS

-----------------------------------------------------------------------------
(* The inductive invariant.                                                *)

Phases == {"idle", "running", "done"} \cup Awaits

\* A run's record, also in the middle of a handler.
RunRecord ==
    [phase : Phases, answer : Answers \cup {None},
     entry : Entries \cup {None}, caller : BOOLEAN, aborted : BOOLEAN, requested : BOOLEAN,
     terminal : BOOLEAN, log : Seq(Events), late : SUBSET Events,
     sent : {"no", "live", "late"}, attempts : Seq(Attempts),
     fallbackUsed : BOOLEAN, finalRoute : {"browser", "server", None},
     lastOn : {"browser", "server", None}, outcome : Codes \cup {None}]

ClientState == [disposed : BOOLEAN, runs : [Executions -> RunRecord]]

\* A terminal event is the last one, and after the request to cancel only "cancelled" follows.
LogSound(run) ==
    /\ \A i \in DOMAIN run.log : run.log[i] \in Terminals => i = Len(run.log) /\ run.terminal
    /\ run.terminal => run.log # <<>> /\ run.log[Len(run.log)] \in Terminals
    /\ \A i \in DOMAIN run.log : run.log[i] = "cancel-requested" =>
          /\ run.requested
          /\ \A j \in DOMAIN run.log : j > i => run.log[j] = "cancelled"

\* Where the server attempt was announced.
ServerStarts(log) == {i \in DOMAIN log : log[i] = "server-execution-started"}

\* No attempt has been made.
Quiet(run) == run.attempts = <<>> /\ run.sent = "no" /\ ServerStarts(run.log) = {}

\* The manifest and the mode, and in production the failure of the browser, allow the server.
MayServe(run, m) ==
    /\ m # "browser-only"
    /\ run.entry # None /\ ServerOnly(run)
    /\ m = "production" =>
         /\ run.attempts # <<>>
         /\ Head(run.attempts).kind = "browser"
         /\ Head(run.attempts).code \in {"browser_runtime_failed", "deadline_exceeded"}

StartedOnce(run) == \E i \in DOMAIN run.log : ServerStarts(run.log) = {i}

NoServerAttempt(run) == \A i \in DOMAIN run.attempts : run.attempts[i].kind = "browser"

Unwon(run) ==
    \A i \in DOMAIN run.attempts : run.attempts[i].outcome \in {"failed", "cancelled"}

\* What must hold of a run that ends, however it ends.
Closing(run, m) ==
    /\ run.sent # "no" => /\ run.sent = "live" /\ MayServe(run, m) /\ StartedOnce(run)
                          /\ run.attempts # <<>> /\ Last(run.attempts).kind = "server"
    /\ \A i \in DOMAIN run.attempts :
          run.attempts[i].kind = "server" => ServerStarts(run.log) # {}

\* A run that is neither idle nor done and has not seen its terminal event.
Open(run) == LogSound(run) /\ ~run.terminal /\ run.outcome = None /\ run.finalRoute = None /\ Unwon(run)

\* A cancelled run knows it.
Told(run, d) == (run.caller \/ d \/ run.requested) => run.aborted

Active(run, d) == Open(run) /\ Told(run, d)

\* The facts that a wait of each kind rests on.
Place(run, phase, m) ==
    /\ phase = "manifest" => Quiet(run)
    /\ phase \in {"code", "browser"} => Quiet(run) /\ run.entry # None /\ m # "development"
    /\ phase = "server" =>
          MayServe(run, m) /\ StartedOnce(run) /\ NoServerAttempt(run) /\ run.sent # "late"

Waiting(run, d, m) == Active(run, d) /\ (run.aborted => run.answer # None)
                   /\ Place(run, run.phase, m)

LastWon(run) ==
    /\ run.attempts # <<>>
    /\ Last(run.attempts).outcome = "succeeded"
    /\ \A i \in DOMAIN run.attempts : run.attempts[i].outcome = "succeeded" => i = Len(run.attempts)
    /\ run.finalRoute = Last(run.attempts).kind

Final(run, m) ==
    /\ LogSound(run) /\ Closing(run, m)
    /\ run.log # <<>> =>
         /\ run.terminal
         /\ run.log[Len(run.log)] = (IF run.outcome \in {"completed", "cancelled"}
                                     THEN run.outcome ELSE "failed")
    /\ run.outcome = "completed" => LastWon(run)
    /\ run.outcome # "completed" => Unwon(run) /\ run.finalRoute = None
    /\ run.outcome \notin {"completed", "cancelled"} /\ run.attempts # <<>> =>
         Last(run.attempts).code = run.outcome

Idle(run) == run = [NewRun EXCEPT !.caller = run.caller]

RunSound(run, d, m) ==
    \/ run.phase = "idle" /\ Idle(run)
    \/ run.phase \in Awaits /\ Waiting(run, d, m)
    \/ run.phase = "done" /\ Final(run, m)

IInv ==
    /\ mode \in Modes
    /\ Client \in ClientState
    /\ \A r \in Executions : RunSound(runs[r], disposed, mode)

-----------------------------------------------------------------------------
(* Events and what a listener may do.                                      *)

\* Telling an event changes none of the fields that the code decides by.
Same(x, y) ==
    /\ y.phase = x.phase /\ y.entry = x.entry /\ y.sent = x.sent /\ y.attempts = x.attempts
    /\ y.finalRoute = x.finalRoute /\ y.outcome = x.outcome

\* The step of execution r leaves the others sound.
OthersKept(s, t, r) ==
    \A q \in Executions \ {r} :
        RunSound(s.runs[q], s.disposed, mode) => RunSound(t.runs[q], t.disposed, mode)

\* What a listener, or the application's code under serialisation, does to run x of a client with
\* flag d.
Interfered(x, d, y, e) ==
    /\ Same(x, y)
    /\ y.terminal = x.terminal
    /\ \/ y.log = x.log
       \/ ~x.terminal /\ y.log = Append(x.log, "cancel-requested")
    /\ LogSound(x) => LogSound(y)
    /\ Told(x, d) => Told(y, e)
    /\ x.phase \in Awaits /\ (x.aborted => x.answer # None) => (y.aborted => y.answer # None)

LEMMA SetRun ==
    ASSUME NEW s \in ClientState, NEW r \in Executions, NEW y \in RunRecord
    PROVE  LET t == [s EXCEPT !.runs[r] = y] IN
           /\ t \in ClientState
           /\ t.disposed = s.disposed
           /\ t.runs[r] = y
           /\ \A q \in Executions \ {r} : t.runs[q] = s.runs[q]
BY DEF ClientState

\* An update of fields of one run is an update of that run.
LEMMA SetField ==
    ASSUME NEW s, NEW r, NEW a
    PROVE  [s EXCEPT !.runs[r].caller = a] = [s EXCEPT !.runs[r] = [s.runs[r] EXCEPT !.caller = a]]
OBVIOUS

LEMMA LoggedRun ==
    ASSUME NEW x \in RunRecord, NEW type \in Events
    PROVE  LET y == Logged(x, type) IN
           /\ y \in RunRecord
           /\ Same(x, y) /\ y.answer = x.answer /\ y.caller = x.caller /\ y.aborted = x.aborted
           /\ y.log = Append(x.log, type)
           /\ (y.terminal <=> x.terminal \/ type \in Terminals)
           /\ (y.requested <=> x.requested \/ type \in Terminals \cup {"cancel-requested"})
<1> DEFINE a == Append(x.log, type)
           b == IF x.aborted THEN x.late \cup {type} ELSE x.late
           c == x.terminal \/ type \in Terminals
           d == x.requested \/ type \in Terminals \cup {"cancel-requested"}
<1>1. a \in Seq(Events) /\ b \in SUBSET Events /\ c \in BOOLEAN /\ d \in BOOLEAN
  BY DEF RunRecord
<1>2. Logged(x, type) = [x EXCEPT !.log = a, !.late = b, !.terminal = c, !.requested = d]
  BY DEF Logged
<1> HIDE DEF a, b, c, d
<1>3. Logged(x, type) \in RunRecord
  <2> DEFINE y == [x EXCEPT !.log = a, !.late = b]
  <2>1. y \in RunRecord
    BY <1>1 DEF RunRecord
  <2>2. Logged(x, type) = [y EXCEPT !.terminal = c, !.requested = d]
    BY <1>2
  <2> HIDE DEF y
  <2> QED
    BY <1>1, <2>1, <2>2 DEF RunRecord
<1>4. LET y == Logged(x, type) IN
      /\ Same(x, y) /\ y.answer = x.answer /\ y.caller = x.caller /\ y.aborted = x.aborted
      /\ y.log = a /\ y.terminal = c /\ y.requested = d
  BY <1>1, <1>2 DEF RunRecord, Same
<1> QED
  BY <1>3, <1>4 DEF a, c, d

LEMMA Logs ==
    ASSUME NEW s \in ClientState, NEW r \in Executions, NEW type \in Events
    PROVE  /\ Log(s, r, type) \in ClientState
           /\ Log(s, r, type).disposed = s.disposed
           /\ Log(s, r, type).runs[r] = Logged(s.runs[r], type)
           /\ \A q \in Executions \ {r} : Log(s, r, type).runs[q] = s.runs[q]
BY LoggedRun DEF Log, ClientState

LEMMA Interrupts ==
    ASSUME NEW x \in RunRecord
    PROVE  /\ Interrupt(x) \in RunRecord
           /\ Same(x, Interrupt(x))
           /\ Interrupt(x).caller = x.caller /\ Interrupt(x).aborted
           /\ Interrupt(x).log = x.log
           /\ Interrupt(x).terminal = x.terminal /\ Interrupt(x).requested = x.requested
           /\ Interrupt(x).answer = (IF x.phase \in Awaits /\ x.answer = None THEN "cancelled"
                                     ELSE x.answer)
BY DEF Interrupt, RunRecord, Same, Answers

LEMMA Disposes ==
    ASSUME NEW s \in ClientState
    PROVE  /\ DisposeClient(s) \in ClientState
           /\ DisposeClient(s).disposed
           /\ s.disposed => DisposeClient(s) = s
           /\ ~s.disposed => \A q \in Executions :
                DisposeClient(s).runs[q] = IF InFlight(s.runs[q]) THEN Interrupt(s.runs[q])
                                           ELSE s.runs[q]
BY Interrupts DEF DisposeClient, ClientState

\* An interruption spoils nothing that is sound.
LEMMA InterruptSound ==
    ASSUME NEW x \in RunRecord, NEW d \in BOOLEAN, NEW e \in BOOLEAN, RunSound(x, d, mode), ConstantsSound
    PROVE  /\ InFlight(x) => RunSound(Interrupt(x), e, mode)
           /\ ~InFlight(x) => RunSound(x, e, mode)
<1>1. ~InFlight(x) => RunSound(x, e, mode)
  BY DEF RunSound, InFlight, Awaits
<1>2. ASSUME InFlight(x)
      PROVE  RunSound(Interrupt(x), e, mode)
  <2> DEFINE y == Interrupt(x)
  <2>1. x.phase \in Awaits /\ Waiting(x, d, mode)
    BY <1>2 DEF RunSound, InFlight
  <2>2. /\ Same(x, y) /\ y.log = x.log /\ y.terminal = x.terminal /\ y.requested = x.requested
        /\ y.aborted /\ y.answer # None
    BY <2>1, Interrupts DEF ConstantsSound, Answers
  <2> HIDE DEF y
  <2>3. Active(y, e)
    BY <2>1, <2>2 DEF Waiting, Active, Open, Told, LogSound, Same, Unwon
  <2>4. Place(y, y.phase, mode)
    BY <2>1, <2>2 DEF Waiting, Place, Same, Quiet, MayServe, StartedOnce, NoServerAttempt, ServerOnly
  <2> QED
    BY <2>1, <2>2, <2>3, <2>4 DEF RunSound, Waiting, Same, y
<1> QED
  BY <1>1, <1>2

\* Appending to a log of a run that is not over.
LEMMA AppendSound ==
    ASSUME NEW x \in RunRecord, NEW type \in Events, LogSound(x), ~x.terminal,
           x.requested => type = "cancelled"
    PROVE  LogSound(Logged(x, type))
<1> DEFINE y == Logged(x, type)
<1>1. x.log \in Seq(Events) /\ y.log = Append(x.log, type)
  BY LoggedRun DEF RunRecord
<1>2. /\ Len(y.log) = Len(x.log) + 1 /\ DOMAIN y.log = 1..(Len(x.log) + 1)
      /\ y.log[Len(x.log) + 1] = type
      /\ \A i \in DOMAIN x.log : y.log[i] = x.log[i]
      /\ DOMAIN x.log = 1..Len(x.log) /\ Len(x.log) \in Nat
  BY <1>1
<1>3. (y.terminal <=> x.terminal \/ type \in Terminals)
      /\ (y.requested <=> x.requested \/ type \in Terminals \cup {"cancel-requested"})
  BY LoggedRun
<1> HIDE DEF y
<1>4. \A i \in DOMAIN y.log : y.log[i] \in Terminals => i = Len(y.log) /\ y.terminal
  BY <1>2, <1>3 DEF LogSound
<1>5. y.terminal => y.log # <<>> /\ y.log[Len(y.log)] \in Terminals
  BY <1>1, <1>2, <1>3
<1>6. ASSUME NEW i \in DOMAIN y.log, y.log[i] = "cancel-requested"
      PROVE  y.requested /\ \A j \in DOMAIN y.log : j > i => y.log[j] = "cancelled"
  BY <1>2, <1>3, <1>6 DEF LogSound, Terminals
<1> QED
  BY <1>4, <1>5, <1>6 DEF LogSound, y

LEMMA InterferedReflexive ==
    ASSUME NEW x, NEW d
    PROVE  Interfered(x, d, x, d)
BY DEF Interfered, Same

\* dispose(), called while execution r is under way.
LEMMA DisposeInterferes ==
    ASSUME NEW s \in ClientState, NEW r \in Executions, InFlight(s.runs[r]), ConstantsSound
    PROVE  LET t == DisposeClient(s) IN
           /\ t \in ClientState
           /\ OthersKept(s, t, r)
           /\ Interfered(s.runs[r], s.disposed, t.runs[r], t.disposed)
<1> DEFINE t == DisposeClient(s)
<1>1. CASE s.disposed
  BY <1>1, Disposes, InterferedReflexive DEF OthersKept
<1>2. CASE ~s.disposed
  <2>1. t \in ClientState /\ t.runs[r] = Interrupt(s.runs[r])
    BY <1>2, Disposes
  <2>2. OthersKept(s, t, r)
    BY <1>2, Disposes, InterruptSound DEF OthersKept, ClientState
  <2>3. Interfered(s.runs[r], s.disposed, t.runs[r], t.disposed)
    BY <2>1, Interrupts DEF Interfered, Told, LogSound, ClientState, ConstantsSound, Answers, Same
  <2> QED
    BY <2>1, <2>2, <2>3
<1> QED
  BY <1>1, <1>2

LEMMA KeptTransitive ==
    ASSUME NEW s, NEW t, NEW u, NEW r, OthersKept(s, t, r), OthersKept(t, u, r)
    PROVE  OthersKept(s, u, r)
BY DEF OthersKept

\* forwardAbort: whoever calls it, the run is aborted when it returns.
LEMMA AbortInterferes ==
    ASSUME NEW s \in ClientState, NEW r \in Executions, InFlight(s.runs[r]), ConstantsSound,
           NEW v \in CallerAborts(s, r)
    PROVE  /\ v \in ClientState
           /\ OthersKept(s, v, r)
           /\ Interfered(s.runs[r], s.disposed, v.runs[r], v.disposed)
<1> DEFINE x == s.runs[r]
           t == [s EXCEPT !.runs[r].caller = TRUE]
           u0 == Log(t, r, "cancel-requested")
<1>1. x \in RunRecord
  BY DEF ClientState
<1> DEFINE y == [x EXCEPT !.caller = TRUE]
<1>a. /\ y \in RunRecord /\ Same(x, y) /\ y.log = x.log /\ y.terminal = x.terminal
      /\ y.requested = x.requested /\ y.answer = x.answer
  BY <1>1 DEF RunRecord, Same
<1>b. t = [s EXCEPT !.runs[r] = y]
  BY SetField
<1> HIDE DEF y, t
<1>2. /\ t \in ClientState /\ t.disposed = s.disposed
      /\ \A q \in Executions \ {r} : t.runs[q] = s.runs[q]
      /\ t.runs[r] = y
  BY <1>a, <1>b, SetRun
<1>3. /\ Same(x, t.runs[r]) /\ t.runs[r].log = x.log /\ t.runs[r].terminal = x.terminal
      /\ t.runs[r].requested = x.requested /\ t.runs[r].answer = x.answer
      /\ t.runs[r] \in RunRecord
  BY <1>a, <1>2
<1>4. OthersKept(s, t, r)
  BY <1>2 DEF OthersKept
<1>5. LogSound(x) => LogSound(t.runs[r])
  BY <1>3 DEF LogSound
<1>6. PICK u : /\ u = t \/ (/\ ~Suppressed(t.runs[r], "cancel-requested")
                            /\ u = u0 \/ u = DisposeClient(u0))
               /\ v = [u EXCEPT !.runs[r] = Interrupt(@)]
  BY DEF CallerAborts, t
<1> DEFINE Reached(w) ==
      /\ w \in ClientState /\ OthersKept(s, w, r) /\ Same(x, w.runs[r])
      /\ w.runs[r].terminal = x.terminal
      /\ w.runs[r].log = x.log \/ (~x.terminal /\ w.runs[r].log = Append(x.log, "cancel-requested"))
      /\ LogSound(x) => LogSound(w.runs[r])
<1>7. Reached(t)
  BY <1>2, <1>3, <1>4, <1>5
<1>8. ASSUME ~Suppressed(t.runs[r], "cancel-requested")
      PROVE  Reached(u0) /\ Reached(DisposeClient(u0))
  <2>1. ~x.terminal /\ ~x.requested
    BY <1>3, <1>8 DEF Suppressed
  <2>2. "cancel-requested" \in Events /\ "cancel-requested" \notin Terminals
    BY DEF Events, Terminals
  <2>3. /\ u0 \in ClientState /\ u0.disposed = t.disposed
        /\ u0.runs[r] = Logged(t.runs[r], "cancel-requested")
        /\ \A q \in Executions \ {r} : u0.runs[q] = t.runs[q]
    BY <1>2, <2>2, Logs
  <2>a. LET z == Logged(t.runs[r], "cancel-requested") IN
        /\ Same(t.runs[r], z) /\ z.log = Append(t.runs[r].log, "cancel-requested")
        /\ ~z.terminal
    BY <1>3, <2>1, <2>2, LoggedRun
  <2>4. /\ Same(t.runs[r], u0.runs[r]) /\ u0.runs[r].log = Append(x.log, "cancel-requested")
        /\ ~u0.runs[r].terminal
    BY <1>3, <2>3, <2>a
  <2>5. LogSound(x) => LogSound(u0.runs[r])
    BY <1>3, <1>5, <2>1, <2>2, <2>3, AppendSound
  <2>6. x.terminal = FALSE /\ u0.runs[r].terminal = FALSE
    BY <1>1, <2>1, <2>3, <2>4 DEF ClientState, RunRecord
  <2>7. Reached(u0)
    BY <1>3, <1>4, <2>1, <2>3, <2>4, <2>5, <2>6 DEF OthersKept, Same
  <2>8. InFlight(u0.runs[r])
    BY <1>3, <2>4 DEF InFlight, Same
  <2>9. LET w == DisposeClient(u0) IN
        /\ w \in ClientState /\ OthersKept(u0, w, r)
        /\ Interfered(u0.runs[r], u0.disposed, w.runs[r], w.disposed)
    BY <2>3, <2>8, DisposeInterferes
  <2>10. LET w == DisposeClient(u0) IN w.runs[r].log = u0.runs[r].log
    BY <2>3, <2>8, Disposes, Interrupts DEF ClientState
  <2>11. OthersKept(s, DisposeClient(u0), r)
    BY <2>7, <2>9, KeptTransitive
  <2> HIDE DEF u0
  <2>12. Reached(DisposeClient(u0))
    <3> DEFINE w == DisposeClient(u0)
    <3>1. w \in ClientState /\ Interfered(u0.runs[r], u0.disposed, w.runs[r], w.disposed)
      BY <2>9
    <3>2. w.runs[r].log = u0.runs[r].log /\ OthersKept(s, w, r)
      BY <2>10, <2>11
    <3> HIDE DEF w
    <3>3. /\ Same(u0.runs[r], w.runs[r]) /\ w.runs[r].terminal = u0.runs[r].terminal
          /\ LogSound(u0.runs[r]) => LogSound(w.runs[r])
      BY <3>1 DEF Interfered
    <3>4. Same(x, w.runs[r])
      BY <2>7, <3>3 DEF Same
    <3> QED
      BY <2>1, <2>6, <2>7, <3>1, <3>2, <3>3, <3>4, SMTT(30) DEF w
  <2> QED
    BY <2>7, <2>12, Zenon
<1>9. Reached(u)
  BY <1>6, <1>7, <1>8
<1> HIDE DEF u0
<1>10. /\ v \in ClientState /\ v.disposed = u.disposed
       /\ v.runs[r] = Interrupt(u.runs[r])
       /\ \A q \in Executions \ {r} : v.runs[q] = u.runs[q]
  BY <1>6, <1>9, Interrupts DEF ClientState
<1>11. u.runs[r] \in RunRecord
  BY <1>9 DEF ClientState
<1>12. /\ Same(u.runs[r], v.runs[r]) /\ v.runs[r].log = u.runs[r].log
       /\ v.runs[r].terminal = u.runs[r].terminal /\ v.runs[r].requested = u.runs[r].requested
       /\ v.runs[r].aborted
       /\ v.runs[r].answer = (IF u.runs[r].phase \in Awaits /\ u.runs[r].answer = None
                              THEN "cancelled" ELSE u.runs[r].answer)
  BY <1>10, <1>11, Interrupts
<1>13. OthersKept(s, v, r)
  BY <1>9, <1>10 DEF OthersKept
<1>14. LogSound(x) => LogSound(v.runs[r])
  <2>1. LogSound(u.runs[r]) => LogSound(v.runs[r])
    BY <1>12 DEF LogSound
  <2> QED
    BY <1>9, <2>1
<1>15. x.phase \in Awaits => v.runs[r].answer # None
  <2>1. u.runs[r].phase = x.phase
    BY <1>9 DEF Same
  <2>2. "cancelled" # None
    BY DEF ConstantsSound, Answers
  <2> QED
    BY <1>12, <2>1, <2>2
<1> QED
  BY <1>9, <1>10, <1>12, <1>13, <1>14, <1>15 DEF Interfered, Same, Told

\* emit(): the event is suppressed, or told and then whatever the listener does.
LEMMA Emits ==
    ASSUME NEW s \in ClientState, NEW r \in Executions, InFlight(s.runs[r]), ConstantsSound,
           NEW type \in Events, NEW t \in Emit(s, r, type)
    PROVE  /\ t \in ClientState
           /\ OthersKept(s, t, r)
           /\ \/ Suppressed(s.runs[r], type) /\ t = s
              \/ /\ ~Suppressed(s.runs[r], type)
                 /\ Interfered(Logged(s.runs[r], type), s.disposed, t.runs[r], t.disposed)
<1>1. CASE Suppressed(s.runs[r], type)
  BY <1>1 DEF Emit, OthersKept
<1>2. CASE ~Suppressed(s.runs[r], type)
  <2> DEFINE u == Log(s, r, type)
  <2>1. t \in {u, DisposeClient(u)} \/ t \in CallerAborts(u, r)
    BY <1>2 DEF Emit
  <2>2. /\ u \in ClientState /\ u.disposed = s.disposed /\ u.runs[r] = Logged(s.runs[r], type)
        /\ OthersKept(s, u, r)
    BY Logs DEF OthersKept
  <2>3. s.runs[r] \in RunRecord
    BY DEF ClientState
  <2>4. InFlight(u.runs[r])
    BY <2>2, <2>3, LoggedRun DEF InFlight, Same
  <2> HIDE DEF u
  <2>5. t \in ClientState /\ OthersKept(u, t, r)
        /\ Interfered(u.runs[r], u.disposed, t.runs[r], t.disposed)
    <3>1. CASE t = u
      BY <2>2, <3>1, InterferedReflexive DEF OthersKept
    <3>2. CASE t = DisposeClient(u)
      BY <2>2, <2>4, <3>2, DisposeInterferes
    <3>3. CASE t \in CallerAborts(u, r)
      BY <2>2, <2>4, <3>3, AbortInterferes
    <3> QED
      BY <2>1, <3>1, <3>2, <3>3
  <2> QED
    BY <1>2, <2>2, <2>5, KeptTransitive
<1> QED
  BY <1>1, <1>2

LEMMA StartsOther ==
    ASSUME NEW log \in Seq(Events), NEW type, type # "server-execution-started"
    PROVE  ServerStarts(Append(log, type)) = ServerStarts(log)
BY DEF ServerStarts

LEMMA StartsServer ==
    ASSUME NEW log \in Seq(Events), ServerStarts(log) = {}
    PROVE  LET l == Append(log, "server-execution-started") IN
           Len(l) \in DOMAIN l /\ ServerStarts(l) = {Len(l)}
BY DEF ServerStarts

\* An event that is not the last leaves the run as the code knows it.
LEMMA PhaseEvent ==
    ASSUME NEW s \in ClientState, NEW r \in Executions, s.runs[r].phase = "running",
           Active(s.runs[r], s.disposed), ConstantsSound,
           NEW type \in Events \ (Terminals \cup {"cancel-requested"}), NEW t \in Emit(s, r, type)
    PROVE  /\ t \in ClientState
           /\ OthersKept(s, t, r)
           /\ Same(s.runs[r], t.runs[r])
           /\ Active(t.runs[r], t.disposed)
           /\ type # "server-execution-started" =>
                ServerStarts(t.runs[r].log) = ServerStarts(s.runs[r].log)
           /\ type = "server-execution-started" /\ ServerStarts(s.runs[r].log) = {}
                /\ ~t.runs[r].aborted => StartedOnce(t.runs[r])
<1> DEFINE x == s.runs[r]
           y == t.runs[r]
           z == Logged(x, type)
<1>1. /\ t \in ClientState /\ OthersKept(s, t, r)
      /\ \/ Suppressed(x, type) /\ t = s
         \/ /\ ~Suppressed(x, type)
            /\ Interfered(z, s.disposed, y, t.disposed)
  BY Emits DEF InFlight
<1>2. x \in RunRecord /\ y \in RunRecord
  BY <1>1 DEF ClientState
<1>3. CASE Suppressed(x, type) /\ t = s
  <2>1. x.requested /\ x.aborted
    BY <1>3 DEF Suppressed, Active, Open, Told
  <2> QED
    BY <1>1, <1>3, <2>1 DEF Same
<1>4. CASE ~Suppressed(x, type) /\ Interfered(z, s.disposed, y, t.disposed)
  <2>1. ~x.terminal /\ ~x.requested
    BY <1>4 DEF Suppressed, Terminals
  <2>2. /\ z \in RunRecord /\ Same(x, z) /\ z.caller = x.caller /\ z.aborted = x.aborted
        /\ z.log = Append(x.log, type)
        /\ ~z.terminal /\ ~z.requested
    BY <1>2, <2>1, LoggedRun
  <2>3. LogSound(z)
    BY <1>2, <2>1, AppendSound DEF Active, Open
  <2>4. Told(z, s.disposed)
    BY <2>1, <2>2 DEF Active, Told
  <2> HIDE DEF x, y, z
  <2>5. Same(x, y)
    BY <1>4, <2>2 DEF Interfered, Same
  <2>6. ~y.terminal
    BY <1>4, <2>2 DEF Interfered
  <2>7. Active(y, t.disposed)
    BY <1>4, <2>2, <2>3, <2>4, <2>5, <2>6 DEF Interfered, Active, Open, Same, Unwon, x
  <2>8. y.log = z.log \/ y.log = Append(z.log, "cancel-requested")
    BY <1>4 DEF Interfered
  <2>9. x.log \in Seq(Events) /\ z.log \in Seq(Events)
    BY <1>2, <2>2 DEF RunRecord
  <2>10. type # "server-execution-started" => ServerStarts(y.log) = ServerStarts(x.log)
    BY <2>2, <2>8, <2>9, StartsOther
  <2>11. type = "server-execution-started" /\ ServerStarts(x.log) = {} => StartedOnce(y)
    <3> SUFFICES ASSUME type = "server-execution-started", ServerStarts(x.log) = {}
                 PROVE  StartedOnce(y)
      OBVIOUS
    <3>1. Len(z.log) \in DOMAIN z.log /\ ServerStarts(z.log) = {Len(z.log)}
      BY <2>2, <2>9, StartsServer
    <3>a. ServerStarts(Append(z.log, "cancel-requested")) = ServerStarts(z.log)
      BY <2>9, StartsOther
    <3>2. ServerStarts(y.log) = ServerStarts(z.log)
      BY <2>8, <3>a
    <3>3. Len(z.log) \in DOMAIN y.log
      BY <3>1, <3>2 DEF ServerStarts
    <3> QED
      BY <3>1, <3>2, <3>3 DEF StartedOnce
  <2> QED
    BY <1>1, <2>5, <2>7, <2>10, <2>11 DEF x, y
<1> QED
  BY <1>1, <1>3, <1>4

\* A terminal event is told, whoever asked for what before, and it is the last.
LEMMA TerminalEvent ==
    ASSUME NEW s \in ClientState, NEW r \in Executions, s.runs[r].phase = "running",
           LogSound(s.runs[r]), ~s.runs[r].terminal, ConstantsSound,
           NEW type \in Terminals, type = "cancelled" \/ ~s.runs[r].requested,
           NEW t \in Emit(s, r, type)
    PROVE  /\ t \in ClientState
           /\ OthersKept(s, t, r)
           /\ Same(s.runs[r], t.runs[r])
           /\ LogSound(t.runs[r])
           /\ t.runs[r].terminal
           /\ t.runs[r].log[Len(t.runs[r].log)] = type
           /\ ServerStarts(t.runs[r].log) = ServerStarts(s.runs[r].log)
           /\ StartedOnce(s.runs[r]) => StartedOnce(t.runs[r])
<1> DEFINE x == s.runs[r]
           y == t.runs[r]
           z == Logged(x, type)
<1>1. type \in Events /\ type # "server-execution-started" /\ type # "cancel-requested"
  BY DEF Events, Terminals
<1>2. ~Suppressed(x, type)
  BY DEF Suppressed
<1>3. /\ t \in ClientState /\ OthersKept(s, t, r)
      /\ Interfered(z, s.disposed, y, t.disposed)
  BY <1>1, <1>2, Emits DEF InFlight
<1>4. x \in RunRecord /\ y \in RunRecord
  BY <1>3 DEF ClientState
<1>5. /\ z \in RunRecord /\ Same(x, z) /\ z.log = Append(x.log, type) /\ z.terminal
  BY <1>1, <1>4, LoggedRun
<1>6. LogSound(z)
  BY <1>1, <1>4, AppendSound
<1> HIDE DEF x, y, z
<1>7. Same(x, y) /\ LogSound(y) /\ y.terminal /\ y.log = z.log
  BY <1>3, <1>5, <1>6 DEF Interfered, Same
<1>8. x.log \in Seq(Events)
  BY <1>4 DEF RunRecord
<1>9. /\ ServerStarts(y.log) = ServerStarts(x.log) /\ y.log[Len(y.log)] = type
      /\ DOMAIN x.log \subseteq DOMAIN y.log
  BY <1>1, <1>5, <1>7, <1>8, StartsOther
<1>10. StartedOnce(x) => StartedOnce(y)
  BY <1>9 DEF StartedOnce
<1> QED
  BY <1>3, <1>7, <1>9, <1>10 DEF x, y

\* What holds of the client and its runs when a step of execution r is over.
Left(s, t, r) ==
    /\ t \in ClientState
    /\ OthersKept(s, t, r)
    /\ RunSound(t.runs[r], t.disposed, mode)

\* What the last lines of runExecution leave alone.
Ended(x, y, code) ==
    /\ y.phase = "done" /\ y.outcome = code
    /\ y.entry = x.entry /\ y.sent = x.sent /\ y.attempts = x.attempts
    /\ y.finalRoute = x.finalRoute /\ y.log = x.log
    /\ y.terminal = x.terminal /\ y.requested = x.requested

LEMMA EndedRun ==
    ASSUME NEW x \in RunRecord, NEW code \in Codes
    PROVE  LET y == [x EXCEPT !.phase = "done", !.outcome = code] IN
           y \in RunRecord /\ Ended(x, y, code)
<1> DEFINE y == [x EXCEPT !.phase = "done", !.outcome = code]
<1>1. "done" \in Phases
  BY DEF Phases
<1>2. y \in RunRecord
  BY <1>1 DEF RunRecord
<1>3. Ended(x, y, code)
  BY DEF RunRecord, Ended
<1> QED
  BY <1>2, <1>3

\* The last lines of runExecution.
LEMMA Finishes ==
    ASSUME NEW s \in ClientState, NEW r \in Executions, NEW code \in Codes, NEW t \in Finish(s, r, code)
    PROVE  /\ t \in ClientState
           /\ OthersKept(s, t, r)
           /\ Ended(s.runs[r], t.runs[r], code)
<1> DEFINE x == s.runs[r]
           y == [x EXCEPT !.phase = "done", !.outcome = code]
<1>1. t = [s EXCEPT !.runs[r].phase = "done", !.runs[r].outcome = code]
  BY DEF Finish
<1>2. t = [s EXCEPT !.runs[r] = y]
  BY <1>1
<1>3. x \in RunRecord
  BY DEF ClientState
<1>4. y \in RunRecord /\ Ended(x, y, code)
  BY <1>3, EndedRun
<1> HIDE DEF y
<1>5. /\ t \in ClientState /\ t.disposed = s.disposed /\ t.runs[r] = y
      /\ \A q \in Executions \ {r} : t.runs[q] = s.runs[q]
  BY <1>2, <1>4, SetRun
<1> QED
  BY <1>4, <1>5 DEF OthersKept

\* Ways in which the run ends differ in their event and in what the attempts must look like.
LEMMA EventThenFinish ==
    ASSUME NEW s \in ClientState, NEW r \in Executions, s.runs[r].phase = "running",
           LogSound(s.runs[r]), ~s.runs[r].terminal, Closing(s.runs[r], mode), ConstantsSound,
           NEW type \in Terminals, type = "cancelled" \/ ~s.runs[r].requested,
           NEW code \in Codes,
           type = (IF code \in {"completed", "cancelled"} THEN code ELSE "failed"),
           IF code = "completed" THEN LastWon(s.runs[r])
           ELSE Unwon(s.runs[r]) /\ s.runs[r].finalRoute = None,
           code \notin {"completed", "cancelled"} /\ s.runs[r].attempts # <<>> =>
              Last(s.runs[r].attempts).code = code,
           NEW t \in Emit(s, r, type), NEW u \in Finish(t, r, code)
    PROVE  Left(s, u, r)
<1> DEFINE x == s.runs[r]
           y == t.runs[r]
           z == u.runs[r]
<1>1. /\ t \in ClientState /\ OthersKept(s, t, r) /\ Same(x, y)
      /\ LogSound(y) /\ y.terminal /\ y.log[Len(y.log)] = type
      /\ ServerStarts(y.log) = ServerStarts(x.log)
      /\ StartedOnce(x) => StartedOnce(y)
  BY TerminalEvent
<1>a. t \in ClientState
  BY <1>1
<1>2. u \in ClientState /\ OthersKept(t, u, r) /\ Ended(y, z, code)
  BY <1>a, Finishes
<1> HIDE DEF x, y, z
<1> USE DEF Ended
<1>3. LogSound(z)
  BY <1>1, <1>2 DEF LogSound
<1>4. StartedOnce(x) => StartedOnce(z)
  BY <1>1, <1>2 DEF StartedOnce
<1>5. Closing(z, mode)
  BY <1>1, <1>2, <1>4 DEF Closing, Same, x, MayServe, ServerOnly
<1>6. Final(z, mode)
  BY <1>1, <1>2, <1>3, <1>5 DEF Final, Same, x, LastWon, Unwon
<1>7. OthersKept(s, u, r)
  BY <1>1, <1>2, KeptTransitive
<1> QED
  BY <1>2, <1>6, <1>7 DEF Left, RunSound, z

LEMMA CancelledLeaves ==
    ASSUME NEW s \in ClientState, NEW r \in Executions, s.runs[r].phase = "running",
           Open(s.runs[r]), Closing(s.runs[r], mode), ConstantsSound,
           NEW u \in Cancelled(s, r)
    PROVE  Left(s, u, r)
<1>1. PICK t \in Emit(s, r, "cancelled") : u \in Finish(t, r, "cancelled")
  BY DEF Cancelled, Then
<1>2. "cancelled" \in Terminals /\ "cancelled" \in Codes
  BY DEF Terminals, Codes
<1> QED
  BY <1>1, <1>2, EventThenFinish DEF Open

LEMMA FailLeaves ==
    ASSUME NEW s \in ClientState, NEW r \in Executions, s.runs[r].phase = "running",
           Open(s.runs[r]), Closing(s.runs[r], mode), ConstantsSound,
           ~s.runs[r].requested,
           NEW code \in Codes \ {"completed", "cancelled"},
           s.runs[r].attempts # <<>> => Last(s.runs[r].attempts).code = code,
           NEW u \in Fail(s, r, code)
    PROVE  Left(s, u, r)
<1>1. PICK t \in Emit(s, r, "failed") : u \in Finish(t, r, code)
  BY DEF Fail, Then
<1>2. "failed" \in Terminals
  BY DEF Terminals
<1> QED
  BY <1>1, <1>2, EventThenFinish DEF Open

-----------------------------------------------------------------------------
(* Between events: what the code itself writes.                            *)

\* Nothing is written that the signal, the log or the decisions depend on.
Kin(x, y) ==
    /\ Same(x, y)
    /\ y.log = x.log /\ y.terminal = x.terminal /\ y.requested = x.requested
    /\ y.caller = x.caller /\ y.aborted = x.aborted

LEMMA KinSound ==
    ASSUME NEW x, NEW y, NEW d, Kin(x, y)
    PROVE  /\ Active(x, d) => Active(y, d)
           /\ \A p : Place(x, p, mode) => Place(y, p, mode)
BY DEF Kin, Same, Active, Open, Told, LogSound, Unwon, Place, Quiet, MayServe, ServerOnly,
       StartedOnce, NoServerAttempt

\* No request has been made for this run's server attempt.
Unserved(run) == run.sent = "no" /\ NoServerAttempt(run)

LEMMA UnservedCloses ==
    ASSUME NEW x, Unserved(x)
    PROVE  Closing(x, mode)
BY DEF Unserved, Closing, NoServerAttempt

LEMMA QuietUnserved ==
    ASSUME NEW x, Quiet(x)
    PROVE  Unserved(x) /\ Unwon(x)
BY DEF Quiet, Unserved, NoServerAttempt, Unwon

LEMMA LeftAfter ==
    ASSUME NEW s, NEW t, NEW u, NEW r, OthersKept(s, t, r), Left(t, u, r)
    PROVE  Left(s, u, r)
BY KeptTransitive DEF Left

\* An operation is raced with the signal.
LEMMA AwaitLeaves ==
    ASSUME NEW s \in ClientState, NEW r \in Executions, NEW phase \in Awaits,
           Active(s.runs[r], s.disposed), Place(s.runs[r], phase, mode), ConstantsSound
    PROVE  LET t == Await(s, r, phase) IN
           /\ Left(s, t, r)
           /\ t.runs[r].phase = phase /\ Waiting(t.runs[r], t.disposed, mode)
           /\ t.runs[r].aborted = s.runs[r].aborted /\ t.runs[r].sent = s.runs[r].sent
           /\ t.disposed = s.disposed
<1> DEFINE x == s.runs[r]
           a == IF x.aborted THEN "cancelled" ELSE None
           y == [x EXCEPT !.phase = phase, !.answer = a]
           t == Await(s, r, phase)
<1>1. t = [s EXCEPT !.runs[r].phase = phase, !.runs[r].answer = a]
  BY DEF Await
<1>2. x \in RunRecord /\ phase \in Phases /\ a \in Answers \cup {None}
  BY DEF ClientState, Phases, Answers
<1>3. x.aborted => a # None
  BY DEF ConstantsSound, Answers
<1> HIDE DEF a, t
<1>4. t = [s EXCEPT !.runs[r] = y]
  BY <1>1
<1>5. y \in RunRecord
  BY <1>2 DEF RunRecord
<1>6. /\ y.phase = phase /\ y.answer = a /\ y.entry = x.entry /\ y.sent = x.sent
      /\ y.attempts = x.attempts /\ y.finalRoute = x.finalRoute /\ y.outcome = x.outcome
      /\ y.log = x.log /\ y.terminal = x.terminal /\ y.requested = x.requested
      /\ y.caller = x.caller /\ y.aborted = x.aborted
  BY <1>2 DEF RunRecord
<1> HIDE DEF x, y
<1>7. Active(y, s.disposed)
  BY <1>6 DEF Active, Open, Told, LogSound, Unwon, x
<1>8. Place(y, phase, mode)
  BY <1>6 DEF Place, Quiet, MayServe, ServerOnly, StartedOnce, NoServerAttempt, x
<1>9. Waiting(y, s.disposed, mode)
  BY <1>3, <1>6, <1>7, <1>8 DEF Waiting
<1>10. /\ t \in ClientState /\ t.disposed = s.disposed /\ t.runs[r] = y
       /\ \A q \in Executions \ {r} : t.runs[q] = s.runs[q]
  BY <1>4, <1>5, SetRun DEF x
<1>11. OthersKept(s, t, r)
  BY <1>10 DEF OthersKept
<1>12. RunSound(t.runs[r], t.disposed, mode)
  BY <1>6, <1>9, <1>10 DEF RunSound
<1> QED
  BY <1>6, <1>9, <1>10, <1>11, <1>12 DEF Left, t, x

\* An event at whose end the signal has fired ends the run.
LEMMA EventCancels ==
    ASSUME NEW s \in ClientState, NEW r \in Executions, s.runs[r].phase = "running",
           Active(s.runs[r], s.disposed), Unserved(s.runs[r]), ConstantsSound,
           NEW type \in Events \ (Terminals \cup {"cancel-requested"}), NEW t \in Emit(s, r, type),
           NEW u \in Cancelled(t, r)
    PROVE  Left(s, u, r)
<1>1. /\ t \in ClientState /\ OthersKept(s, t, r) /\ Same(s.runs[r], t.runs[r])
      /\ Active(t.runs[r], t.disposed)
  BY PhaseEvent
<1>2. Unserved(t.runs[r]) /\ t.runs[r].phase = "running"
  BY <1>1 DEF Unserved, Same, NoServerAttempt
<1>3. Closing(t.runs[r], mode) /\ Open(t.runs[r])
  BY <1>1, <1>2, UnservedCloses DEF Active
<1>4. Left(t, u, r)
  BY <1>1, <1>2, <1>3, CancelledLeaves
<1> QED
  BY <1>1, <1>4, LeftAfter

\* An event followed by a wait.
LEMMA EventAwaits ==
    ASSUME NEW s \in ClientState, NEW r \in Executions, s.runs[r].phase = "running",
           Active(s.runs[r], s.disposed), ConstantsSound,
           NEW type \in Events \ (Terminals \cup {"cancel-requested"}),
           type # "server-execution-started",
           NEW t \in Emit(s, r, type),
           NEW phase \in {"manifest", "code", "browser"}, Place(s.runs[r], phase, mode)
    PROVE  Left(s, Await(t, r, phase), r)
<1>1. /\ t \in ClientState /\ OthersKept(s, t, r) /\ Same(s.runs[r], t.runs[r])
      /\ Active(t.runs[r], t.disposed)
      /\ ServerStarts(t.runs[r].log) = ServerStarts(s.runs[r].log)
  BY PhaseEvent
<1>2. Place(t.runs[r], phase, mode)
  BY <1>1 DEF Same, Place, Quiet
<1>3. phase \in Awaits
  BY DEF Awaits
<1>4. Left(t, Await(t, r, phase), r)
  BY <1>1, <1>2, <1>3, AwaitLeaves
<1> QED
  BY <1>1, <1>4, LeftAfter

-----------------------------------------------------------------------------
(* The stretches of runExecution.                                          *)

\* A write that neither the signal, the log nor the decisions depend on.
KinStep(s, t, r) ==
    /\ t \in ClientState /\ t.disposed = s.disposed
    /\ OthersKept(s, t, r)
    /\ Kin(s.runs[r], t.runs[r])

LEMMA SetLastOn ==
    ASSUME NEW s \in ClientState, NEW r \in Executions, NEW route \in {"browser", "server"}
    PROVE  KinStep(s, [s EXCEPT !.runs[r].lastOn = route], r)
<1> DEFINE x == s.runs[r]
           y == [x EXCEPT !.lastOn = route]
           t == [s EXCEPT !.runs[r].lastOn = route]
<1>1. t = [s EXCEPT !.runs[r] = y]
  OBVIOUS
<1>a. x \in RunRecord
  BY DEF ClientState
<1>b. y \in RunRecord
  BY <1>a DEF RunRecord
<1>c. Kin(x, y)
  BY <1>a DEF RunRecord, Kin, Same
<1>2. y \in RunRecord /\ Kin(x, y)
  BY <1>b, <1>c
<1> HIDE DEF y, t
<1>3. /\ t \in ClientState /\ t.disposed = s.disposed /\ t.runs[r] = y
      /\ \A q \in Executions \ {r} : t.runs[q] = s.runs[q]
  BY <1>1, <1>2, SetRun
<1> QED
  BY <1>2, <1>3 DEF KinStep, OthersKept, t

LEMMA FetchManifestLeaves ==
    ASSUME NEW s \in ClientState, NEW r \in Executions, s.runs[r].phase = "running",
           Active(s.runs[r], s.disposed), Quiet(s.runs[r]), ConstantsSound,
           NEW u \in FetchManifest(s, r)
    PROVE  Left(s, u, r)
<1> DEFINE route == IF mode = "development" THEN "server" ELSE "browser"
           t == [s EXCEPT !.runs[r].lastOn = route]
<1>1. route \in {"browser", "server"}
  OBVIOUS
<1>2. PICK v \in Emit(t, r, "manifest-fetch-started") : u = Await(v, r, "manifest")
  BY DEF FetchManifest, Then
<1> HIDE DEF route
<1>3. KinStep(s, t, r)
  BY <1>1, SetLastOn
<1> HIDE DEF t
<1>4. /\ t \in ClientState /\ t.runs[r].phase = "running" /\ Active(t.runs[r], t.disposed)
      /\ Place(t.runs[r], "manifest", mode)
  BY <1>3, KinSound DEF KinStep, Kin, Same, Place
<1>5. "manifest-fetch-started" \in Events \ (Terminals \cup {"cancel-requested"})
  BY DEF Events, Terminals
<1>6. Left(t, u, r)
  BY <1>2, <1>4, <1>5, EventAwaits
<1> QED
  BY <1>3, <1>6, LeftAfter DEF KinStep

LEMMA SetRunning ==
    ASSUME NEW s \in ClientState, NEW r \in Executions
    PROVE  LET t == [s EXCEPT !.runs[r].phase = "running"]
               x == s.runs[r]
               y == t.runs[r] IN
           /\ t \in ClientState /\ t.disposed = s.disposed /\ OthersKept(s, t, r)
           /\ y.phase = "running" /\ y = [x EXCEPT !.phase = "running"]
<1> DEFINE x == s.runs[r]
           y == [x EXCEPT !.phase = "running"]
           t == [s EXCEPT !.runs[r].phase = "running"]
<1>1. t = [s EXCEPT !.runs[r] = y]
  OBVIOUS
<1>a. "running" \in Phases /\ x \in RunRecord
  BY DEF ClientState, Phases
<1>2. y \in RunRecord /\ y.phase = "running"
  BY <1>a DEF RunRecord
<1> HIDE DEF y, t
<1>3. /\ t \in ClientState /\ t.disposed = s.disposed /\ t.runs[r] = y
      /\ \A q \in Executions \ {r} : t.runs[q] = s.runs[q]
  BY <1>1, <1>2, SetRun
<1> QED
  BY <1>2, <1>3 DEF OthersKept, t, y

\* An idle run that begins is sound and knows of no cancellation.
LEMMA FirstEvent ==
    ASSUME NEW x, Idle(x), NEW y, y = [x EXCEPT !.phase = "running"]
    PROVE  Open(y) /\ Quiet(y) /\ ~y.requested /\ y.caller = x.caller /\ ~y.aborted
<1> DEFINE c == x.caller
<1>1. /\ y.attempts = <<>> /\ y.sent = "no" /\ y.log = <<>> /\ y.terminal = FALSE
      /\ y.requested = FALSE /\ y.outcome = None /\ y.finalRoute = None
      /\ y.caller = c /\ y.aborted = FALSE
  BY DEF Idle, NewRun
<1> HIDE DEF c
<1>2. DOMAIN y.log = {} /\ DOMAIN y.attempts = {}
  BY <1>1
<1> QED
  BY <1>1, <1>2 DEF Open, LogSound, Unwon, Quiet, ServerStarts, c

LEMMA StartLeaves ==
    ASSUME NEW s \in ClientState, NEW r \in Executions, Idle(s.runs[r]), ConstantsSound,
           NEW u \in StartRun(s, r)
    PROVE  Left(s, u, r)
<1> DEFINE t == [s EXCEPT !.runs[r].phase = "running"]
           y == t.runs[r]
<1>1. \/ s.runs[r].caller /\ u \in Cancelled(t, r)
      \/ ~s.runs[r].caller /\ s.disposed /\ u \in Fail(t, r, "client_disposed")
      \/ /\ ~s.runs[r].caller /\ ~s.disposed
         /\ \E v \in Emit(t, r, "accepted") :
              IF v.runs[r].aborted THEN u \in Cancelled(v, r) ELSE u \in FetchManifest(v, r)
  BY DEF StartRun, EmitThen, Then, UnlessAborted
<1>2. /\ t \in ClientState /\ t.disposed = s.disposed /\ OthersKept(s, t, r)
      /\ y.phase = "running" /\ y = [s.runs[r] EXCEPT !.phase = "running"]
  BY SetRunning
<1> HIDE DEF t
<1>3. Open(y) /\ Quiet(y) /\ ~y.requested /\ y.caller = s.runs[r].caller /\ ~y.aborted
  BY <1>2, FirstEvent
<1>4. Closing(y, mode) /\ y.attempts = <<>> /\ Unserved(y)
  BY <1>3, QuietUnserved, UnservedCloses DEF Quiet
<1>5. CASE u \in Cancelled(t, r)
  BY <1>2, <1>3, <1>4, <1>5, CancelledLeaves, LeftAfter
<1>6. CASE u \in Fail(t, r, "client_disposed")
  <2>1. "client_disposed" \in Codes \ {"completed", "cancelled"}
    BY DEF Codes
  <2> QED
    BY <1>2, <1>3, <1>4, <1>6, <2>1, FailLeaves, LeftAfter
<1>7. CASE /\ ~s.runs[r].caller /\ ~s.disposed
           /\ \E v \in Emit(t, r, "accepted") :
                IF v.runs[r].aborted THEN u \in Cancelled(v, r) ELSE u \in FetchManifest(v, r)
  <2>1. PICK v \in Emit(t, r, "accepted") :
            IF v.runs[r].aborted THEN u \in Cancelled(v, r) ELSE u \in FetchManifest(v, r)
    BY <1>7
  <2>2. "accepted" \in Events \ (Terminals \cup {"cancel-requested"})
        /\ "accepted" # "server-execution-started"
    BY DEF Events, Terminals
  <2>3. Active(y, t.disposed) /\ y.phase = "running" /\ t \in ClientState
    BY <1>2, <1>3, <1>7 DEF Active, Told
  <2>4. CASE v.runs[r].aborted
    BY <1>2, <1>4, <2>1, <2>2, <2>3, <2>4, EventCancels, LeftAfter
  <2>5. CASE ~v.runs[r].aborted
    <3>1. /\ v \in ClientState /\ OthersKept(t, v, r) /\ Same(y, v.runs[r])
          /\ Active(v.runs[r], v.disposed) /\ ServerStarts(v.runs[r].log) = ServerStarts(y.log)
      BY <2>2, <2>3, PhaseEvent
    <3>2. Quiet(v.runs[r]) /\ v.runs[r].phase = "running"
      BY <1>2, <1>3, <3>1 DEF Quiet, Same
    <3>3. u \in FetchManifest(v, r)
      BY <2>1, <2>5
    <3>4. Left(v, u, r)
      BY <3>1, <3>2, <3>3, FetchManifestLeaves
    <3> QED
      BY <1>2, <3>1, <3>4, LeftAfter
  <2> QED
    BY <2>4, <2>5
<1> QED
  BY <1>1, <1>5, <1>6, <1>7

\* After a phase event: either the signal has fired and the run is cancelled, or the code goes on
\* with the facts it had.
LEMMA EventGoesOn ==
    ASSUME NEW s \in ClientState, NEW r \in Executions, s.runs[r].phase = "running",
           Active(s.runs[r], s.disposed), ConstantsSound,
           NEW type \in Events \ (Terminals \cup {"cancel-requested"}), NEW t \in Emit(s, r, type),
           ~t.runs[r].aborted
    PROVE  /\ t \in ClientState /\ OthersKept(s, t, r)
           /\ t.runs[r].phase = "running"
           /\ Active(t.runs[r], t.disposed) /\ ~t.runs[r].requested
           /\ Unserved(s.runs[r]) => Unserved(t.runs[r])
           /\ t.runs[r].attempts = s.runs[r].attempts /\ t.runs[r].entry = s.runs[r].entry
           /\ MayServe(s.runs[r], mode) => MayServe(t.runs[r], mode)
           /\ type # "server-execution-started" =>
                ServerStarts(t.runs[r].log) = ServerStarts(s.runs[r].log)
           /\ type = "server-execution-started" /\ ServerStarts(s.runs[r].log) = {} =>
                StartedOnce(t.runs[r])
<1>1. /\ t \in ClientState /\ OthersKept(s, t, r) /\ Same(s.runs[r], t.runs[r])
      /\ Active(t.runs[r], t.disposed)
      /\ type # "server-execution-started" =>
           ServerStarts(t.runs[r].log) = ServerStarts(s.runs[r].log)
      /\ type = "server-execution-started" /\ ServerStarts(s.runs[r].log) = {}
           => StartedOnce(t.runs[r])
  BY PhaseEvent
<1>2. ~t.runs[r].requested
  BY <1>1 DEF Active, Told
<1> QED
  BY <1>1, <1>2 DEF Same, Unserved, NoServerAttempt, MayServe, ServerOnly

\* The arguments are serialised while the run already waits for the server.
LEMMA SerialisedInterferes ==
    ASSUME NEW s \in ClientState, NEW r \in Executions, InFlight(s.runs[r]), ConstantsSound,
           NEW u \in Serialised(s, r)
    PROVE  /\ u \in ClientState
           /\ OthersKept(s, u, r)
           /\ Interfered(s.runs[r], s.disposed, u.runs[r], u.disposed)
<1>1. u = s \/ u = DisposeClient(s) \/ u \in CallerAborts(s, r)
  BY DEF Serialised
<1>2. CASE u = s
  BY <1>2, InterferedReflexive DEF OthersKept
<1>3. CASE u = DisposeClient(s)
  BY <1>3, DisposeInterferes
<1>4. CASE u \in CallerAborts(s, r)
  BY <1>4, AbortInterferes
<1> QED
  BY <1>1, <1>2, <1>3, <1>4

\* A wait that somebody interferes with is still one.
LEMMA InterferedWait ==
    ASSUME NEW x \in RunRecord, NEW d, NEW y \in RunRecord, NEW e, Interfered(x, d, y, e),
           x.phase \in Awaits, Waiting(x, d, mode)
    PROVE  y.phase = x.phase /\ Waiting(y, e, mode)
<1>1. Same(x, y) /\ y.terminal = x.terminal /\ LogSound(y) /\ Told(y, e)
  BY DEF Interfered, Waiting, Active, Open
<1>2. y.aborted => y.answer # None
  BY DEF Interfered, Waiting
<1>3. Active(y, e)
  BY <1>1 DEF Waiting, Active, Open, Same, Unwon
<1>4. ServerStarts(y.log) = ServerStarts(x.log)
  <2>1. x.log \in Seq(Events)
    BY DEF RunRecord
  <2>2. ServerStarts(Append(x.log, "cancel-requested")) = ServerStarts(x.log)
    BY <2>1, StartsOther
  <2> QED
    BY <2>2 DEF Interfered
<1>5. StartedOnce(x) => StartedOnce(y)
  BY <1>4 DEF StartedOnce, ServerStarts
<1>6. Place(y, x.phase, mode)
  BY <1>1, <1>4, <1>5 DEF Waiting, Place, Same, Quiet, MayServe, ServerOnly, NoServerAttempt
<1> QED
  BY <1>1, <1>2, <1>3, <1>6 DEF Waiting, Same

\* Writes to a run that waits for the server: its answer, or that its inputs were sent.
LEMMA ServerWrite ==
    ASSUME NEW s \in ClientState, NEW r \in Executions, s.runs[r].phase = "server",
           Waiting(s.runs[r], s.disposed, mode), ConstantsSound,
           NEW t, \/ t = [s EXCEPT !.runs[r].answer = "function"]
                  \/ ~s.runs[r].aborted /\ t = Send(s, r)
    PROVE  Left(s, t, r)
<1> DEFINE x == s.runs[r]
           y == t.runs[r]
<1>1. x \in RunRecord
  BY DEF ClientState
<1>2. PICK z \in RunRecord :
        /\ t = [s EXCEPT !.runs[r] = z]
        /\ Kin(x, [z EXCEPT !.sent = x.sent])
        /\ z.sent \in {x.sent, "live"} /\ (x.aborted => z.answer # None)
        /\ z.phase = "server"
  <2>1. CASE t = [s EXCEPT !.runs[r].answer = "function"]
    <3> DEFINE z == [x EXCEPT !.answer = "function"]
    <3>1. t = [s EXCEPT !.runs[r] = z]
      BY <2>1
    <3>a. "function" \in Answers
      BY DEF Answers
    <3>2. z \in RunRecord /\ z.answer = "function" /\ z.sent = x.sent /\ z.phase = "server"
          /\ Kin(x, [z EXCEPT !.sent = x.sent])
      BY <1>1, <3>a DEF RunRecord, Kin, Same
    <3>3. z.answer # None
      BY <3>a, <3>2 DEF ConstantsSound
    <3> QED
      BY <3>1, <3>2, <3>3
  <2>2. CASE ~x.aborted /\ t = Send(s, r)
    <3> DEFINE z == [x EXCEPT !.sent = "live"]
    <3>a. t = [s EXCEPT !.runs[r].sent = "live"]
      BY <2>2 DEF Send
    <3>1. t = [s EXCEPT !.runs[r] = z]
      BY <3>a
    <3>2. z \in RunRecord /\ z.sent = "live" /\ z.phase = "server"
          /\ Kin(x, [z EXCEPT !.sent = x.sent])
      BY <1>1 DEF RunRecord, Kin, Same
    <3> QED
      BY <2>2, <3>1, <3>2
  <2> QED
    BY <2>1, <2>2
<1> DEFINE w == [z EXCEPT !.sent = x.sent]
<1>3. /\ w.phase = z.phase /\ w.entry = z.entry /\ w.attempts = z.attempts
      /\ w.finalRoute = z.finalRoute /\ w.outcome = z.outcome
      /\ w.log = z.log /\ w.terminal = z.terminal /\ w.requested = z.requested
      /\ w.caller = z.caller /\ w.aborted = z.aborted
  BY DEF RunRecord
<1>a. Kin(x, w)
  BY <1>2
<1> HIDE DEF w
<1>4. Active(w, s.disposed) /\ Place(w, "server", mode)
  BY <1>a, KinSound DEF Waiting
<1>5. w.aborted = x.aborted
  BY <1>a DEF Kin
<1>6. Active(z, s.disposed)
  BY <1>3, <1>4 DEF Active, Open, Told, LogSound, Unwon
<1>7. x.sent # "late"
  BY DEF Waiting, Place
<1>8. Place(z, "server", mode)
  BY <1>2, <1>3, <1>4, <1>7 DEF Place, MayServe, ServerOnly, StartedOnce, NoServerAttempt
<1>9. Waiting(z, s.disposed, mode)
  BY <1>2, <1>3, <1>5, <1>6, <1>8 DEF Waiting
<1>10. /\ t \in ClientState /\ t.disposed = s.disposed /\ t.runs[r] = z
       /\ \A q \in Executions \ {r} : t.runs[q] = s.runs[q]
  BY <1>2, SetRun
<1>11. OthersKept(s, t, r)
  BY <1>10 DEF OthersKept
<1> QED
  BY <1>2, <1>9, <1>10, <1>11 DEF Left, RunSound, Awaits

\* FallbackHandler.execute: inputs leave only while nobody has cancelled.
LEMMA CallServerLeaves ==
    ASSUME NEW s \in ClientState, NEW r \in Executions, Active(s.runs[r], s.disposed),
           MayServe(s.runs[r], mode), StartedOnce(s.runs[r]), Unserved(s.runs[r]), ConstantsSound,
           NEW u \in CallServer(s, r)
    PROVE  Left(s, u, r)
<1> DEFINE t == Await(s, r, "server")
<1>1. \/ u = t
      \/ \E v \in Serialised(t, r) : u = IF v.runs[r].aborted THEN v ELSE Send(v, r)
      \/ u = [t EXCEPT !.runs[r].answer = "function"]
  BY DEF CallServer
<1>2. "server" \in Awaits /\ Place(s.runs[r], "server", mode)
  BY DEF Awaits, Place, Unserved
<1>3. /\ Left(s, t, r)
      /\ t.runs[r].phase = "server" /\ Waiting(t.runs[r], t.disposed, mode)
  BY <1>2, AwaitLeaves
<1> HIDE DEF t
<1>4. t \in ClientState /\ OthersKept(s, t, r)
  BY <1>3 DEF Left
<1>5. CASE u = t
  BY <1>3, <1>5
<1>6. CASE u = [t EXCEPT !.runs[r].answer = "function"]
  BY <1>3, <1>4, <1>6, ServerWrite, LeftAfter
<1>7. ASSUME NEW v \in Serialised(t, r), u = IF v.runs[r].aborted THEN v ELSE Send(v, r)
      PROVE  Left(s, u, r)
  <2>1. InFlight(t.runs[r])
    BY <1>3 DEF InFlight
  <2>2. /\ v \in ClientState /\ OthersKept(t, v, r)
        /\ Interfered(t.runs[r], t.disposed, v.runs[r], v.disposed)
    BY <1>4, <2>1, SerialisedInterferes
  <2>3. v.runs[r].phase = "server" /\ Waiting(v.runs[r], v.disposed, mode)
    BY <1>3, <1>4, <2>2, InterferedWait DEF ClientState, Awaits
  <2>4. Left(v, u, r)
    <3>1. CASE v.runs[r].aborted
      BY <1>7, <2>2, <2>3, <3>1 DEF Left, OthersKept, RunSound, Awaits
    <3>2. CASE ~v.runs[r].aborted
      BY <1>7, <2>2, <2>3, <3>2, ServerWrite
    <3> QED
      BY <3>1, <3>2
  <2> QED
    BY <1>4, <2>2, <2>4, LeftAfter
<1> QED
  BY <1>1, <1>5, <1>6, <1>7

\* The server attempt is announced and made.
LEMMA ServerAttemptLeaves ==
    ASSUME NEW s \in ClientState, NEW r \in Executions, s.runs[r].phase = "running",
           Active(s.runs[r], s.disposed), MayServe(s.runs[r], mode), Unserved(s.runs[r]),
           ServerStarts(s.runs[r].log) = {}, ConstantsSound,
           NEW t \in Emit(s, r, "server-execution-started"),
           NEW u, IF t.runs[r].aborted THEN u \in Cancelled(t, r) ELSE u \in CallServer(t, r)
    PROVE  Left(s, u, r)
<1>1. "server-execution-started" \in Events \ (Terminals \cup {"cancel-requested"})
  BY DEF Events, Terminals
<1>2. CASE t.runs[r].aborted
  BY <1>1, <1>2, EventCancels
<1>3. CASE ~t.runs[r].aborted
  <2>1. /\ t \in ClientState /\ OthersKept(s, t, r) /\ Active(t.runs[r], t.disposed)
        /\ Unserved(t.runs[r]) /\ MayServe(t.runs[r], mode) /\ StartedOnce(t.runs[r])
    BY <1>1, <1>3, EventGoesOn
  <2>2. Left(t, u, r)
    BY <1>3, <2>1, CallServerLeaves
  <2> QED
    BY <2>1, <2>2, LeftAfter
<1> QED
  BY <1>2, <1>3

LEMMA FetchCodeLeaves ==
    ASSUME NEW s \in ClientState, NEW r \in Executions, s.runs[r].phase = "running",
           Active(s.runs[r], s.disposed), Quiet(s.runs[r]), s.runs[r].entry # None,
           mode # "development", ConstantsSound,
           NEW u \in FetchCode(s, r)
    PROVE  Left(s, u, r)
<1>1. PICK t \in Emit(s, r, "code-fetch-started") : u = Await(t, r, "code")
  BY DEF FetchCode, Then
<1>2. "code-fetch-started" \in Events \ (Terminals \cup {"cancel-requested"})
  BY DEF Events, Terminals
<1>3. Place(s.runs[r], "code", mode)
  BY DEF Place
<1> QED
  BY <1>1, <1>2, <1>3, EventAwaits

LEMMA AfterManifestLeaves ==
    ASSUME NEW s \in ClientState, NEW r \in Executions, s.runs[r].phase = "running",
           Active(s.runs[r], s.disposed), Quiet(s.runs[r]), ConstantsSound,
           NEW answer, NEW u \in AfterManifest(s, r, answer)
    PROVE  Left(s, u, r)
<1> DEFINE x == s.runs[r]
           Onwards(t) == IF t.runs[r].entry = None THEN Fail(t, r, "function_failed")
                         ELSE IF mode = "development" THEN AfterManifestDevelopment(t, r)
                         ELSE FetchCode(t, r)
<1>1. Unserved(x) /\ Closing(x, mode) /\ Open(x) /\ x.attempts = <<>> /\ ServerStarts(x.log) = {}
  BY QuietUnserved, UnservedCloses DEF Active, Quiet
<1>2. \/ u \in Cancelled(s, r)
      \/ ~x.aborted /\ u \in Fail(s, r, "manifest_fetch_failed")
      \/ \E t \in Emit(s, r, "manifest-fetch-completed") :
           IF t.runs[r].aborted THEN u \in Cancelled(t, r) ELSE u \in Onwards(t)
  BY DEF AfterManifest, EmitThen, Then, UnlessAborted
<1>3. CASE u \in Cancelled(s, r)
  BY <1>1, <1>3, CancelledLeaves
<1>4. CASE ~x.aborted /\ u \in Fail(s, r, "manifest_fetch_failed")
  <2>1. "manifest_fetch_failed" \in Codes \ {"completed", "cancelled"} /\ ~x.requested
    BY <1>4 DEF Codes, Active, Told
  <2> QED
    BY <1>1, <1>4, <2>1, FailLeaves
<1>5. ASSUME NEW t \in Emit(s, r, "manifest-fetch-completed"),
             IF t.runs[r].aborted THEN u \in Cancelled(t, r) ELSE u \in Onwards(t)
      PROVE  Left(s, u, r)
  <2> DEFINE y == t.runs[r]
  <2>1. "manifest-fetch-completed" \in Events \ (Terminals \cup {"cancel-requested"})
    BY DEF Events, Terminals
  <2>2. CASE y.aborted
    BY <1>1, <1>5, <2>1, <2>2, EventCancels
  <2>3. CASE ~y.aborted
    <3>1. /\ t \in ClientState /\ OthersKept(s, t, r) /\ y.phase = "running"
          /\ Active(y, t.disposed) /\ ~y.requested
          /\ Unserved(y) /\ y.attempts = <<>> /\ ServerStarts(y.log) = {}
      BY <1>1, <2>1, <2>3, EventGoesOn
    <3>2. Open(y) /\ Closing(y, mode) /\ Quiet(y)
      BY <3>1, UnservedCloses DEF Active, Quiet, Unserved
    <3>3. u \in Onwards(t)
      BY <1>5, <2>3
    <3>4. CASE y.entry = None
      <4>1. u \in Fail(t, r, "function_failed")
        BY <3>3, <3>4
      <4>2. "function_failed" \in Codes \ {"completed", "cancelled"}
        BY DEF Codes
      <4>3. Left(t, u, r)
        BY <3>1, <3>2, <4>1, <4>2, FailLeaves
      <4> QED
        BY <3>1, <4>3, LeftAfter
    <3>5. CASE y.entry # None /\ mode = "development"
      <4>1. u \in AfterManifestDevelopment(t, r)
        BY <3>3, <3>5
      <4>2. CASE ServerOnly(y)
        <5>1. PICK v \in Emit(t, r, "server-execution-started") :
                IF v.runs[r].aborted THEN u \in Cancelled(v, r) ELSE u \in CallServer(v, r)
          BY <4>1, <4>2 DEF AfterManifestDevelopment, EmitThen, Then, UnlessAborted
        <5>2. MayServe(y, mode)
          BY <3>5, <4>2 DEF MayServe
        <5>3. Left(t, u, r)
          BY <3>1, <5>1, <5>2, ServerAttemptLeaves
        <5> QED
          BY <3>1, <5>3, LeftAfter
      <4>3. CASE ~ServerOnly(y)
        <5>1. u \in Fail(t, r, "browser_runtime_failed")
          BY <4>1, <4>3 DEF AfterManifestDevelopment
        <5>2. "browser_runtime_failed" \in Codes \ {"completed", "cancelled"}
          BY DEF Codes
        <5>3. Left(t, u, r)
          BY <3>1, <3>2, <5>1, <5>2, FailLeaves
        <5> QED
          BY <3>1, <5>3, LeftAfter
      <4> QED
        BY <4>2, <4>3
    <3>6. CASE y.entry # None /\ mode # "development"
      <4>1. Left(t, u, r)
        BY <3>1, <3>2, <3>3, <3>6, FetchCodeLeaves
      <4> QED
        BY <3>1, <4>1, LeftAfter
    <3> QED
      BY <3>4, <3>5, <3>6
  <2> QED
    BY <2>2, <2>3
<1> QED
  BY <1>2, <1>3, <1>4, <1>5

LEMMA RunInBrowserLeaves ==
    ASSUME NEW s \in ClientState, NEW r \in Executions, s.runs[r].phase = "running",
           Active(s.runs[r], s.disposed), Place(s.runs[r], "browser", mode), ConstantsSound,
           NEW u \in RunInBrowser(s, r)
    PROVE  Left(s, u, r)
<1>1. PICK t \in {s} \cup Emit(s, r, "sandbox-initializing") :
        \E v \in Emit(t, r, "browser-execution-started") : u = Await(v, r, "browser")
  BY DEF RunInBrowser, Then
<1>2. {"sandbox-initializing", "browser-execution-started"}
        \subseteq Events \ (Terminals \cup {"cancel-requested"})
  BY DEF Events, Terminals
<1>3. /\ t \in ClientState /\ OthersKept(s, t, r) /\ Same(s.runs[r], t.runs[r])
      /\ Active(t.runs[r], t.disposed)
      /\ ServerStarts(t.runs[r].log) = ServerStarts(s.runs[r].log)
  <2>1. CASE t = s
    BY <2>1 DEF OthersKept, Same
  <2>2. CASE t \in Emit(s, r, "sandbox-initializing")
    BY <1>2, <2>2, PhaseEvent
  <2> QED
    BY <2>1, <2>2
<1>4. Place(t.runs[r], "browser", mode) /\ t.runs[r].phase = "running"
  BY <1>3 DEF Place, Quiet, Same
<1>5. Left(t, u, r)
  BY <1>1, <1>2, <1>3, <1>4, EventAwaits
<1> QED
  BY <1>3, <1>5, LeftAfter

LEMMA AfterCodeLeaves ==
    ASSUME NEW s \in ClientState, NEW r \in Executions, s.runs[r].phase = "running",
           Active(s.runs[r], s.disposed), Place(s.runs[r], "code", mode), ConstantsSound,
           NEW answer, NEW u \in AfterCode(s, r, answer)
    PROVE  Left(s, u, r)
<1> DEFINE x == s.runs[r]
<1>1. /\ Unserved(x) /\ Closing(x, mode) /\ Open(x) /\ x.attempts = <<>> /\ ServerStarts(x.log) = {}
      /\ x.entry # None /\ mode # "development"
  BY QuietUnserved, UnservedCloses DEF Active, Quiet, Place
<1>2. \/ u \in Cancelled(s, r)
      \/ ~x.aborted /\ u \in Fail(s, r, "code_fetch_failed")
      \/ \E t \in Emit(s, r, "code-fetch-completed") :
           IF t.runs[r].aborted THEN u \in Cancelled(t, r) ELSE u \in RunInBrowser(t, r)
  BY DEF AfterCode, EmitThen, Then, UnlessAborted
<1>3. CASE u \in Cancelled(s, r)
  BY <1>1, <1>3, CancelledLeaves
<1>4. CASE ~x.aborted /\ u \in Fail(s, r, "code_fetch_failed")
  <2>1. "code_fetch_failed" \in Codes \ {"completed", "cancelled"} /\ ~x.requested
    BY <1>4 DEF Codes, Active, Told
  <2> QED
    BY <1>1, <1>4, <2>1, FailLeaves
<1>5. ASSUME NEW t \in Emit(s, r, "code-fetch-completed"),
             IF t.runs[r].aborted THEN u \in Cancelled(t, r) ELSE u \in RunInBrowser(t, r)
      PROVE  Left(s, u, r)
  <2> DEFINE y == t.runs[r]
  <2>1. "code-fetch-completed" \in Events \ (Terminals \cup {"cancel-requested"})
    BY DEF Events, Terminals
  <2>2. CASE y.aborted
    BY <1>1, <1>5, <2>1, <2>2, EventCancels
  <2>3. CASE ~y.aborted
    <3>1. /\ t \in ClientState /\ OthersKept(s, t, r) /\ y.phase = "running"
          /\ Active(y, t.disposed)
          /\ Unserved(y) /\ y.attempts = <<>> /\ ServerStarts(y.log) = {}
          /\ y.entry = x.entry
      BY <1>1, <2>1, <2>3, EventGoesOn
    <3>2. Place(y, "browser", mode)
      BY <1>1, <3>1 DEF Place, Quiet, Unserved
    <3>3. Left(t, u, r)
      BY <1>5, <2>3, <3>1, <3>2, RunInBrowserLeaves
    <3> QED
      BY <3>1, <3>3, LeftAfter
  <2> QED
    BY <2>2, <2>3
<1> QED
  BY <1>2, <1>3, <1>4, <1>5

\* An attempt is recorded; only what may be said of attempts changes.
Pushed(s, t, r, attempt) ==
    /\ t \in ClientState /\ t.disposed = s.disposed
    /\ OthersKept(s, t, r)
    /\ LET x == s.runs[r]
           y == t.runs[r]
       IN  /\ y.attempts = Append(x.attempts, attempt)
           /\ y.phase = x.phase /\ y.entry = x.entry /\ y.sent = x.sent
           /\ y.outcome = x.outcome /\ y.log = x.log /\ y.terminal = x.terminal
           /\ y.requested = x.requested /\ y.caller = x.caller /\ y.aborted = x.aborted

LEMMA Pushes ==
    ASSUME NEW s \in ClientState, NEW r \in Executions, NEW kind \in {"browser", "server"},
           NEW outcome \in {"succeeded", "failed", "cancelled"}, NEW code \in Codes \cup {None}
    PROVE  LET a == [kind |-> kind, outcome |-> outcome, code |-> code]
               t == PushAttempt(s, r, kind, outcome, code) IN
           /\ Pushed(s, t, r, a)
           /\ t.runs[r].finalRoute = s.runs[r].finalRoute
<1> DEFINE a == [kind |-> kind, outcome |-> outcome, code |-> code]
           t == PushAttempt(s, r, kind, outcome, code)
           x == s.runs[r]
           l == Append(x.attempts, a)
           y == [x EXCEPT !.attempts = l]
<1>1. t = [s EXCEPT !.runs[r].attempts = l]
  BY DEF PushAttempt
<1>2. x \in RunRecord /\ a \in Attempts
  BY DEF ClientState, Attempts
<1> HIDE DEF a, t
<1>a. x.attempts \in Seq(Attempts)
  BY <1>2 DEF RunRecord
<1>3. l \in Seq(Attempts)
  BY <1>2, <1>a
<1> HIDE DEF l
<1>4. t = [s EXCEPT !.runs[r] = y]
  BY <1>1
<1>5. y \in RunRecord
  BY <1>2, <1>3 DEF RunRecord
<1>6. /\ y.attempts = l
      /\ y.phase = x.phase /\ y.entry = x.entry /\ y.sent = x.sent
      /\ y.outcome = x.outcome /\ y.log = x.log /\ y.terminal = x.terminal
      /\ y.requested = x.requested /\ y.caller = x.caller /\ y.aborted = x.aborted
      /\ y.finalRoute = x.finalRoute
  BY <1>2 DEF RunRecord
<1> HIDE DEF y
<1>7. /\ t \in ClientState /\ t.disposed = s.disposed /\ t.runs[r] = y
      /\ \A q \in Executions \ {r} : t.runs[q] = s.runs[q]
  BY <1>4, <1>5, SetRun
<1>8. OthersKept(s, t, r)
  BY <1>7 DEF OthersKept
<1> QED
  BY <1>6, <1>7, <1>8 DEF Pushed, l, a, t

\* A sequence with one more element.
LEMMA Appended ==
    ASSUME NEW l \in Seq(Attempts), NEW a \in Attempts
    PROVE  LET m == Append(l, a) IN
           /\ m # <<>> /\ Last(m) = a /\ Len(m) = Len(l) + 1
           /\ DOMAIN m = DOMAIN l \cup {Len(m)} /\ m[Len(m)] = a
           /\ \A i \in DOMAIN l : m[i] = l[i] /\ i # Len(m)
           /\ l # <<>> => Head(m) = Head(l)
           /\ l = <<>> => Head(m) = a
<1> DEFINE m == Append(l, a)
<1>1. /\ m \in Seq(Attempts) /\ Len(m) = Len(l) + 1 /\ Len(l) \in Nat
      /\ DOMAIN m = 1..(Len(l) + 1) /\ DOMAIN l = 1..Len(l) /\ m[Len(l) + 1] = a
      /\ \A i \in 1..Len(l) : m[i] = l[i]
  OBVIOUS
<1>2. l # <<>> => Len(l) > 0
  OBVIOUS
<1>a. \A k \in Seq(Attempts) : k = <<>> => Len(k) = 0
  OBVIOUS
<1>3. m # <<>>
  BY <1>1, <1>a
<1>4. Head(m) = m[1] /\ (l # <<>> => Head(l) = l[1])
  OBVIOUS
<1>5. l = <<>> => Len(l) = 0
  OBVIOUS
<1> HIDE DEF m
<1>6. DOMAIN m = DOMAIN l \cup {Len(m)}
  BY <1>1
<1>7. \A i \in DOMAIN l : m[i] = l[i] /\ i # Len(m)
  BY <1>1
<1>8. (l # <<>> => Head(m) = Head(l)) /\ (l = <<>> => Head(m) = a)
  BY <1>1, <1>2, <1>4, <1>5
<1> QED
  BY <1>1, <1>3, <1>6, <1>7, <1>8 DEF Last, m

\* What recording an attempt does to the facts the code relies on.
LEMMA PushedSound ==
    ASSUME NEW s \in ClientState, NEW r \in Executions, NEW t, NEW a \in Attempts,
           Pushed(s, t, r, a), Active(s.runs[r], s.disposed)
    PROVE  LET x == s.runs[r]
               y == t.runs[r] IN
           /\ LogSound(y) /\ ~y.terminal /\ y.outcome = None /\ Told(y, t.disposed)
           /\ y.attempts # <<>> /\ Last(y.attempts) = a
           /\ \A i \in DOMAIN y.attempts : y.attempts[i].outcome = "succeeded" => i = Len(y.attempts)
           /\ a.outcome # "succeeded" => Unwon(y)
           /\ a.kind = "browser" /\ Unserved(x) => Unserved(y)
           /\ x.attempts = <<>> => Head(y.attempts) = a
           /\ a.kind = "server" /\ Place(x, "server", mode) => Closing(y, mode)
<1> DEFINE x == s.runs[r]
           y == t.runs[r]
           m == Append(x.attempts, a)
<1>1. x.attempts \in Seq(Attempts)
  BY DEF ClientState, RunRecord
<1>2. /\ m # <<>> /\ Last(m) = a /\ Len(m) = Len(x.attempts) + 1
      /\ DOMAIN m = DOMAIN x.attempts \cup {Len(m)} /\ m[Len(m)] = a
      /\ \A i \in DOMAIN x.attempts : m[i] = x.attempts[i] /\ i # Len(m)
      /\ x.attempts # <<>> => Head(m) = Head(x.attempts)
      /\ x.attempts = <<>> => Head(m) = a
  BY <1>1, Appended
<1>3. /\ y.attempts = m
      /\ y.phase = x.phase /\ y.entry = x.entry /\ y.sent = x.sent
      /\ y.outcome = x.outcome /\ y.log = x.log /\ y.terminal = x.terminal
      /\ y.requested = x.requested /\ y.caller = x.caller /\ y.aborted = x.aborted
      /\ t.disposed = s.disposed
  BY DEF Pushed
<1>a. a.outcome \in {"succeeded", "failed", "cancelled"}
  BY DEF Attempts
<1> HIDE DEF m, x, y
<1>4. LogSound(y) /\ ~y.terminal /\ y.outcome = None /\ Told(y, t.disposed)
  BY <1>3 DEF Active, Open, LogSound, Told, x
<1>5. Unwon(x)
  BY DEF Active, Open, x
<1>6. \A i \in DOMAIN y.attempts : y.attempts[i].outcome = "succeeded" => i = Len(y.attempts)
  BY <1>2, <1>3, <1>5 DEF Unwon
<1>7. a.outcome # "succeeded" => Unwon(y)
  BY <1>2, <1>3, <1>5, <1>a DEF Unwon
<1>8. a.kind = "browser" /\ Unserved(x) => Unserved(y)
  BY <1>2, <1>3 DEF Unserved, NoServerAttempt
<1>9. a.kind = "server" /\ Place(x, "server", mode) => Closing(y, mode)
  <2> SUFFICES ASSUME a.kind = "server", Place(x, "server", mode)
               PROVE  Closing(y, mode)
    OBVIOUS
  <2>1. /\ MayServe(x, mode) /\ StartedOnce(x) /\ x.sent # "late"
        /\ x.sent \in {"no", "live", "late"}
    BY DEF Place, ClientState, RunRecord, x
  <2>2. MayServe(y, mode)
    BY <1>2, <1>3, <2>1 DEF MayServe, ServerOnly
  <2>3. StartedOnce(y) /\ ServerStarts(y.log) # {}
    BY <1>3, <2>1 DEF StartedOnce
  <2> QED
    BY <1>2, <1>3, <2>1, <2>2, <2>3 DEF Closing
<1> QED
  BY <1>2, <1>3, <1>4, <1>6, <1>7, <1>8, <1>9 DEF x, y

\* A run that succeeds, wherever it did.
LEMMA CompleteLeaves ==
    ASSUME NEW s \in ClientState, NEW r \in Executions, s.runs[r].phase = "running",
           Active(s.runs[r], s.disposed), ~s.runs[r].aborted, ConstantsSound,
           NEW route \in {"browser", "server"},
           IF route = "server" THEN Place(s.runs[r], "server", mode) ELSE Unserved(s.runs[r]),
           NEW u \in Complete(s, r, route)
    PROVE  Left(s, u, r)
<1> DEFINE p == PushAttempt(s, r, route, "succeeded", None)
           a == [kind |-> route, outcome |-> "succeeded", code |-> None]
           t == [p EXCEPT !.runs[r].finalRoute = route]
           y == [p.runs[r] EXCEPT !.finalRoute = route]
<1>1. PICK v \in Emit(t, r, "completed") : u \in Finish(v, r, "completed")
  BY DEF Complete, Then
<1>2. Pushed(s, p, r, a) /\ a \in Attempts
  BY Pushes DEF Attempts
<1>b. a.kind = route /\ a.outcome = "succeeded"
  OBVIOUS
<1>3. t = [p EXCEPT !.runs[r] = y]
  OBVIOUS
<1> HIDE DEF p, a
<1>4. /\ LogSound(p.runs[r]) /\ ~p.runs[r].terminal
      /\ p.runs[r].attempts # <<>> /\ Last(p.runs[r].attempts) = a
      /\ \A i \in DOMAIN p.runs[r].attempts :
           p.runs[r].attempts[i].outcome = "succeeded" => i = Len(p.runs[r].attempts)
      /\ Closing(p.runs[r], mode)
  BY <1>2, <1>b, PushedSound, UnservedCloses
<1>5. /\ p \in ClientState /\ OthersKept(s, p, r) /\ p.runs[r].phase = "running"
      /\ ~p.runs[r].requested
  BY <1>2 DEF Pushed, Active, Told
<1>6. y \in RunRecord /\ y.finalRoute = route /\ y.log = p.runs[r].log
      /\ y.terminal = p.runs[r].terminal /\ y.requested = p.runs[r].requested
      /\ y.attempts = p.runs[r].attempts /\ y.phase = p.runs[r].phase
      /\ y.sent = p.runs[r].sent /\ y.entry = p.runs[r].entry
  <2>1. p.runs[r] \in RunRecord
    BY <1>5 DEF ClientState
  <2> QED
    BY <2>1 DEF RunRecord
<1> HIDE DEF y, t
<1>7. /\ t \in ClientState /\ t.disposed = p.disposed /\ t.runs[r] = y
      /\ \A q \in Executions \ {r} : t.runs[q] = p.runs[q]
  BY <1>3, <1>5, <1>6, SetRun
<1>8. LogSound(y) /\ Closing(y, mode)
  BY <1>4, <1>6 DEF LogSound, Closing, MayServe, ServerOnly, StartedOnce
<1>9. LastWon(y)
  BY <1>4, <1>6, <1>b DEF LastWon
<1>10. "completed" \in Terminals /\ "completed" \in Codes
  BY DEF Terminals, Codes
<1>11. Left(t, u, r)
  BY <1>1, <1>4, <1>5, <1>6, <1>7, <1>8, <1>9, <1>10, EventThenFinish
<1>12. OthersKept(s, t, r)
  BY <1>5, <1>7 DEF OthersKept
<1> QED
  BY <1>11, <1>12, LeftAfter

LEMMA ErrorCodes ==
    ASSUME NEW answer \in Answers, NEW phase \in {"browser", "server"}
    PROVE  /\ classifyError(answer, phase) \in Codes
           /\ answer \notin {"ok", "cancelled"} =>
                classifyError(answer, phase) \in Codes \ {"completed", "cancelled"}
           /\ answer \in {"deadline", "failure"} =>
                classifyError(answer, "browser") \in {"browser_runtime_failed", "deadline_exceeded"}
BY DEF classifyError, Answers, Codes

LEMMA SetFallback ==
    ASSUME NEW s \in ClientState, NEW r \in Executions
    PROVE  KinStep(s, [s EXCEPT !.runs[r].fallbackUsed = TRUE, !.runs[r].lastOn = "server"], r)
<1> DEFINE x == s.runs[r]
           y == [x EXCEPT !.fallbackUsed = TRUE, !.lastOn = "server"]
           t == [s EXCEPT !.runs[r].fallbackUsed = TRUE, !.runs[r].lastOn = "server"]
<1>1. t = [s EXCEPT !.runs[r] = y]
  OBVIOUS
<1>a. x \in RunRecord
  BY DEF ClientState
<1>2. y \in RunRecord
  BY <1>a DEF RunRecord
<1>b. Kin(x, y)
  BY <1>a DEF RunRecord, Kin, Same
<1> HIDE DEF y, t
<1>3. /\ t \in ClientState /\ t.disposed = s.disposed /\ t.runs[r] = y
      /\ \A q \in Executions \ {r} : t.runs[q] = s.runs[q]
  BY <1>1, <1>2, SetRun
<1> QED
  BY <1>b, <1>3 DEF KinStep, OthersKept, t

\* The environment failed the run in the browser and the server may take over.
LEMMA FallbackLeaves ==
    ASSUME NEW s \in ClientState, NEW r \in Executions, s.runs[r].phase = "running",
           Active(s.runs[r], s.disposed), MayServe(s.runs[r], mode), Unserved(s.runs[r]),
           ServerStarts(s.runs[r].log) = {}, ConstantsSound,
           NEW u \in Fallback(s, r)
    PROVE  Left(s, u, r)
<1> DEFINE t == [s EXCEPT !.runs[r].fallbackUsed = TRUE, !.runs[r].lastOn = "server"]
           y == t.runs[r]
<1>1. PICK v \in Emit(t, r, "fallback-started") :
        IF v.runs[r].aborted THEN u \in Cancelled(v, r)
        ELSE \E w \in Emit(v, r, "server-execution-started") :
               IF w.runs[r].aborted THEN u \in Cancelled(w, r) ELSE u \in CallServer(w, r)
  BY DEF Fallback, EmitThen, Then, UnlessAborted
<1>2. KinStep(s, t, r)
  BY SetFallback
<1> HIDE DEF t
<1>3. /\ t \in ClientState /\ OthersKept(s, t, r) /\ y.phase = "running"
      /\ Active(y, t.disposed) /\ MayServe(y, mode) /\ Unserved(y) /\ ServerStarts(y.log) = {}
  BY <1>2, KinSound DEF KinStep, Kin, Same, MayServe, ServerOnly, Unserved, NoServerAttempt
<1>4. "fallback-started" \in Events \ (Terminals \cup {"cancel-requested"})
      /\ "fallback-started" # "server-execution-started"
  BY DEF Events, Terminals
<1>5. Left(t, u, r)
  <2>1. CASE v.runs[r].aborted
    BY <1>1, <1>3, <1>4, <2>1, EventCancels
  <2>2. CASE ~v.runs[r].aborted
    <3>1. /\ v \in ClientState /\ OthersKept(t, v, r)
          /\ v.runs[r].phase = "running" /\ Active(v.runs[r], v.disposed)
          /\ Unserved(v.runs[r]) /\ MayServe(v.runs[r], mode) /\ ServerStarts(v.runs[r].log) = {}
      BY <1>3, <1>4, <2>2, EventGoesOn
    <3>2. Left(v, u, r)
      BY <1>1, <2>2, <3>1, ServerAttemptLeaves
    <3> QED
      BY <3>1, <3>2, LeftAfter
  <2> QED
    BY <2>1, <2>2
<1> QED
  BY <1>3, <1>5, LeftAfter

LEMMA AfterBrowserLeaves ==
    ASSUME NEW s \in ClientState, NEW r \in Executions, s.runs[r].phase = "running",
           Active(s.runs[r], s.disposed), Place(s.runs[r], "browser", mode), ConstantsSound, mode \in Modes,
           NEW answer \in Answers, NEW u \in AfterBrowser(s, r, answer)
    PROVE  Left(s, u, r)
<1> DEFINE x == s.runs[r]
           code == classifyError(answer, "browser")
           c == PushAttempt(s, r, "browser", "cancelled", "cancelled")
           f == PushAttempt(s, r, "browser", "failed", code)
           ca == [kind |-> "browser", outcome |-> "cancelled", code |-> "cancelled"]
           fa == [kind |-> "browser", outcome |-> "failed", code |-> code]
           Onwards(t) == IF answer # "function" /\ mode = "production" /\ ServerOnly(t.runs[r])
                         THEN Fallback(t, r) ELSE Fail(t, r, code)
<1>1. \/ u \in Cancelled(c, r)
      \/ ~x.aborted /\ u \in Complete(s, r, "browser")
      \/ /\ ~x.aborted /\ answer \notin {"ok", "cancelled"}
         /\ \E t \in Emit(f, r, "browser-execution-failed") :
              IF t.runs[r].aborted THEN u \in Cancelled(t, r) ELSE u \in Onwards(t)
  BY DEF AfterBrowser, EmitThen, Then, UnlessAborted
<1>2. Quiet(x) /\ Unserved(x) /\ x.entry # None /\ mode # "development"
  BY QuietUnserved DEF Place
<1>3. code \in Codes /\ (answer \notin {"ok", "cancelled"} => code \in Codes \ {"completed", "cancelled"})
  BY ErrorCodes
<1>4. "cancelled" \in Codes
  BY DEF Codes
<1>5. /\ Pushed(s, c, r, ca) /\ c.runs[r].finalRoute = x.finalRoute
      /\ Pushed(s, f, r, fa) /\ f.runs[r].finalRoute = x.finalRoute
      /\ ca \in Attempts /\ fa \in Attempts
  BY <1>3, <1>4, Pushes DEF Attempts
<1>a. /\ ca.kind = "browser" /\ ca.outcome = "cancelled"
      /\ fa.kind = "browser" /\ fa.outcome = "failed" /\ fa.code = code
  OBVIOUS
<1>6. x.finalRoute = None /\ x.attempts = <<>> /\ ServerStarts(x.log) = {}
  BY <1>2 DEF Active, Open, Quiet
<1> HIDE DEF c, f, ca, fa, code
<1>7. CASE u \in Cancelled(c, r)
  <2>1. Open(c.runs[r]) /\ Unserved(c.runs[r])
    BY <1>2, <1>5, <1>6, <1>a, PushedSound DEF Open
  <2>2. c \in ClientState /\ OthersKept(s, c, r) /\ c.runs[r].phase = "running"
    BY <1>5 DEF Pushed
  <2> QED
    BY <1>7, <2>1, <2>2, UnservedCloses, CancelledLeaves, LeftAfter
<1>8. CASE ~x.aborted /\ u \in Complete(s, r, "browser")
  BY <1>2, <1>8, CompleteLeaves
<1>9. ASSUME ~x.aborted, answer \notin {"ok", "cancelled"},
             NEW t \in Emit(f, r, "browser-execution-failed"),
             IF t.runs[r].aborted THEN u \in Cancelled(t, r) ELSE u \in Onwards(t)
      PROVE  Left(s, u, r)
  <2> DEFINE y == f.runs[r]
  <2>1. /\ f \in ClientState /\ OthersKept(s, f, r) /\ y.phase = "running"
        /\ y.entry = x.entry /\ ServerStarts(y.log) = {}
    BY <1>5, <1>6 DEF Pushed
  <2>2. /\ Active(y, f.disposed) /\ Unserved(y) /\ y.attempts # <<>> /\ Last(y.attempts) = fa
        /\ Head(y.attempts) = fa
    BY <1>2, <1>5, <1>6, <1>a, PushedSound DEF Active, Open
  <2>3. "browser-execution-failed" \in Events \ (Terminals \cup {"cancel-requested"})
    BY DEF Events, Terminals
  <2>4. CASE t.runs[r].aborted
    BY <1>9, <2>1, <2>2, <2>3, <2>4, EventCancels, LeftAfter
  <2>5. CASE ~t.runs[r].aborted
    <3> DEFINE z == t.runs[r]
    <3>1. /\ t \in ClientState /\ OthersKept(f, t, r) /\ z.phase = "running"
          /\ Active(z, t.disposed) /\ ~z.requested /\ Unserved(z)
          /\ z.attempts = y.attempts /\ z.entry = y.entry /\ ServerStarts(z.log) = {}
      BY <2>1, <2>2, <2>3, <2>5, EventGoesOn
    <3>2. Left(t, u, r)
      <4>1. CASE answer # "function" /\ mode = "production" /\ ServerOnly(z)
        <5>1. code \in {"browser_runtime_failed", "deadline_exceeded"}
          BY <1>9, <4>1, ErrorCodes DEF Answers, code
        <5>2. MayServe(z, mode)
          BY <1>2, <1>a, <2>1, <2>2, <3>1, <4>1, <5>1 DEF MayServe
        <5>3. u \in Fallback(t, r)
          BY <1>9, <2>5, <4>1
        <5> QED
          BY <3>1, <5>2, <5>3, FallbackLeaves
      <4>2. CASE ~(answer # "function" /\ mode = "production" /\ ServerOnly(z))
        <5>1. u \in Fail(t, r, code)
          BY <1>9, <2>5, <4>2
        <5>2. Open(z) /\ Closing(z, mode) /\ Last(z.attempts).code = code
          BY <1>a, <2>2, <3>1, UnservedCloses DEF Active
        <5>3. code \in Codes \ {"completed", "cancelled"}
          BY <1>3, <1>9
        <5> QED
          BY <3>1, <5>1, <5>2, <5>3, FailLeaves
      <4> QED
        BY <4>1, <4>2
    <3> QED
      BY <2>1, <3>1, <3>2, LeftAfter
  <2> QED
    BY <2>4, <2>5
<1> QED
  BY <1>1, <1>7, <1>8, <1>9

LEMMA AfterServerLeaves ==
    ASSUME NEW s \in ClientState, NEW r \in Executions, s.runs[r].phase = "running",
           Active(s.runs[r], s.disposed), Place(s.runs[r], "server", mode), ConstantsSound,
           NEW answer \in Answers, NEW u \in AfterServer(s, r, answer)
    PROVE  Left(s, u, r)
<1> DEFINE x == s.runs[r]
           code == classifyError(answer, "server")
           outcome == IF answer \in {"ok", "cancelled"} THEN "cancelled" ELSE "failed"
           a == [kind |-> "server", outcome |-> outcome, code |-> code]
           t == PushAttempt(s, r, "server", outcome, code)
           y == t.runs[r]
<1>1. \/ ~x.aborted /\ u \in Complete(s, r, "server")
      \/ u \in Cancelled(t, r)
      \/ ~x.aborted /\ answer \notin {"ok", "cancelled"} /\ u \in Fail(t, r, code)
  BY DEF AfterServer
<1>2. code \in Codes /\ (answer \notin {"ok", "cancelled"} => code \in Codes \ {"completed", "cancelled"})
  BY ErrorCodes
<1>3. outcome \in {"failed", "cancelled"}
  OBVIOUS
<1> HIDE DEF code, outcome
<1>4. Pushed(s, t, r, a) /\ y.finalRoute = x.finalRoute /\ a \in Attempts
  BY <1>2, <1>3, Pushes DEF Attempts
<1>5. a.kind = "server" /\ a.outcome # "succeeded" /\ a.code = code
  BY <1>3
<1> HIDE DEF a, t
<1>6. x.finalRoute = None
  BY DEF Active, Open
<1>7. /\ Open(y) /\ Closing(y, mode) /\ Last(y.attempts) = a
  BY <1>4, <1>5, <1>6, PushedSound DEF Open
<1>8. t \in ClientState /\ OthersKept(s, t, r) /\ y.phase = "running"
      /\ y.requested = x.requested
  BY <1>4 DEF Pushed
<1>9. CASE ~x.aborted /\ u \in Complete(s, r, "server")
  BY <1>9, CompleteLeaves
<1>10. CASE u \in Cancelled(t, r)
  BY <1>7, <1>8, <1>10, CancelledLeaves, LeftAfter
<1>11. CASE ~x.aborted /\ answer \notin {"ok", "cancelled"} /\ u \in Fail(t, r, code)
  <2>1. ~y.requested
    BY <1>8, <1>11 DEF Active, Told
  <2> QED
    BY <1>2, <1>5, <1>7, <1>8, <1>11, <2>1, FailLeaves, LeftAfter
<1> QED
  BY <1>1, <1>9, <1>10, <1>11

-----------------------------------------------------------------------------
(* The steps.                                                              *)

\* The code after an await takes the answer and runs.
LEMMA Resumes ==
    ASSUME NEW s \in ClientState, NEW r \in Executions, s.runs[r].phase \in Awaits,
           Waiting(s.runs[r], s.disposed, mode)
    PROVE  LET t == [s EXCEPT !.runs[r].phase = "running", !.runs[r].answer = None] IN
           /\ t \in ClientState /\ OthersKept(s, t, r)
           /\ t.runs[r].phase = "running" /\ Active(t.runs[r], t.disposed)
           /\ Place(t.runs[r], s.runs[r].phase, mode)
<1> DEFINE x == s.runs[r]
           y == [x EXCEPT !.phase = "running", !.answer = None]
           t == [s EXCEPT !.runs[r].phase = "running", !.runs[r].answer = None]
<1>1. t = [s EXCEPT !.runs[r] = y]
  OBVIOUS
<1>2. x \in RunRecord /\ "running" \in Phases
  BY DEF ClientState, Phases
<1>3. y \in RunRecord
  BY <1>2 DEF RunRecord
<1>4. /\ y.phase = "running" /\ y.entry = x.entry /\ y.sent = x.sent
      /\ y.attempts = x.attempts /\ y.finalRoute = x.finalRoute /\ y.outcome = x.outcome
      /\ y.log = x.log /\ y.terminal = x.terminal /\ y.requested = x.requested
      /\ y.caller = x.caller /\ y.aborted = x.aborted
  BY <1>2 DEF RunRecord
<1> HIDE DEF x, y, t
<1>5. Active(y, s.disposed)
  BY <1>4 DEF Waiting, Active, Open, Told, LogSound, Unwon, x
<1>6. Place(y, x.phase, mode)
  BY <1>4 DEF Waiting, Place, Quiet, MayServe, ServerOnly, StartedOnce, NoServerAttempt, x
<1>7. /\ t \in ClientState /\ t.disposed = s.disposed /\ t.runs[r] = y
      /\ \A q \in Executions \ {r} : t.runs[q] = s.runs[q]
  BY <1>1, <1>3, SetRun DEF x
<1> QED
  BY <1>4, <1>5, <1>6, <1>7 DEF OthersKept, t, x

\* A step that leaves execution r and the client sound keeps the invariant.
LEMMA Becoming ==
    ASSUME IInv, NEW r \in Executions, NEW t, Left(Client, t, r), Becomes(t)
    PROVE  IInv'
<1>1. t \in ClientState /\ t.disposed = disposed' /\ t.runs = runs' /\ mode' = mode
  BY DEF Left, Becomes
<1>2. Client' = t
  BY <1>1 DEF Client, ClientState
<1>3. Client.runs = runs /\ Client.disposed = disposed
  BY DEF Client
<1>4. \A q \in Executions : RunSound(t.runs[q], t.disposed, mode)
  BY <1>3 DEF Left, OthersKept, IInv
<1>5. \A q \in Executions : RunSound(runs[q], disposed, mode)'
  BY <1>1, <1>4
<1> QED
  BY <1>1, <1>2, <1>5 DEF IInv

LEMMA InitSound == Init => IInv
<1> SUFFICES ASSUME Init PROVE IInv
  OBVIOUS
<1>1. NewRun \in RunRecord
  BY DEF NewRun, RunRecord, Phases
<1>2. Client \in ClientState
  BY <1>1 DEF Init, Client, ClientState
<1>3. NewRun = [NewRun EXCEPT !.caller = NewRun.caller] /\ NewRun.phase = "idle"
  BY DEF NewRun
<1>4. \A r \in Executions : RunSound(runs[r], disposed, mode)
  BY <1>3 DEF Init, RunSound, Idle
<1> QED
  BY <1>2, <1>4 DEF Init, IInv

LEMMA StartSound ==
    ASSUME IInv, ConstantsSound, NEW r \in Executions, Start(r)
    PROVE  IInv'
<1>1. Client \in ClientState /\ Client.runs = runs
  BY DEF IInv, Client
<1>2. Idle(Client.runs[r])
  BY <1>1 DEF IInv, Start, RunSound, Awaits
<1>3. PICK t \in StartRun(Client, r) : Becomes(t)
  BY DEF Start
<1>4. Left(Client, t, r)
  BY <1>1, <1>2, <1>3, StartLeaves
<1> QED
  BY <1>3, <1>4, Becoming

LEMMA RefuseSound ==
    ASSUME IInv, NEW r \in Executions, RefuseRequest(r)
    PROVE  IInv'
<1>1. Client \in ClientState /\ Client.runs = runs /\ Client.disposed = disposed
  BY DEF IInv, Client
<1>2. Idle(runs[r])
  BY DEF IInv, RefuseRequest, RunSound, Awaits
<1>3. PICK t \in Finish(Client, r, "function_failed") : Becomes(t)
  BY DEF RefuseRequest
<1>4. "function_failed" \in Codes
  BY DEF Codes
<1>5. /\ t \in ClientState /\ OthersKept(Client, t, r)
      /\ Ended(runs[r], t.runs[r], "function_failed")
  BY <1>1, <1>3, <1>4, Finishes
<1>6. LET x == runs[r] IN
      /\ x.log = <<>> /\ x.terminal = FALSE /\ x.attempts = <<>> /\ x.sent = "no"
      /\ x.finalRoute = None
  BY <1>2 DEF Idle, NewRun
<1>7. LET y == t.runs[r] IN
      /\ y.log = <<>> /\ y.terminal = FALSE /\ y.attempts = <<>> /\ y.sent = "no"
      /\ y.finalRoute = None /\ y.phase = "done" /\ y.outcome = "function_failed"
      /\ DOMAIN y.log = {} /\ DOMAIN y.attempts = {}
  BY <1>5, <1>6 DEF Ended
<1>8. Final(t.runs[r], mode)
  BY <1>7 DEF Final, LogSound, Closing, Unwon
<1>9. Left(Client, t, r)
  BY <1>5, <1>7, <1>8 DEF Left, RunSound
<1> QED
  BY <1>3, <1>9, Becoming

LEMMA AnswerSound ==
    ASSUME IInv, ConstantsSound, NEW r \in Executions, Answer(r)
    PROVE  IInv'
<1> DEFINE x == runs[r]
<1>1. PICK answer \in Answers, entry \in Entries \cup {None} :
        /\ entry # x.entry => x.phase = "manifest"
        /\ runs' = [runs EXCEPT ![r].answer = answer, ![r].entry = entry]
  BY DEF Answer
<1> DEFINE y == [x EXCEPT !.answer = answer, !.entry = entry]
           t == [Client EXCEPT !.runs[r] = y]
<1>2. Client \in ClientState /\ Client.runs = runs /\ Client.disposed = disposed
  BY DEF IInv, Client
<1>3. x \in RunRecord /\ x.phase \in Awaits /\ Waiting(x, disposed, mode)
  BY <1>2 DEF IInv, Answer, RunSound, ClientState, Awaits
<1>4. y \in RunRecord
  BY <1>3 DEF RunRecord
<1>5. /\ y.answer = answer /\ y.phase = x.phase /\ y.entry = entry /\ y.sent = x.sent
      /\ y.attempts = x.attempts /\ y.finalRoute = x.finalRoute /\ y.outcome = x.outcome
      /\ y.log = x.log /\ y.terminal = x.terminal /\ y.requested = x.requested
      /\ y.caller = x.caller /\ y.aborted = x.aborted
  BY <1>3 DEF RunRecord
<1>6. runs' = [runs EXCEPT ![r] = y]
  BY <1>1
<1> HIDE DEF x, y
<1>7. /\ t \in ClientState /\ t.disposed = disposed /\ t.runs[r] = y
      /\ \A q \in Executions \ {r} : t.runs[q] = Client.runs[q]
  BY <1>2, <1>4, SetRun
<1>8. Becomes(t)
  BY <1>2, <1>6 DEF Becomes, Answer, Client
<1> HIDE DEF t
<1>9. Active(y, disposed)
  BY <1>3, <1>5 DEF Waiting, Active, Open, Told, LogSound, Unwon
<1>10. Place(y, x.phase, mode)
  BY <1>1, <1>3, <1>5 DEF Waiting, Place, Quiet, MayServe, ServerOnly, StartedOnce, NoServerAttempt, x
<1>11. Waiting(y, disposed, mode)
  BY <1>5, <1>9, <1>10 DEF Waiting, ConstantsSound
<1>12. Left(Client, t, r)
  BY <1>2, <1>3, <1>5, <1>7, <1>11 DEF Left, OthersKept, RunSound
<1> QED
  BY <1>8, <1>12, Becoming

LEMMA AnswerKnown ==
    ASSUME NEW x \in RunRecord
    PROVE  x.answer \in Answers \cup {None}
BY DEF RunRecord

LEMMA ContinueSound ==
    ASSUME IInv, ConstantsSound, NEW r \in Executions, Continue(r)
    PROVE  IInv'
<1> DEFINE s == [Client EXCEPT !.runs[r].phase = "running", !.runs[r].answer = None]
           x == runs[r]
<1>1. PICK t : /\ t \in CASE x.phase = "manifest" -> AfterManifest(s, r, x.answer)
                         [] x.phase = "code" -> AfterCode(s, r, x.answer)
                         [] x.phase = "browser" -> AfterBrowser(s, r, x.answer)
                         [] OTHER -> AfterServer(s, r, x.answer)
               /\ Becomes(t)
  BY DEF Continue
<1>2. Client \in ClientState /\ Client.runs = runs /\ Client.disposed = disposed
  BY DEF IInv, Client
<1>3. x \in RunRecord /\ x.phase \in Awaits /\ Waiting(x, disposed, mode) /\ x.answer # None
  <2>1. x.phase \in Awaits /\ x.answer # None
    BY DEF Continue
  <2>2. x \in RunRecord /\ Waiting(x, disposed, mode)
    BY <1>2, <2>1 DEF IInv, RunSound, ClientState, Awaits
  <2> QED
    BY <2>1, <2>2
<1>4. x.answer \in Answers /\ mode \in Modes
  <2>a. x \in RunRecord
    BY <1>3
  <2>1. x.answer \in Answers \cup {None}
    BY <2>a, AnswerKnown
  <2>2. mode \in Modes
    BY Zenon DEF IInv
  <2> QED
    BY <1>3, <2>1, <2>2
<1>5. /\ s \in ClientState /\ OthersKept(Client, s, r)
      /\ s.runs[r].phase = "running" /\ Active(s.runs[r], s.disposed)
      /\ Place(s.runs[r], x.phase, mode)
  BY <1>2, <1>3, Resumes
<1> HIDE DEF s, x
<1>6. Left(s, t, r)
  <2>1. CASE x.phase = "manifest"
    BY <1>1, <1>5, <2>1, AfterManifestLeaves DEF Place
  <2>2. CASE x.phase = "code"
    BY <1>1, <1>5, <2>2, AfterCodeLeaves
  <2>3. CASE x.phase = "browser"
    BY <1>1, <1>4, <1>5, <2>3, AfterBrowserLeaves
  <2>4. CASE x.phase = "server"
    BY <1>1, <1>4, <1>5, <2>4, AfterServerLeaves
  <2> QED
    BY <1>3, <2>1, <2>2, <2>3, <2>4 DEF Awaits
<1>7. Left(Client, t, r)
  BY <1>5, <1>6, LeftAfter
<1> QED
  BY <1>1, <1>7, Becoming

\* The caller aborts: an idle run only remembers it, one under way is interrupted.
LEMMA AbortSound ==
    ASSUME IInv, ConstantsSound, NEW r \in Executions, Abort(r)
    PROVE  IInv'
<1> DEFINE x == runs[r]
<1>1. PICK t \in CallerAborts(Client, r) : Becomes(t)
  BY DEF Abort
<1>2. Client \in ClientState /\ Client.runs = runs /\ Client.disposed = disposed
  BY DEF IInv, Client
<1>3. x \in RunRecord /\ RunSound(x, disposed, mode) /\ x.phase # "done"
  BY <1>2 DEF IInv, Abort, ClientState
<1>4. CASE InFlight(x)
  <2>1. /\ t \in ClientState /\ OthersKept(Client, t, r)
        /\ Interfered(x, disposed, t.runs[r], t.disposed)
    BY <1>1, <1>2, <1>4, AbortInterferes
  <2>2. x.phase \in Awaits /\ Waiting(x, disposed, mode)
    BY <1>3, <1>4 DEF RunSound, InFlight
  <2>3. Waiting(t.runs[r], t.disposed, mode) /\ t.runs[r].phase = x.phase
    BY <1>3, <2>1, <2>2, InterferedWait DEF ClientState
  <2>4. Left(Client, t, r)
    BY <2>1, <2>2, <2>3 DEF Left, RunSound
  <2> QED
    BY <1>1, <2>4, Becoming
<1>5. CASE ~InFlight(x)
  <2> DEFINE y == [x EXCEPT !.caller = TRUE]
  <2>1. t = [Client EXCEPT !.runs[r].caller = TRUE]
    BY <1>1, <1>2, <1>5 DEF CallerAborts
  <2>2. t = [Client EXCEPT !.runs[r] = y]
    BY <1>2, <2>1
  <2>3. Idle(x) /\ x.phase = "idle"
    BY <1>3, <1>5 DEF RunSound, InFlight, Awaits
  <2>4. y \in RunRecord /\ y.phase = "idle" /\ y.caller = TRUE
    BY <1>3, <2>3 DEF RunRecord
  <2>5. y = [NewRun EXCEPT !.caller = TRUE]
    BY <2>3 DEF Idle
  <2> HIDE DEF y
  <2>6. Idle(y)
    BY <2>4, <2>5 DEF Idle
  <2>7. /\ t \in ClientState /\ t.disposed = disposed /\ t.runs[r] = y
        /\ \A q \in Executions \ {r} : t.runs[q] = Client.runs[q]
    BY <1>2, <2>2, <2>4, SetRun
  <2>8. Left(Client, t, r)
    BY <1>2, <2>4, <2>6, <2>7 DEF Left, OthersKept, RunSound
  <2> QED
    BY <1>1, <2>8, Becoming
<1> QED
  BY <1>4, <1>5

LEMMA DisposeSound ==
    ASSUME IInv, ConstantsSound, Dispose
    PROVE  IInv'
<1> DEFINE t == DisposeClient(Client)
<1>1. Client \in ClientState /\ Client.runs = runs /\ Client.disposed = disposed
  BY DEF IInv, Client
<1>2. ~disposed /\ Becomes(t)
  BY DEF Dispose
<1>3. /\ t \in ClientState
      /\ t.disposed
      /\ \A q \in Executions : t.runs[q] = IF InFlight(runs[q]) THEN Interrupt(runs[q]) ELSE runs[q]
  BY <1>1, <1>2, Disposes
<1>4. t.disposed \in BOOLEAN /\ disposed \in BOOLEAN /\ \A q \in Executions : runs[q] \in RunRecord
  BY <1>1, <1>3 DEF ClientState
<1> HIDE DEF t
<1>5. \A q \in Executions : RunSound(t.runs[q], t.disposed, mode)
  BY <1>3, <1>4, InterruptSound DEF IInv
<1>6. CASE Executions # {}
  <2>1. PICK r \in Executions : TRUE
    BY <1>6
  <2>2. Left(Client, t, r)
    BY <1>3, <1>5 DEF Left, OthersKept
  <2> QED
    BY <1>2, <2>2, Becoming
<1>7. CASE Executions = {}
  <2>1. Client' = t
    BY <1>2, <1>3 DEF Becomes, Client, ClientState
  <2> QED
    BY <1>2, <1>3, <1>7, <2>1 DEF IInv, Becomes
<1> QED
  BY <1>6, <1>7

LEMMA StutterSound ==
    ASSUME IInv, UNCHANGED vars
    PROVE  IInv'
<1>1. mode' = mode /\ disposed' = disposed /\ runs' = runs
  BY DEF vars
<1> QED
  BY <1>1 DEF IInv, Client

LEMMA StepSound == ConstantsSound /\ IInv /\ [Next]_vars => IInv'
<1> SUFFICES ASSUME ConstantsSound, IInv, [Next]_vars
             PROVE  IInv'
  OBVIOUS
<1>1. ASSUME NEW r \in Executions, Start(r)
      PROVE  IInv'
  BY <1>1, StartSound
<1>2. ASSUME NEW r \in Executions, RefuseRequest(r)
      PROVE  IInv'
  BY <1>2, RefuseSound
<1>3. ASSUME NEW r \in Executions, Answer(r)
      PROVE  IInv'
  BY <1>3, AnswerSound
<1>4. ASSUME NEW r \in Executions, Continue(r)
      PROVE  IInv'
  BY <1>4, ContinueSound
<1>5. ASSUME NEW r \in Executions, Abort(r)
      PROVE  IInv'
  BY <1>5, AbortSound
<1>6. CASE Dispose
  BY <1>6, DisposeSound
<1>7. CASE UNCHANGED vars
  BY <1>7, StutterSound
<1> QED
  BY <1>1, <1>2, <1>3, <1>4, <1>5, <1>6, <1>7 DEF Next

-----------------------------------------------------------------------------
(* The properties.                                                         *)

\* The inductive invariant holds throughout, whatever listeners and callers do.
THEOREM Invariance ==
    ASSUME ConstantsSound
    PROVE  Spec => []IInv
<1>1. Init => IInv
  BY InitSound
<1>2. IInv /\ [Next]_vars => IInv'
  BY StepSound
<1> QED
  BY <1>1, <1>2, PTL DEF Spec

\* What the invariant says of one run.
LEMMA RunKnown ==
    ASSUME IInv, NEW r \in Executions
    PROVE  /\ runs[r] \in RunRecord
           /\ disposed \in BOOLEAN /\ mode \in Modes
           /\ RunSound(runs[r], disposed, mode)
BY DEF IInv, Client, ClientState

LEMMA IdleKnown ==
    ASSUME NEW x \in RunRecord, Idle(x)
    PROVE  /\ x.log = <<>> /\ DOMAIN x.log = {} /\ x.attempts = <<>> /\ x.sent = "no"
           /\ x.phase = "idle" /\ LogSound(x)
<1>1. /\ x.log = <<>> /\ x.attempts = <<>> /\ x.sent = "no" /\ x.terminal = FALSE
      /\ x.phase = "idle"
  BY DEF Idle, NewRun
<1> QED
  BY <1>1 DEF LogSound

\* A run that is not done has told no terminal event.
LEMMA NoTerminalYet ==
    ASSUME IInv, NEW r \in Executions, runs[r].phase # "done" \/ runs[r].log = <<>>
    PROVE  \A i \in DOMAIN runs[r].log : runs[r].log[i] \notin Terminals
<1>1. runs[r] \in RunRecord /\ RunSound(runs[r], disposed, mode)
  BY RunKnown
<1>2. CASE runs[r].log = <<>>
  BY <1>2
<1>3. CASE runs[r].phase \in Awaits /\ Waiting(runs[r], disposed, mode)
  BY <1>3 DEF Waiting, Active, Open, LogSound
<1> QED
  BY <1>1, <1>2, <1>3, IdleKnown DEF RunSound

\* Every execution tells one terminal event, the last and the one its caller is told, and nothing
\* but "cancelled" follows the request to cancel.
THEOREM TerminalEventsSound ==
    ASSUME ConstantsSound
    PROVE  Spec => []OneTerminalEvent
<1>1. IInv => OneTerminalEvent
  <2> SUFFICES ASSUME IInv, NEW r \in Executions
               PROVE
        LET log == runs[r].log
            ends == {i \in DOMAIN log : log[i] \in Terminals}
        IN  /\ IF runs[r].phase # "done" \/ log = <<>> THEN ends = {}
               ELSE /\ ends = {Len(log)}
                    /\ log[Len(log)] = (IF runs[r].outcome \in {"completed", "cancelled"}
                                        THEN runs[r].outcome ELSE "failed")
            /\ \A i \in DOMAIN log : log[i] = "cancel-requested" =>
                  /\ \A j \in DOMAIN log : j > i => log[j] = "cancelled"
                  /\ runs[r].phase = "done" => runs[r].outcome = "cancelled"
    BY DEF OneTerminalEvent
  <2> DEFINE x == runs[r]
             log == x.log
             ends == {i \in DOMAIN log : log[i] \in Terminals}
  <2>1. x \in RunRecord /\ RunSound(x, disposed, mode)
    BY RunKnown
  <2>2. log \in Seq(Events) /\ DOMAIN log = 1..Len(log) /\ Len(log) \in Nat
    BY <2>1 DEF RunRecord
  <2>3. LogSound(x)
    BY <2>1, IdleKnown DEF RunSound, Waiting, Active, Open, Final
  <2>4. CASE x.phase # "done" \/ log = <<>>
    <3>1. ends = {}
      BY <2>4, NoTerminalYet
    <3>2. log = <<>> => DOMAIN log = {}
      OBVIOUS
    <3> HIDE DEF x
    <3> QED
      BY <2>3, <2>4, <3>1, <3>2 DEF LogSound, x
  <2>5. CASE x.phase = "done" /\ log # <<>>
    <3>1. Final(x, mode)
      BY <2>1, <2>5 DEF RunSound, Awaits
    <3> HIDE DEF x
    <3>2. /\ x.terminal
          /\ log[Len(log)] = (IF x.outcome \in {"completed", "cancelled"} THEN x.outcome
                              ELSE "failed")
      BY <2>5, <3>1 DEF Final
    <3>3. Len(log) \in DOMAIN log /\ log[Len(log)] \in Terminals
      BY <2>2, <2>3, <2>5, <3>2 DEF LogSound
    <3>4. ends = {Len(log)}
      BY <2>3, <3>3 DEF LogSound
    <3>5. ASSUME NEW i \in DOMAIN log, log[i] = "cancel-requested"
          PROVE  /\ \A j \in DOMAIN log : j > i => log[j] = "cancelled"
                 /\ x.outcome = "cancelled"
      <4>1. \A j \in DOMAIN log : j > i => log[j] = "cancelled"
        BY <2>3, <3>5 DEF LogSound
      <4>2. i # Len(log)
        BY <3>3, <3>5 DEF Terminals
      <4>3. log[Len(log)] = "cancelled"
        BY <2>2, <3>3, <4>1, <4>2
      <4> QED
        BY <3>2, <4>1, <4>3
    <3> QED
      BY <2>5, <3>2, <3>4, <3>5 DEF x
  <2> QED
    BY <2>4, <2>5
<1> QED
  BY <1>1, Invariance, PTL

\* Inputs that were sent were sent in time, where they may go, and once.
LEMMA SentKnown ==
    ASSUME IInv, NEW r \in Executions, runs[r].sent # "no"
    PROVE  runs[r].sent = "live" /\ MayServe(runs[r], mode) /\ StartedOnce(runs[r])
<1>1. runs[r] \in RunRecord /\ RunSound(runs[r], disposed, mode)
  BY RunKnown
<1>2. CASE runs[r].phase \in Awaits /\ Waiting(runs[r], disposed, mode)
  <2>1. runs[r].sent \in {"no", "live", "late"}
    BY <1>1 DEF RunRecord
  <2> QED
    BY <1>2, <2>1 DEF Waiting, Place, Quiet, Awaits
<1>3. CASE runs[r].phase = "done" /\ Final(runs[r], mode)
  BY <1>3 DEF Final, Closing
<1> QED
  BY <1>1, <1>2, <1>3, IdleKnown DEF RunSound

\* Inputs leave only where the manifest and the mode allow it, in production after a failure of
\* the browser.
THEOREM InputsArePrivate ==
    ASSUME ConstantsSound
    PROVE  Spec => []InputsStayPrivate
<1>1. IInv => InputsStayPrivate
  <2> SUFFICES ASSUME IInv, NEW r \in Executions, runs[r].sent # "no"
               PROVE  MayServe(runs[r], mode)
    BY DEF InputsStayPrivate, MayServe
  <2> QED
    BY RunKnown, SentKnown
<1> QED
  BY <1>1, Invariance, PTL

\* Inputs are sent once, and never after the execution was cancelled or the client disposed.
THEOREM CancelledInputsStay ==
    ASSUME ConstantsSound
    PROVE  Spec => []NothingSentAfterCancel
<1>1. IInv => NothingSentAfterCancel
  <2> SUFFICES ASSUME IInv, NEW r \in Executions
               PROVE  /\ runs[r].sent # "late"
                      /\ runs[r].sent # "no" => Cardinality(ServerStarts(runs[r].log)) = 1
    BY DEF NothingSentAfterCancel, ServerStarts
  <2>1. runs[r].sent # "late"
    BY SentKnown
  <2>2. ASSUME runs[r].sent # "no"
        PROVE  Cardinality(ServerStarts(runs[r].log)) = 1
    <3>1. PICK i \in DOMAIN runs[r].log : ServerStarts(runs[r].log) = {i}
      BY <2>2, SentKnown DEF StartedOnce
    <3> QED
      BY <3>1, FS_Singleton
  <2> QED
    BY <2>1, <2>2
<1> QED
  BY <1>1, Invariance, PTL

\* Between two steps no run is in the middle of a handler.
LEMMA TypeCorrect == IInv => TypeOK
<1> SUFFICES ASSUME IInv PROVE TypeOK
  OBVIOUS
<1> DEFINE R == [phase : {"idle", "done"} \cup Awaits, answer : Answers \cup {None},
          entry : Entries \cup {None}, caller : BOOLEAN, aborted : BOOLEAN, requested : BOOLEAN,
          terminal : BOOLEAN, log : Seq(Events), late : SUBSET Events,
          sent : {"no", "live", "late"}, attempts : Seq(Attempts),
          fallbackUsed : BOOLEAN, finalRoute : {"browser", "server", None},
          lastOn : {"browser", "server", None}, outcome : Codes \cup {None}]
<1>1. mode \in Modes /\ disposed \in BOOLEAN /\ runs \in [Executions -> RunRecord]
  BY DEF IInv, Client, ClientState
<1>2. ASSUME NEW r \in Executions
      PROVE  runs[r] \in R
  <2>1. runs[r] \in RunRecord
    BY <1>1
  <2>2. runs[r].phase \in {"idle", "done"} \cup Awaits
    BY RunKnown DEF RunSound
  <2> QED
    BY <2>1, <2>2 DEF RunRecord
<1>3. runs \in [Executions -> R]
  BY <1>1, <1>2
<1> QED
  BY <1>1, <1>3 DEF TypeOK

\* What the diagnostics of an execution tell is what it did.
THEOREM DiagnosticsSound ==
    ASSUME ConstantsSound
    PROVE  Spec => []DiagnosticsAgree
<1>1. IInv => DiagnosticsAgree
  <2> SUFFICES ASSUME IInv, NEW r \in Executions, runs[r].phase = "done"
               PROVE
        LET run == runs[r]
            won == {i \in DOMAIN run.attempts : run.attempts[i].outcome = "succeeded"}
        IN    /\ won = (IF run.outcome = "completed" THEN {Len(run.attempts)} ELSE {})
              /\ run.outcome = "completed" => run.finalRoute = Last(run.attempts).kind
              /\ run.outcome # "completed" => run.finalRoute = None
              /\ \A i \in DOMAIN run.attempts :
                    run.attempts[i].kind = "server" => Has(r, "server-execution-started")
              /\ run.sent # "no" => run.attempts # <<>> /\ Last(run.attempts).kind = "server"
              /\ run.outcome \notin {"completed", "cancelled"} /\ run.attempts # <<>>
                    => Last(run.attempts).code = run.outcome
    BY TypeCorrect DEF DiagnosticsAgree
  <2> DEFINE x == runs[r]
             won == {i \in DOMAIN x.attempts : x.attempts[i].outcome = "succeeded"}
  <2>1. x \in RunRecord /\ Final(x, mode)
    BY RunKnown, IdleKnown DEF RunSound, Awaits
  <2>2. /\ x.attempts \in Seq(Attempts)
        /\ DOMAIN x.attempts = 1..Len(x.attempts) /\ Len(x.attempts) \in Nat
        /\ x.attempts # <<>> => Len(x.attempts) \in DOMAIN x.attempts
    BY <2>1 DEF RunRecord
  <2>3. ServerStarts(x.log) # {} => Has(r, "server-execution-started")
    BY DEF ServerStarts, Has
  <2> HIDE DEF x
  <2>4. won = (IF x.outcome = "completed" THEN {Len(x.attempts)} ELSE {})
    <3>1. CASE x.outcome = "completed"
      <4>1. LastWon(x)
        BY <2>1, <3>1 DEF Final
      <4>2. x.attempts[Len(x.attempts)].outcome = "succeeded"
        BY <4>1 DEF LastWon, Last
      <4> QED
        BY <2>2, <3>1, <4>1, <4>2 DEF LastWon
    <3>2. CASE x.outcome # "completed"
      BY <2>1, <3>2 DEF Final, Unwon
    <3> QED
      BY <3>1, <3>2
  <2>5. /\ x.outcome = "completed" => x.finalRoute = Last(x.attempts).kind
        /\ x.outcome # "completed" => x.finalRoute = None
    BY <2>1 DEF Final, LastWon
  <2>6. \A i \in DOMAIN x.attempts :
           x.attempts[i].kind = "server" => Has(r, "server-execution-started")
    BY <2>1, <2>3 DEF Final, Closing
  <2>7. x.sent # "no" => x.attempts # <<>> /\ Last(x.attempts).kind = "server"
    BY <2>1 DEF Final, Closing
  <2>8. x.outcome \notin {"completed", "cancelled"} /\ x.attempts # <<>>
           => Last(x.attempts).code = x.outcome
    BY <2>1 DEF Final
  <2> QED
    BY <2>4, <2>5, <2>6, <2>7, <2>8 DEF x
<1> QED
  BY <1>1, Invariance, PTL

\* Whoever cancels an execution, and from wherever, it waits for nothing any more.
THEOREM CancelledRunsEnd ==
    ASSUME ConstantsSound
    PROVE  Spec => []CancelledRunWaitsForNobody
<1>1. IInv => CancelledRunWaitsForNobody
  <2> SUFFICES ASSUME IInv, NEW r \in Executions, InFlight(runs[r]), runs[r].caller \/ disposed
               PROVE  runs[r].answer # None
    BY DEF CancelledRunWaitsForNobody
  <2>1. Waiting(runs[r], disposed, mode)
    BY RunKnown DEF RunSound, InFlight
  <2> QED
    BY <2>1 DEF Waiting, Active, Told
<1> QED
  BY <1>1, Invariance, PTL

-----------------------------------------------------------------------------
(* The manifest cache and its inductive invariant.                         *)

UnderWay == {"sent", "answered"}
MayCommit(req) == req.state \in UnderWay /\ ~req.aborted

\* The fields are no newer than the server.
FieldsSound ==
    /\ lastManifest <= server /\ invalidations.at <= server
    /\ etag # 0 => etag = lastManifest
    /\ cache # 0 => cache >= invalidations.at

\* The request that may commit is the one the fetcher names, and the other way round.
OneCommits ==
    /\ \A q \in Callers : MayCommit(request[q]) => inflight = q
    /\ inflight # Nothing => MayCommit(request[inflight])

\* What a request was answered came from the server after it was sent, so after everything a
\* request that may commit must not undo.
ResponseSound(req, last, at, top) ==
    req.state = "answered" =>
        /\ req.response # Nothing
        /\ req.response.version <= top
        /\ req.response.etag \in {0, req.response.version}
        /\ req.response.status = 304 => req.conditional = req.response.version
        /\ ~req.aborted => req.response.version >= last /\ req.response.version >= at

\* A call waits for a request under way, aborted at most by invalidate(), and returns nothing
\* older than the invalidation it began after.
CallSound(call, requests, inv) ==
    /\ call.since <= inv.at
    /\ call.stage \in {"idle", "await"} => call.value = 0
    /\ call.value # 0 => call.value >= call.since
    /\ call.stage \in {"await"} \cup Resumable => call.request # Nothing
    /\ call.stage = "await" =>
         /\ requests[call.request].state \in UnderWay
         /\ requests[call.request].aborted => inv.count > 0

ResponsesSound == \A q \in Callers : ResponseSound(request[q], lastManifest, invalidations.at, server)
CallersSound == \A c \in Callers : CallSound(caller[c], request, invalidations)

FetcherIInv == FetcherTypeOK /\ FieldsSound /\ OneCommits /\ ResponsesSound /\ CallersSound

-----------------------------------------------------------------------------
(* What changes one request or one call.                                   *)

USE BoundsAssumption, NothingAssumption

LEMMA OneRequest ==
  ASSUME FetcherIInv, NEW q \in Callers, NEW new \in Requests, request' = [request EXCEPT ![q] = new],
         UNCHANGED <<server, lastManifest, invalidations>>, ResponseSound(new, lastManifest, invalidations.at, server)
  PROVE  request' \in [Callers -> Requests] /\ ResponsesSound'
BY DEF FetcherIInv, FetcherTypeOK, ResponsesSound

LEMMA OneCall ==
  ASSUME FetcherIInv, NEW c \in Callers, NEW new \in Calls, caller' = [caller EXCEPT ![c] = new],
         UNCHANGED <<request, invalidations>>, CallSound(new, request, invalidations)
  PROVE  caller' \in [Callers -> Calls] /\ CallersSound'
BY DEF FetcherIInv, FetcherTypeOK, CallersSound

\* Once q is done nobody awaits it, and those who did return nothing or what q may return.
LEMMA WakeSound ==
  ASSUME FetcherIInv, NEW q \in Callers, NEW stage \in Resumable, NEW version \in Versions,
         Wake(q, stage, version), version # 0 => version >= invalidations.at,
         request' = [request EXCEPT ![q].state = "done"], UNCHANGED invalidations
  PROVE  caller' \in [Callers -> Calls] /\ CallersSound'
<1>1. caller' \in [Callers -> Calls]
  <2>1. \A c \in Callers : caller[c] \in Calls
    BY DEF FetcherIInv, FetcherTypeOK
  <2>2. ASSUME NEW call \in Calls
        PROVE  [call EXCEPT !.stage = stage, !.value = version] \in Calls
    BY DEF Calls
  <2> QED
    BY <2>1, <2>2 DEF Wake
<1>2. ASSUME NEW c \in Callers
      PROVE  CallSound(caller'[c], request', invalidations)
  <2>1. caller[c] \in Calls /\ CallSound(caller[c], request, invalidations)
    BY DEF FetcherIInv, FetcherTypeOK, CallersSound
  <2>2. CASE caller[c].request = q /\ caller[c].stage = "await"
    <3>1. caller'[c] = [caller[c] EXCEPT !.stage = stage, !.value = version]
      BY <2>2 DEF Wake
    <3>2. /\ caller'[c].stage = stage /\ caller'[c].value = version
          /\ caller'[c].since = caller[c].since /\ caller'[c].request = caller[c].request
      BY <2>1, <3>1 DEF Calls
    <3>3. version # 0 => version >= caller[c].since
      BY <2>1 DEF CallSound, FetcherIInv, FetcherTypeOK, Versions, Calls
    <3> QED
      BY <2>1, <2>2, <3>2, <3>3 DEF CallSound, Resumable
  <2>3. CASE ~(caller[c].request = q /\ caller[c].stage = "await")
    <3>1. caller'[c] = caller[c]
      BY <2>3 DEF Wake
    <3>2. caller[c].stage = "await" =>
            caller[c].request \in Callers \ {q} /\ request'[caller[c].request] = request[caller[c].request]
      BY <2>1, <2>3 DEF CallSound, FetcherIInv, FetcherTypeOK, Calls
    <3> QED
      BY <2>1, <3>1, <3>2 DEF CallSound
  <2> QED
    BY <2>2, <2>3
<1> QED
  BY <1>1, <1>2 DEF CallersSound

-----------------------------------------------------------------------------
(* Each action keeps it.                                                   *)

LEMMA InitIInv == FetcherInit => FetcherIInv
<1> SUFFICES ASSUME FetcherInit PROVE FetcherIInv
  OBVIOUS
<1>1. FetcherTypeOK
  BY DEF FetcherInit, FetcherTypeOK, Versions, Responses, NoRequest, Resumable, Requests, Calls
<1>2. FieldsSound /\ OneCommits /\ ResponsesSound
  BY DEF FetcherInit, FieldsSound, OneCommits, ResponsesSound, ResponseSound, MayCommit, UnderWay, NoRequest
<1>3. CallersSound
  BY DEF FetcherInit, CallersSound, CallSound, Resumable
<1> QED
  BY <1>1, <1>2, <1>3 DEF FetcherIInv

LEMMA PublishIInv ==
  ASSUME FetcherIInv, Publish
  PROVE  FetcherIInv'
<1>1. FetcherTypeOK'
  BY DEF FetcherIInv, FetcherTypeOK, Publish, Versions
<1>2. FieldsSound'
  BY DEF FetcherIInv, FetcherTypeOK, FieldsSound, Publish, Versions
<1>3. ResponsesSound'
  BY DEF FetcherIInv, FetcherTypeOK, ResponsesSound, ResponseSound, Requests, Responses, Publish, Versions
<1>4. OneCommits' /\ CallersSound'
  BY DEF FetcherIInv, OneCommits, CallersSound, Publish
<1> QED
  BY <1>1, <1>2, <1>3, <1>4 DEF FetcherIInv

\* Whatever may commit is aborted, so the new mark binds no answer received before.
LEMMA InvalidateIInv ==
  ASSUME FetcherIInv, Invalidate
  PROVE  FetcherIInv'
<1>1. request' \in [Callers -> Requests]
  BY DEF FetcherIInv, FetcherTypeOK, Invalidate, Requests
<1>2. FetcherTypeOK'
  BY <1>1 DEF FetcherIInv, FetcherTypeOK, Invalidate, Versions
<1>3. FieldsSound'
  BY DEF FetcherIInv, FetcherTypeOK, FieldsSound, Invalidate, Versions
<1>4. ASSUME NEW q \in Callers
      PROVE  /\ request'[q].state = request[q].state
             /\ request'[q].response = request[q].response
             /\ request'[q].conditional = request[q].conditional
             /\ ~MayCommit(request'[q])
  <2>1. CASE inflight = q
    <3>1. request'[q] = [request[q] EXCEPT !.aborted = TRUE]
      BY <2>1 DEF FetcherIInv, FetcherTypeOK, Invalidate
    <3> QED
      BY <3>1 DEF FetcherIInv, FetcherTypeOK, MayCommit, Requests
  <2>2. CASE inflight # q
    BY <2>2 DEF FetcherIInv, FetcherTypeOK, OneCommits, Invalidate
  <2> QED
    BY <2>1, <2>2
<1>5. OneCommits' /\ ResponsesSound'
  BY <1>4 DEF FetcherIInv, OneCommits, ResponsesSound, ResponseSound, MayCommit, UnderWay, Invalidate
<1>6. CallersSound'
  <2>1. invalidations'.at = server /\ invalidations'.count = invalidations.count + 1
    BY DEF Invalidate
  <2>2. invalidations'.count > 0
    BY <2>1 DEF FetcherIInv, FetcherTypeOK
  <2>3. ASSUME NEW c \in Callers
        PROVE  CallSound(caller'[c], request', invalidations')
    <3>1. caller'[c] = caller[c] /\ caller[c] \in Calls /\ CallSound(caller[c], request, invalidations)
      BY DEF FetcherIInv, FetcherTypeOK, CallersSound, Invalidate
    <3>2. caller[c].since <= server
      BY <3>1 DEF FetcherIInv, FetcherTypeOK, FieldsSound, CallSound, Versions, Calls
    <3>3. caller[c].stage = "await" => caller[c].request \in Callers
      BY <3>1 DEF CallSound, Calls
    <3> QED
      BY <1>4, <2>1, <2>2, <3>1, <3>2, <3>3 DEF CallSound
  <2> QED
    BY <2>3 DEF CallersSound
<1> QED
  BY <1>2, <1>3, <1>5, <1>6 DEF FetcherIInv

LEMMA FetchIInv ==
  ASSUME FetcherIInv, NEW c \in Callers, Fetch(c)
  PROVE  FetcherIInv'
<1> DEFINE call == [caller[c] EXCEPT !.since = invalidations.at]
           waits(q) == [call EXCEPT !.stage = "await", !.request = q]
           served == [call EXCEPT !.stage = "done", !.value = cache]
           sent == [NoRequest EXCEPT !.state = "sent",
                                     !.conditional = IF lastManifest # 0 THEN etag ELSE 0]
<1>1. /\ caller[c] \in Calls /\ caller[c].stage = "idle" /\ caller[c].value = 0
      /\ invalidations.at \in Versions /\ invalidations.at <= invalidations.at
      /\ UNCHANGED <<server, cache, lastManifest, etag, invalidations>>
  BY DEF FetcherIInv, FetcherTypeOK, CallersSound, CallSound, Fetch, Versions
<1>2. FieldsSound'
  BY DEF FetcherIInv, FieldsSound, Fetch
<1>3. ASSUME NEW q \in Callers
      PROVE  /\ waits(q) \in Calls /\ waits(q).stage = "await" /\ waits(q).value = 0
             /\ waits(q).since = invalidations.at /\ waits(q).request = q
  BY <1>1 DEF Calls
<1>4. CASE cache # 0 /\ caller' = [caller EXCEPT ![c] = served] /\ UNCHANGED <<inflight, request>>
  <2>1. /\ served \in Calls /\ served.stage = "done" /\ served.value = cache
        /\ served.since = invalidations.at
    BY <1>1 DEF FetcherIInv, FetcherTypeOK, Calls
  <2> HIDE DEF served
  <2>2. CallSound(served, request, invalidations)
    BY <1>1, <1>4, <2>1 DEF FetcherIInv, FieldsSound, CallSound, Resumable
  <2>3. caller' \in [Callers -> Calls] /\ CallersSound'
    BY <1>1, <1>4, <2>1, <2>2, OneCall
  <2> QED
    BY <1>1, <1>2, <1>4, <2>3 DEF FetcherIInv, FetcherTypeOK, OneCommits, ResponsesSound
<1>5. CASE inflight # Nothing /\ caller' = [caller EXCEPT ![c] = waits(inflight)] /\ UNCHANGED <<inflight, request>>
  <2>1. inflight \in Callers /\ MayCommit(request[inflight])
    BY <1>5 DEF FetcherIInv, FetcherTypeOK, OneCommits
  <2>2. CallSound(waits(inflight), request, invalidations)
    <3> HIDE DEF waits
    <3> QED
      BY <1>1, <1>3, <2>1 DEF CallSound, MayCommit
  <2>3. caller' \in [Callers -> Calls] /\ CallersSound'
    <3> HIDE DEF waits
    <3> QED
      BY <1>1, <1>3, <1>5, <2>1, <2>2, OneCall
  <2>4. FetcherTypeOK'
    <3> HIDE DEF waits
    <3> QED
      BY <1>1, <1>5, <2>3 DEF FetcherIInv, FetcherTypeOK
  <2>5. OneCommits' /\ ResponsesSound'
    <3> HIDE DEF waits
    <3> QED
      BY <1>1, <1>5 DEF FetcherIInv, OneCommits, ResponsesSound
  <2> QED
    BY <1>2, <2>3, <2>4, <2>5 DEF FetcherIInv
<1>6. CASE /\ inflight = Nothing
           /\ caller' = [caller EXCEPT ![c] = waits(c)]
           /\ inflight' = c /\ request' = [request EXCEPT ![c] = sent]
  <2>1. sent \in Requests /\ sent.state = "sent" /\ sent.aborted = FALSE
    <3>1. NoRequest \in Requests
      BY DEF NoRequest, Requests, Responses, Versions
    <3>2. etag \in Versions /\ 0 \in Versions
      BY DEF FetcherIInv, FetcherTypeOK, Versions
    <3>3. ASSUME NEW k \in Versions
          PROVE  [NoRequest EXCEPT !.state = "sent", !.conditional = k] \in Requests
      BY <3>1 DEF Requests
    <3>4. sent \in Requests
      BY <3>2, <3>3
    <3> QED
      BY <3>4 DEF NoRequest
  <2> HIDE DEF sent, waits
  <2>2. request' \in [Callers -> Requests] /\ ResponsesSound'
    BY <1>1, <1>6, <2>1, OneRequest DEF ResponseSound
  <2>3. OneCommits'
    BY <1>6, <2>1 DEF FetcherIInv, FetcherTypeOK, OneCommits, MayCommit, UnderWay
  <2>4. ASSUME NEW d \in Callers
        PROVE  CallSound(caller'[d], request', invalidations)
    <3>1. CASE d = c
      BY <1>1, <1>3, <1>6, <2>1, <3>1 DEF FetcherIInv, FetcherTypeOK, CallSound, UnderWay
    <3>2. CASE d # c
      <4>1. caller'[d] = caller[d] /\ caller[d] \in Calls /\ CallSound(caller[d], request, invalidations)
        BY <1>6, <3>2 DEF FetcherIInv, FetcherTypeOK, CallersSound
      <4>2. caller[d].stage = "await" => caller[d].request \in Callers
        BY <4>1 DEF CallSound, Calls
      <4>3. request \in [Callers -> Requests]
        BY DEF FetcherIInv, FetcherTypeOK
      <4>4. request'[c] = sent /\ \A p \in Callers \ {c} : request'[p] = request[p]
        BY <1>6, <4>3
      <4> QED
        BY <2>1, <4>1, <4>2, <4>4 DEF CallSound, UnderWay
    <3> QED
      BY <3>1, <3>2
  <2>5. caller' \in [Callers -> Calls] /\ CallersSound'
    BY <1>1, <1>3, <1>6, <2>4 DEF FetcherIInv, FetcherTypeOK, CallersSound
  <2> QED
    BY <1>1, <1>2, <1>6, <2>2, <2>3, <2>5 DEF FetcherIInv, FetcherTypeOK
<1> QED
  BY <1>4, <1>5, <1>6 DEF Fetch

LEMMA RespondIInv ==
  ASSUME FetcherIInv, NEW q \in Callers, Respond(q)
  PROVE  FetcherIInv'
<1> PICK r \in Responses \ {Nothing} :
      /\ r.version = server
      /\ r.status = 304 => request[q].conditional = server /\ r.etag = server
      /\ r.etag \in {0, server}
      /\ request' = [request EXCEPT ![q].state = "answered", ![q].response = r]
  BY DEF Respond
<1> DEFINE new == [request[q] EXCEPT !.state = "answered", !.response = r]
<1>1. /\ new \in Requests /\ new.state = "answered" /\ new.response = r
      /\ new.aborted = request[q].aborted /\ new.conditional = request[q].conditional
      /\ request' = [request EXCEPT ![q] = new]
  <2>1. request \in [Callers -> Requests] /\ request[q] \in Requests
    BY DEF FetcherIInv, FetcherTypeOK
  <2>2. /\ new \in Requests /\ new.state = "answered" /\ new.response = r
        /\ new.aborted = request[q].aborted /\ new.conditional = request[q].conditional
    BY <2>1 DEF Requests
  <2> QED
    BY <2>1, <2>2
<1> HIDE DEF new
<1>2. request[q].state = "sent" /\ UNCHANGED <<server, cache, lastManifest, etag, inflight, caller, invalidations>>
  BY DEF Respond
<1>3. ResponseSound(new, lastManifest, invalidations.at, server)
  BY <1>1 DEF FetcherIInv, FetcherTypeOK, FieldsSound, ResponseSound, Versions
<1>4. request' \in [Callers -> Requests] /\ ResponsesSound'
  BY <1>1, <1>2, <1>3, OneRequest
<1>5. FetcherTypeOK' /\ FieldsSound'
  BY <1>2, <1>4 DEF FetcherIInv, FetcherTypeOK, FieldsSound
<1>6. OneCommits'
  BY <1>1, <1>2 DEF FetcherIInv, FetcherTypeOK, OneCommits, MayCommit, UnderWay
<1>7. CallersSound'
  <2>1. request \in [Callers -> Requests]
    BY DEF FetcherIInv, FetcherTypeOK
  <2>2. ASSUME NEW p \in Callers
        PROVE  /\ request[p].state \in UnderWay => request'[p].state \in UnderWay
               /\ request'[p].aborted = request[p].aborted
    BY <1>1, <2>1 DEF UnderWay
  <2> QED
    BY <1>2, <2>2 DEF FetcherIInv, FetcherTypeOK, CallersSound, CallSound, Calls
<1> QED
  BY <1>4, <1>5, <1>6, <1>7 DEF FetcherIInv

LEMMA AbortIInv ==
  ASSUME FetcherIInv, NEW c \in Callers, AbortFetch(c)
  PROVE  FetcherIInv'
<1> DEFINE new == [caller[c] EXCEPT !.stage = "cancelled"]
<1>1. new \in Calls /\ CallSound(new, request, invalidations)
  BY DEF FetcherIInv, FetcherTypeOK, CallersSound, CallSound, AbortFetch, Calls, Resumable
<1>2. caller' \in [Callers -> Calls] /\ CallersSound'
  BY <1>1, OneCall DEF AbortFetch
<1> QED
  BY <1>2 DEF FetcherIInv, FetcherTypeOK, FieldsSound, OneCommits, ResponsesSound, AbortFetch

\* A request is aborted only when nobody else waits for it, and forgotten in the same step.
LEMMA ResumeIInv ==
  ASSUME FetcherIInv, NEW c \in Callers, Resume(c)
  PROVE  FetcherIInv'
<1> DEFINE q == caller[c].request
           new == [caller[c] EXCEPT !.stage = "done"]
<1>1. q \in Callers
  BY DEF FetcherIInv, FetcherTypeOK, CallersSound, CallSound, Resume, Calls
<1>2. /\ new \in Calls /\ new.stage = "done" /\ CallSound(new, request', invalidations)
      /\ caller' = [caller EXCEPT ![c] = new]
  BY DEF FetcherIInv, FetcherTypeOK, CallersSound, CallSound, Resume, Calls, Resumable
<1> HIDE DEF new
<1>3. UNCHANGED <<server, cache, lastManifest, etag, invalidations>>
  BY DEF Resume
<1>4. caller' \in [Callers -> Calls]
  BY <1>2 DEF FetcherIInv, FetcherTypeOK
<1>5. CASE Waiters(q) = {c}
  <2> DEFINE aborted == [request[q] EXCEPT !.aborted = TRUE]
  <2>1. /\ request' = [request EXCEPT ![q] = aborted]
        /\ inflight' = IF inflight = q THEN Nothing ELSE inflight
    BY <1>5 DEF Resume
  <2>2. /\ aborted \in Requests /\ aborted.aborted
        /\ aborted.state = request[q].state /\ aborted.response = request[q].response
        /\ aborted.conditional = request[q].conditional
    <3>1. request[q] \in Requests
      BY <1>1 DEF FetcherIInv, FetcherTypeOK
    <3> QED
      BY <3>1 DEF Requests
  <2> HIDE DEF aborted
  <2>2a. ResponseSound(aborted, lastManifest, invalidations.at, server)
    <3>1. ResponseSound(request[q], lastManifest, invalidations.at, server)
      BY <1>1 DEF FetcherIInv, ResponsesSound
    <3> QED
      BY <2>2, <3>1 DEF ResponseSound
  <2>3. request' \in [Callers -> Requests] /\ ResponsesSound'
    BY <1>1, <1>3, <2>1, <2>2, <2>2a, OneRequest
  <2>4. OneCommits'
    BY <1>1, <2>1, <2>2 DEF FetcherIInv, FetcherTypeOK, OneCommits, MayCommit
  <2>5. ASSUME NEW d \in Callers
        PROVE  CallSound(caller'[d], request', invalidations)
    <3>1. CASE d = c
      BY <1>2, <3>1 DEF FetcherIInv, FetcherTypeOK
    <3>2. CASE d # c
      <4>1. caller'[d] = caller[d] /\ caller[d] \in Calls /\ CallSound(caller[d], request, invalidations)
        BY <1>2, <3>2 DEF FetcherIInv, FetcherTypeOK, CallersSound
      <4>2. caller[d].stage = "await" => caller[d].request \in Callers \ {q}
        BY <1>5, <3>2, <4>1 DEF Waiters, CallSound, Calls
      <4>3. ASSUME NEW p \in Callers \ {q} PROVE request'[p] = request[p]
        BY <1>1, <2>1 DEF FetcherIInv, FetcherTypeOK
      <4> QED
        BY <4>1, <4>2, <4>3 DEF CallSound
    <3> QED
      BY <3>1, <3>2
  <2> QED
    BY <1>3, <1>4, <2>1, <2>3, <2>4, <2>5 DEF FetcherIInv, FetcherTypeOK, FieldsSound, CallersSound
<1>6. CASE Waiters(q) # {c}
  <2>1. UNCHANGED <<inflight, request>>
    BY <1>6 DEF Resume
  <2>2. CallersSound'
    BY <1>2, <1>3, <2>1, OneCall
  <2> QED
    BY <1>3, <1>4, <2>1, <2>2 DEF FetcherIInv, FetcherTypeOK, FieldsSound, OneCommits, ResponsesSound
<1> QED
  BY <1>5, <1>6

\* A request that ends, with or without a result, is no longer the one that commits.
LEMMA EndedCommitsNot ==
  ASSUME FetcherIInv, NEW q \in Callers, request' = [request EXCEPT ![q].state = "done"],
         inflight' = IF inflight = q THEN Nothing ELSE inflight
  PROVE  /\ request' \in [Callers -> Requests]
         /\ inflight' \in Callers \cup {Nothing}
         /\ OneCommits'
         /\ ~MayCommit(request'[q])
         /\ request'[q].state = "done"
         /\ \A p \in Callers \ {q} : request'[p] = request[p]
BY DEF FetcherIInv, FetcherTypeOK, OneCommits, MayCommit, UnderWay, Requests

LEMMA FailsIInv ==
  ASSUME FetcherIInv, NEW q \in Callers, RequestFails(q)
  PROVE  FetcherIInv'
<1>1. /\ UNCHANGED <<server, cache, lastManifest, etag, invalidations>>
      /\ request' = [request EXCEPT ![q].state = "done"]
      /\ inflight' = IF inflight = q THEN Nothing ELSE inflight
  BY DEF RequestFails
<1>2. caller' \in [Callers -> Calls] /\ CallersSound'
  <2> DEFINE stage == IF request[q].aborted THEN "cancelled" ELSE "failed"
  <2>1. stage \in Resumable /\ 0 \in Versions /\ Wake(q, stage, 0)
    BY DEF RequestFails, Resumable, Versions
  <2> HIDE DEF stage
  <2> QED
    BY <1>1, <2>1, WakeSound
<1>3. ResponsesSound'
  BY <1>1, EndedCommitsNot DEF FetcherIInv, ResponsesSound, ResponseSound
<1> QED
  BY <1>1, <1>2, <1>3, EndedCommitsNot DEF FetcherIInv, FetcherTypeOK, FieldsSound

\* The request that commits is the only one that may, so no answer still to be committed is
\* measured by the fields it changes.
LEMMA ReceiveIInv ==
  ASSUME FetcherIInv, NEW q \in Callers, Receive(q)
  PROVE  FetcherIInv' /\ lastManifest' >= lastManifest
<1> DEFINE r == request[q].response
<1>1. /\ UNCHANGED <<server, invalidations>>
      /\ request' = [request EXCEPT ![q].state = "done"]
      /\ inflight' = IF inflight = q THEN Nothing ELSE inflight
      /\ request[q] \in Requests /\ request[q].state = "answered"
      /\ ResponseSound(request[q], lastManifest, invalidations.at, server)
  BY DEF FetcherIInv, FetcherTypeOK, ResponsesSound, Receive
<1>2. /\ r.status \in {200, 304} /\ r.version \in Versions /\ r.etag \in Versions
      /\ r.etag \in {0, r.version}
      /\ request[q].conditional \in Versions
      /\ server \in Nat /\ lastManifest \in Nat /\ invalidations.at \in Nat
  BY <1>1 DEF ResponseSound, Requests, Responses, FetcherIInv, FetcherTypeOK, Versions
<1>3. /\ request' \in [Callers -> Requests] /\ inflight' \in Callers \cup {Nothing} /\ OneCommits'
      /\ request'[q].state = "done" /\ \A p \in Callers \ {q} : request'[p] = request[p]
      /\ server \in Versions /\ invalidations \in [count : 0..MaxInvalidations, at : Versions]
      /\ etag \in Versions /\ lastManifest \in Versions /\ cache \in Versions
  BY <1>1, EndedCommitsNot DEF FetcherIInv, FetcherTypeOK
<1>4. {"got", "cancelled"} \subseteq Resumable /\ 0 \in Versions
  BY DEF Resumable, Versions
<1>5. ~request[q].aborted =>
        /\ r.version >= lastManifest /\ r.version >= invalidations.at /\ r.version <= server
        /\ \A p \in Callers \ {q} : ~MayCommit(request[p])
        /\ r.status = 304 => request[q].conditional = r.version
  BY <1>1 DEF ResponseSound, FetcherIInv, OneCommits, MayCommit, UnderWay
<1> HIDE DEF r
<1>6. CASE request[q].aborted /\ Wake(q, "cancelled", 0) /\ UNCHANGED <<cache, lastManifest, etag>>
  <2>1. caller' \in [Callers -> Calls] /\ CallersSound'
    BY <1>1, <1>4, <1>6, WakeSound
  <2>2. ResponsesSound'
    BY <1>1, <1>3, <1>6 DEF FetcherIInv, ResponsesSound, ResponseSound
  <2>3. FetcherTypeOK' /\ FieldsSound'
    BY <1>1, <1>3, <1>6, <2>1 DEF FetcherIInv, FetcherTypeOK, FieldsSound
  <2> QED
    BY <1>2, <1>3, <1>6, <2>1, <2>2, <2>3 DEF FetcherIInv
<1>7. CASE /\ ~request[q].aborted /\ r.status = 304
           /\ cache' = request[q].conditional /\ Wake(q, "got", request[q].conditional)
           /\ UNCHANGED <<lastManifest, etag>>
  <2>1. request[q].conditional >= invalidations.at
    BY <1>5, <1>7
  <2>2. caller' \in [Callers -> Calls] /\ CallersSound'
    <3> DEFINE version == request[q].conditional
    <3>1. version \in Versions /\ version >= invalidations.at /\ Wake(q, "got", version)
      BY <1>2, <1>7, <2>1
    <3> HIDE DEF version
    <3> QED
      BY <1>1, <1>4, <3>1, WakeSound
  <2>3. ResponsesSound'
    BY <1>1, <1>3, <1>7 DEF FetcherIInv, ResponsesSound, ResponseSound
  <2>4. FetcherTypeOK' /\ FieldsSound'
    BY <1>1, <1>2, <1>3, <1>7, <2>1, <2>2 DEF FetcherIInv, FetcherTypeOK, FieldsSound
  <2> QED
    BY <1>2, <1>3, <1>7, <2>2, <2>3, <2>4 DEF FetcherIInv
<1>8. CASE /\ ~request[q].aborted /\ r.status = 200
           /\ cache' = r.version /\ lastManifest' = r.version /\ etag' = r.etag
           /\ Wake(q, "got", r.version)
  <2>1. caller' \in [Callers -> Calls] /\ CallersSound'
    BY <1>1, <1>2, <1>4, <1>5, <1>8, WakeSound
  <2>2. ResponsesSound'
    <3>1. ASSUME NEW p \in Callers
          PROVE  ResponseSound(request'[p], lastManifest', invalidations.at, server)
      <4>1. CASE p = q
        BY <1>3, <4>1 DEF ResponseSound
      <4>2. CASE p # q
        <5>1. request'[p] = request[p] /\ ~MayCommit(request[p])
          BY <1>3, <1>5, <1>8, <4>2
        <5> QED
          BY <5>1 DEF FetcherIInv, ResponsesSound, ResponseSound, MayCommit, UnderWay
      <4> QED
        BY <4>1, <4>2
    <3> QED
      BY <1>1, <3>1 DEF ResponsesSound
  <2>3. FetcherTypeOK' /\ FieldsSound'
    BY <1>1, <1>2, <1>3, <1>5, <1>8, <2>1 DEF FetcherIInv, FetcherTypeOK, FieldsSound
  <2> QED
    BY <1>3, <1>5, <1>8, <2>1, <2>2, <2>3 DEF FetcherIInv
<1> QED
  BY <1>6, <1>7, <1>8 DEF Receive, r

-----------------------------------------------------------------------------
(* The properties.                                                         *)

THEOREM FetcherInvariance == FetcherSpec => []FetcherIInv
<1>1. FetcherIInv /\ [FetcherNext]_fetcherVars => FetcherIInv'
  <2> SUFFICES ASSUME FetcherIInv, [FetcherNext]_fetcherVars PROVE FetcherIInv'
    OBVIOUS
  <2>1. CASE Publish
    BY <2>1, PublishIInv
  <2>2. CASE Invalidate
    BY <2>2, InvalidateIInv
  <2>3. ASSUME NEW c \in Callers, Fetch(c) \/ AbortFetch(c) \/ Resume(c)
        PROVE  FetcherIInv'
    BY <2>3, FetchIInv, AbortIInv, ResumeIInv
  <2>4. ASSUME NEW q \in Callers, Respond(q) \/ Receive(q) \/ RequestFails(q)
        PROVE  FetcherIInv'
    BY <2>4, RespondIInv, ReceiveIInv, FailsIInv
  <2>5. CASE UNCHANGED fetcherVars
    BY <2>5 DEF fetcherVars, FetcherIInv, FetcherTypeOK, FieldsSound, OneCommits, ResponsesSound, CallersSound
  <2> QED
    BY <2>1, <2>2, <2>3, <2>4, <2>5 DEF FetcherNext
<1> QED
  BY <1>1, InitIInv, PTL DEF FetcherSpec

\* Whatever publications, lost ETags, aborts and invalidations happen, a 304 names the manifest
\* the fetcher keeps.
THEOREM EtagsMatch == FetcherSpec => []EtagMatchesManifest
<1>1. FetcherIInv => EtagMatchesManifest
  BY DEF FetcherIInv, FieldsSound, EtagMatchesManifest
<1> QED
  BY <1>1, FetcherInvariance, PTL

\* invalidate() is obeyed by every call that begins after it, and by the cache.
THEOREM InvalidationsAreObeyed == FetcherSpec => []InvalidateRefreshes
<1>1. FetcherIInv => InvalidateRefreshes
  BY DEF FetcherIInv, FieldsSound, CallersSound, CallSound, InvalidateRefreshes
<1> QED
  BY <1>1, FetcherInvariance, PTL

\* One request at most may commit, it is the one calls join, and only invalidate() aborts a
\* request somebody still awaits.
THEOREM RequestsAreShared == FetcherSpec => []RequestIsShared
<1>1. FetcherIInv => RequestIsShared
  BY DEF FetcherIInv, OneCommits, MayCommit, UnderWay, CallersSound, CallSound, RequestIsShared
<1> QED
  BY <1>1, FetcherInvariance, PTL

\* The manifest that is revalidated never becomes older.
THEOREM ManifestsOnlyAdvance == FetcherSpec => NeverRegresses
<1>1. FetcherIInv /\ [FetcherNext]_fetcherVars => [lastManifest' >= lastManifest]_fetcherVars
  <2> SUFFICES ASSUME FetcherIInv, FetcherNext PROVE lastManifest' >= lastManifest
    OBVIOUS
  <2>1. lastManifest >= lastManifest
    BY DEF FetcherIInv, FetcherTypeOK, Versions
  <2>2. ASSUME NEW q \in Callers, Receive(q) PROVE lastManifest' >= lastManifest
    BY <2>2, ReceiveIInv
  <2>3. CASE lastManifest' = lastManifest
    BY <2>1, <2>3
  <2> QED
    BY <2>2, <2>3 DEF FetcherNext, Publish, Invalidate, Fetch, AbortFetch, Resume, Respond, RequestFails
<1> QED
  BY <1>1, FetcherInvariance, PTL DEF FetcherSpec, NeverRegresses

-----------------------------------------------------------------------------
(* Induction, from the size of an initial stretch.                         *)

\* A set that has 0 and the successor of each of its numbers has them all.
LEMMA Induction ==
  ASSUME NEW I, 0 \in I, \A n \in Nat : n \in I => n + 1 \in I
  PROVE  \A n \in Nat : n \in I
<1> SUFFICES ASSUME NEW m \in Nat, m \notin I PROVE FALSE
  OBVIOUS
<1> DEFINE U == {k \in 0..m : \A i \in 0..k : i \in I}
           c == Cardinality(U)
<1>1. IsFiniteSet(U) /\ c \in Nat
  <2>1. IsFiniteSet(0..m) /\ U \subseteq 0..m
    BY FS_Interval
  <2> QED
    BY <2>1, FS_Subset, FS_CardinalityType
<1>2. 0 \in U /\ m \notin U
  OBVIOUS
<1>3. ASSUME NEW k \in U PROVE k \in Nat /\ k + 1 <= c
  <2>1. 0..k \subseteq U /\ k \in Nat
    OBVIOUS
  <2>2. Cardinality(0..k) = k + 1
    BY <2>1, FS_Interval
  <2>3. Cardinality(0..k) <= c
    BY <1>1, <2>1, FS_Subset
  <2> HIDE DEF U, c
  <2> QED
    BY <2>1, <2>2, <2>3
<1>4. U = 0..(c - 1) /\ c - 1 \in Nat
  <2>1. U \subseteq 0..(c - 1) /\ c - 1 \in Nat
    <3> HIDE DEF U, c
    <3> QED
      BY <1>1, <1>2, <1>3
  <2>2. IsFiniteSet(0..(c - 1)) /\ Cardinality(0..(c - 1)) = c
    <3> HIDE DEF c
    <3> QED
      BY <1>1, <2>1, FS_Interval
  <2> HIDE DEF U
  <2> QED
    BY <1>1, <2>1, <2>2, FS_Subset
<1>5. c - 1 \in U /\ c \notin U
  <2> HIDE DEF U, c
  <2> QED
    BY <1>1, <1>4
<1>6. c \in 0..m /\ \A i \in 0..(c - 1) : i \in I
  BY <1>1, <1>2, <1>4, <1>5
<1>7. \A i \in 0..c : i \in I
  <2> HIDE DEF c
  <2> QED
    BY <1>1, <1>4, <1>6
<1> QED
  BY <1>5, <1>6, <1>7

-----------------------------------------------------------------------------
(* Sums over sets of hashes.                                               *)

Pick(s) == CHOOSE x \in s : TRUE

Sums(S, f) == f = [s \in SUBSET S |-> IF s = {} THEN 0 ELSE ByteLength[Pick(s)] + f[s \ {Pick(s)}]]

LEMMA SumChosen ==
  ASSUME NEW S, \E f : Sums(S, f)
  PROVE  \E f : Sums(S, f) /\ BytesOf(S) = f[S]
<1> DEFINE f == CHOOSE f : Sums(S, f)
<1>1. Sums(S, f)
  OBVIOUS
<1>2. BytesOf(S) = f[S]
  BY DEF BytesOf, FoldFunctionOnSet, MapThenFoldSet, Sums, Pick
<1> QED
  BY <1>1, <1>2


LEMMA Subsets ==
  ASSUME NEW S, IsFiniteSet(S), NEW s \in SUBSET S
  PROVE  /\ IsFiniteSet(s) /\ Cardinality(s) \in Nat /\ Cardinality(s) <= Cardinality(S)
         /\ Cardinality(s) = 0 <=> s = {}
BY FS_Subset, FS_CardinalityType, FS_EmptySet

LEMMA Picked ==
  ASSUME NEW S, IsFiniteSet(S), NEW s \in SUBSET S, s # {}
  PROVE  /\ Pick(s) \in s /\ s \ {Pick(s)} \in SUBSET S
         /\ Cardinality(s \ {Pick(s)}) = Cardinality(s) - 1
         /\ Cardinality(s) \in Nat \ {0} /\ Cardinality(s \ {Pick(s)}) \in Nat
<1>1. Pick(s) \in s
  BY DEF Pick
<1>2. IsFiniteSet(s) /\ Cardinality(s) \in Nat \ {0}
  BY Subsets
<1>3. Cardinality(s \ {Pick(s)}) = Cardinality(s) - 1
  BY <1>1, <1>2, FS_RemoveElement
<1> QED
  BY <1>1, <1>2, <1>3

\* The sum exists.
LEMMA SumExists ==
  ASSUME NEW S \in SUBSET Hashes, IsFiniteSet(S)
  PROVE  \E f \in [SUBSET S -> Int] : Sums(S, f)
<1> DEFINE Plus(f, s) == IF s = {} THEN 0 ELSE ByteLength[Pick(s)] + f[s \ {Pick(s)}]
           Upto(f, n) == \A s \in SUBSET S : Cardinality(s) <= n => f[s] = Plus(f, s)
           I == {n \in Nat : \E f \in [SUBSET S -> Int] : Upto(f, n)}
<1>1. 0 \in I
  <2> DEFINE f == [s \in SUBSET S |-> 0]
  <2>1. f \in [SUBSET S -> Int]
    OBVIOUS
  <2>2. Upto(f, 0)
    <3> SUFFICES ASSUME NEW s \in SUBSET S, Cardinality(s) <= 0 PROVE f[s] = Plus(f, s)
      OBVIOUS
    <3>1. s = {}
      BY Subsets
    <3> QED
      BY <3>1
  <2> QED
    BY <2>1, <2>2
<1>2. ASSUME NEW n \in Nat, n \in I PROVE n + 1 \in I
  <2>1. PICK f \in [SUBSET S -> Int] : Upto(f, n)
    BY <1>2
  <2> DEFINE g == [s \in SUBSET S |-> IF Cardinality(s) = n + 1 THEN Plus(f, s) ELSE f[s]]
  <2>2. ASSUME NEW s \in SUBSET S PROVE Plus(f, s) \in Int
    <3>1. CASE s = {}
      BY <3>1
    <3>2. CASE s # {}
      <4>1. Pick(s) \in Hashes /\ s \ {Pick(s)} \in SUBSET S
        BY <3>2, Picked
      <4> QED
        BY <3>2, <4>1, BudgetAssumption
    <3> QED
      BY <3>1, <3>2
  <2>3. g \in [SUBSET S -> Int]
    <3> HIDE DEF Plus
    <3> QED
      BY <2>2
  <2>4. ASSUME NEW s \in SUBSET S, Cardinality(s) <= n + 1 PROVE g[s] = Plus(f, s)
    <3>1. Cardinality(s) \in Nat
      BY Subsets
    <3>2. Cardinality(s) <= n => f[s] = Plus(f, s)
      BY <2>1
    <3> HIDE DEF Plus
    <3> QED
      BY <2>4, <3>1, <3>2
  <2>5. ASSUME NEW s \in SUBSET S, Cardinality(s) <= n + 1 PROVE Plus(g, s) = Plus(f, s)
    <3>1. CASE s = {}
      BY <3>1
    <3>2. CASE s # {}
      <4>1. /\ s \ {Pick(s)} \in SUBSET S /\ Cardinality(s \ {Pick(s)}) # n + 1
        BY <2>5, <3>2, Picked
      <4>2. g[s \ {Pick(s)}] = f[s \ {Pick(s)}]
        <5> HIDE DEF Plus
        <5> QED
          BY <4>1
      <4> HIDE DEF g
      <4> QED
        BY <3>2, <4>2
    <3> QED
      BY <3>1, <3>2
  <2>6. Upto(g, n + 1)
    <3> HIDE DEF g, Plus
    <3> QED
      BY <2>4, <2>5
  <2> HIDE DEF g, Upto
  <2> QED
    BY <2>3, <2>6
<1>3. Cardinality(S) \in I
  <2>1. Cardinality(S) \in Nat
    BY FS_CardinalityType
  <2> HIDE DEF I
  <2> QED
    BY <1>1, <1>2, <2>1, Induction
<1>4. PICK f \in [SUBSET S -> Int] : Upto(f, Cardinality(S))
  BY <1>3
<1>5. \A s \in SUBSET S : f[s] = Plus(f, s)
  BY <1>4, Subsets
<1>6. Sums(S, f)
  BY <1>4, <1>5 DEF Sums
<1> QED
  BY <1>6


\* It does not depend on the set it is taken in,
LEMMA SumUnique ==
  ASSUME NEW S, IsFiniteSet(S), NEW T \in SUBSET S, NEW f, Sums(S, f), NEW g, Sums(T, g)
  PROVE  \A s \in SUBSET T : f[s] = g[s]
<1> DEFINE I == {n \in Nat : \A s \in SUBSET T : Cardinality(s) <= n => f[s] = g[s]}
<1>1. /\ \A s \in SUBSET T : f[s] = IF s = {} THEN 0 ELSE ByteLength[Pick(s)] + f[s \ {Pick(s)}]
      /\ \A s \in SUBSET T : g[s] = IF s = {} THEN 0 ELSE ByteLength[Pick(s)] + g[s \ {Pick(s)}]
  BY DEF Sums
<1>2. IsFiniteSet(T)
  BY FS_Subset
<1>3. 0 \in I
  <2> SUFFICES ASSUME NEW s \in SUBSET T, Cardinality(s) <= 0 PROVE f[s] = g[s]
    OBVIOUS
  <2>1. s = {}
    BY <1>2, Subsets
  <2> QED
    BY <1>1, <2>1
<1>4. ASSUME NEW n \in Nat, n \in I PROVE n + 1 \in I
  <2> SUFFICES ASSUME NEW s \in SUBSET T, Cardinality(s) <= n + 1 PROVE f[s] = g[s]
    OBVIOUS
  <2>1. CASE s = {}
    BY <1>1, <2>1
  <2>2. CASE s # {}
    <3>1. s \ {Pick(s)} \in SUBSET T /\ Cardinality(s \ {Pick(s)}) <= n
      BY <1>2, <2>2, Picked
    <3>2. f[s \ {Pick(s)}] = g[s \ {Pick(s)}]
      BY <1>4, <3>1
    <3> QED
      BY <1>1, <2>2, <3>2
  <2> QED
    BY <2>1, <2>2
<1>5. Cardinality(T) \in I
  <2>1. Cardinality(T) \in Nat
    BY <1>2, FS_CardinalityType
  <2> HIDE DEF I
  <2> QED
    BY <1>3, <1>4, <2>1, Induction
<1> QED
  BY <1>2, <1>5, Subsets

\* nor on the order in which the hashes are picked,
LEMMA SumWithout ==
  ASSUME NEW S \in SUBSET Hashes, IsFiniteSet(S), NEW f \in [SUBSET S -> Int], Sums(S, f)
  PROVE  \A s \in SUBSET S : \A x \in s : f[s] = ByteLength[x] + f[s \ {x}]
<1> DEFINE I == {n \in Nat : \A s \in SUBSET S : \A x \in s :
                    Cardinality(s) <= n => f[s] = ByteLength[x] + f[s \ {x}]}
<1>1. \A s \in SUBSET S : s # {} => f[s] = ByteLength[Pick(s)] + f[s \ {Pick(s)}]
  BY DEF Sums
<1>2. \A x \in S : ByteLength[x] \in Nat
  BY BudgetAssumption
<1>3. 0 \in I
  BY Subsets
<1>4. ASSUME NEW n \in Nat, n \in I PROVE n + 1 \in I
  <2> SUFFICES ASSUME NEW s \in SUBSET S, NEW x \in s, Cardinality(s) <= n + 1
               PROVE  f[s] = ByteLength[x] + f[s \ {x}]
    OBVIOUS
  <2> DEFINE p == Pick(s)
             a == s \ {p}
             b == s \ {x}
             both == s \ {p, x}
  <2>1. p \in s /\ a \in SUBSET S /\ Cardinality(a) <= n
    BY Picked
  <2>2. CASE p = x
    BY <1>1, <2>2
  <2>3. CASE p # x
    <3>1. x \in a /\ p \in b /\ a \ {x} = both /\ b \ {p} = both /\ b \in SUBSET S /\ both \in SUBSET S
      BY <2>1, <2>3
    <3>2. Cardinality(b) <= n
      <4>1. IsFiniteSet(s) /\ Cardinality(s) \in Nat
        BY Subsets
      <4>2. Cardinality(b) = Cardinality(s) - 1
        BY <4>1, FS_RemoveElement
      <4> HIDE DEF b
      <4> QED
        BY <4>1, <4>2
    <3> HIDE DEF p, a, b, both
    <3>3. f[a] = ByteLength[x] + f[both]
      BY <1>4, <2>1, <3>1
    <3>4. f[b] = ByteLength[p] + f[both]
      BY <1>4, <3>1, <3>2
    <3>5. f[s] = ByteLength[p] + f[a]
      BY <1>1 DEF p, a
    <3>6. ByteLength[x] \in Nat /\ ByteLength[p] \in Nat /\ f[both] \in Int
      BY <1>2, <2>1, <3>1
    <3>7. f[s] = ByteLength[x] + f[b]
      BY <3>3, <3>4, <3>5, <3>6
    <3> QED
      BY <3>7 DEF b
  <2> QED
    BY <2>2, <2>3
<1>5. Cardinality(S) \in I
  <2>1. Cardinality(S) \in Nat
    BY FS_CardinalityType
  <2> HIDE DEF I
  <2> QED
    BY <1>3, <1>4, <2>1, Induction
<1> QED
  BY <1>5, Subsets

\* so bytes are counted one by one.
LEMMA BytesOfWithout ==
  ASSUME NEW S \in SUBSET Hashes, IsFiniteSet(S)
  PROVE  /\ BytesOf(S) \in Int
         /\ \A x \in S : BytesOf(S) = ByteLength[x] + BytesOf(S \ {x})
         /\ S = {} => BytesOf(S) = 0
<1>1. PICK f \in [SUBSET S -> Int] : Sums(S, f)
  BY SumExists
<1>2. ASSUME NEW T \in SUBSET S PROVE BytesOf(T) = f[T]
  <2>1. IsFiniteSet(T) /\ T \in SUBSET Hashes
    BY FS_Subset
  <2>2. \E g : Sums(T, g)
    BY <2>1, SumExists
  <2>3. PICK g : Sums(T, g) /\ BytesOf(T) = g[T]
    BY <2>2, SumChosen
  <2> QED
    BY <1>1, <2>3, SumUnique
<1>3. BytesOf(S) = f[S] /\ f[S] \in Int /\ \A x \in S : BytesOf(S \ {x}) = f[S \ {x}]
  BY <1>1, <1>2
<1>4. \A x \in S : f[S] = ByteLength[x] + f[S \ {x}]
  <2>1. S \in SUBSET S
    OBVIOUS
  <2>2. \A s \in SUBSET S : \A x \in s : f[s] = ByteLength[x] + f[s \ {x}]
    BY <1>1, SumWithout
  <2> QED
    BY <2>1, <2>2
<1>5. S = {} => f[S] = 0
  BY <1>1 DEF Sums
<1> QED
  BY <1>3, <1>4, <1>5

LEMMA BytesOfUnion ==
  ASSUME NEW A \in SUBSET Hashes, IsFiniteSet(A), NEW C \in SUBSET Hashes, IsFiniteSet(C),
         A \cap C = {}
  PROVE  BytesOf(A \cup C) = BytesOf(A) + BytesOf(C)
<1> DEFINE I == {n \in Nat : \A c \in SUBSET C :
                    Cardinality(c) <= n => BytesOf(A \cup c) = BytesOf(A) + BytesOf(c)}
<1>1. ASSUME NEW c \in SUBSET C
      PROVE  /\ IsFiniteSet(c) /\ IsFiniteSet(A \cup c) /\ c \in SUBSET Hashes
             /\ A \cup c \in SUBSET Hashes
  BY FS_Subset, FS_Union
<1>2. BytesOf(A) \in Int
  BY BytesOfWithout
<1>3. 0 \in I
  <2> SUFFICES ASSUME NEW c \in SUBSET C, Cardinality(c) <= 0
               PROVE  BytesOf(A \cup c) = BytesOf(A) + BytesOf(c)
    OBVIOUS
  <2>1. c = {} /\ A \cup c = A
    BY Subsets
  <2>2. BytesOf(c) = 0
    BY <1>1, <2>1, BytesOfWithout
  <2> QED
    BY <1>2, <2>1, <2>2
<1>4. ASSUME NEW n \in Nat, n \in I PROVE n + 1 \in I
  <2> SUFFICES ASSUME NEW c \in SUBSET C, Cardinality(c) <= n + 1
               PROVE  BytesOf(A \cup c) = BytesOf(A) + BytesOf(c)
    OBVIOUS
  <2>1. CASE c = {}
    <3>1. A \cup c = A /\ BytesOf(c) = 0
      BY <1>1, <2>1, BytesOfWithout
    <3>2. BytesOf(A \cup c) = BytesOf(A)
      BY <3>1, Zenon
    <3>3. BytesOf(A) = BytesOf(A) + 0
      BY <1>2
    <3> QED
      BY <3>1, <3>2, <3>3, Zenon
  <2>2. CASE c # {}
    <3> DEFINE p == Pick(c)
               d == c \ {p}
    <3>1. p \in c /\ d \in SUBSET C /\ Cardinality(d) <= n
      BY <2>2, Picked
    <3>2. (A \cup c) \ {p} = A \cup d /\ p \in A \cup c /\ p \in Hashes
      BY <3>1
    <3> HIDE DEF p
    <3>3. BytesOf(A \cup c) = ByteLength[p] + BytesOf((A \cup c) \ {p})
      BY <1>1, <3>2, BytesOfWithout
    <3>4. BytesOf(c) = ByteLength[p] + BytesOf(d)
      BY <1>1, <3>1, BytesOfWithout
    <3>5. BytesOf(A \cup d) = BytesOf(A) + BytesOf(d)
      BY <1>4, <3>1
    <3>6. BytesOf(d) \in Int
      BY <1>1, <3>1, BytesOfWithout
    <3>7. ByteLength[p] \in Int
      BY <3>2, BudgetAssumption
    <3>8. BytesOf(A \cup c) = ByteLength[p] + BytesOf(A \cup d)
      BY <3>2, <3>3, Zenon
    <3> HIDE DEF d
    <3> QED
      BY <1>2, <3>4, <3>5, <3>6, <3>7, <3>8
  <2> QED
    BY <2>1, <2>2
<1>5. Cardinality(C) \in I
  <2>1. Cardinality(C) \in Nat
    BY FS_CardinalityType
  <2> HIDE DEF I
  <2> QED
    BY <1>3, <1>4, <2>1, Induction
<1> QED
  BY <1>5, Subsets

LEMMA BytesOfNat ==
  ASSUME NEW S \in SUBSET Hashes, IsFiniteSet(S)
  PROVE  BytesOf(S) \in Nat
<1> DEFINE I == {n \in Nat : \A s \in SUBSET S : Cardinality(s) <= n => BytesOf(s) \in Nat}
<1>1. \A s \in SUBSET S : IsFiniteSet(s) /\ s \in SUBSET Hashes
  BY FS_Subset
<1>2. 0 \in I
  <2> SUFFICES ASSUME NEW s \in SUBSET S, Cardinality(s) <= 0 PROVE BytesOf(s) \in Nat
    OBVIOUS
  <2>1. s = {}
    BY Subsets
  <2> QED
    BY <1>1, <2>1, BytesOfWithout
<1>3. ASSUME NEW n \in Nat, n \in I PROVE n + 1 \in I
  <2> SUFFICES ASSUME NEW s \in SUBSET S, Cardinality(s) <= n + 1 PROVE BytesOf(s) \in Nat
    OBVIOUS
  <2>1. CASE s = {}
    BY <1>1, <2>1, BytesOfWithout
  <2>2. CASE s # {}
    <3>1. /\ Pick(s) \in s /\ s \ {Pick(s)} \in SUBSET S /\ Cardinality(s \ {Pick(s)}) <= n
      BY <2>2, Picked
    <3>2. BytesOf(s) = ByteLength[Pick(s)] + BytesOf(s \ {Pick(s)})
      BY <1>1, <3>1, BytesOfWithout
    <3>3. BytesOf(s \ {Pick(s)}) \in Nat /\ ByteLength[Pick(s)] \in Nat
      BY <1>3, <3>1, BudgetAssumption
    <3> QED
      BY <3>2, <3>3
  <2> QED
    BY <2>1, <2>2
<1>4. Cardinality(S) \in I
  <2>1. Cardinality(S) \in Nat
    BY FS_CardinalityType
  <2> HIDE DEF I
  <2> QED
    BY <1>2, <1>3, <2>1, Induction
<1> QED
  BY <1>4, Subsets

-----------------------------------------------------------------------------
(* The cache as a sequence.                                                *)

LEMMA CodeAppended ==
  ASSUME NEW T, NEW q \in Seq(T), IsInjective(q), NEW c \in T, c \notin ToSet(q)
  PROVE  /\ Append(q, c) \in Seq(T)
         /\ IsInjective(Append(q, c))
         /\ ToSet(Append(q, c)) = ToSet(q) \cup {c}
<1> DEFINE p == Append(q, c)
<1>1. p \in Seq(T) /\ DOMAIN p = 1..(Len(q) + 1) /\ DOMAIN q = 1..Len(q) /\ Len(q) \in Nat
  OBVIOUS
<1>2. \A i \in 1..Len(q) : p[i] = q[i] /\ q[i] # c
  BY DEF ToSet
<1>3. p[Len(q) + 1] = c
  OBVIOUS
<1> HIDE DEF p
<1>4. IsInjective(p)
  BY <1>1, <1>2, <1>3 DEF IsInjective
<1>5. ToSet(p) = ToSet(q) \cup {c}
  <2>1. ASSUME NEW x \in ToSet(p) PROVE x \in ToSet(q) \cup {c}
    BY <1>1, <1>2, <1>3 DEF ToSet
  <2>2. ASSUME NEW x \in ToSet(q) PROVE x \in ToSet(p)
    BY <1>1, <1>2 DEF ToSet
  <2>3. c \in ToSet(p)
    BY <1>1, <1>3 DEF ToSet
  <2> QED
    BY <2>1, <2>2, <2>3
<1> QED
  BY <1>1, <1>4, <1>5 DEF p

\* A stretch of the cache.
LEMMA CodeStretch ==
  ASSUME NEW q \in Seq(Hashes), NEW m \in Nat, NEW n \in Nat, m >= 1, n <= Len(q)
  PROVE  /\ SubSeq(q, m, n) \in Seq(Hashes)
         /\ ToSet(SubSeq(q, m, n)) = {q[i] : i \in m..n}
         /\ IsInjective(q) => IsInjective(SubSeq(q, m, n))
<1> DEFINE p == SubSeq(q, m, n)
           l == IF m <= n THEN n - m + 1 ELSE 0
<1>1. p \in Seq(Hashes) /\ DOMAIN q = 1..Len(q) /\ Len(q) \in Nat
  OBVIOUS
<1>2. DOMAIN p = 1..l /\ \A i \in 1..l : p[i] = q[m + i - 1]
  OBVIOUS
<1> HIDE DEF p
<1>3. ASSUME IsInjective(q), NEW i \in DOMAIN p, NEW j \in DOMAIN p, p[i] = p[j]
      PROVE  i = j
  <2>1. m + i - 1 \in DOMAIN q /\ m + j - 1 \in DOMAIN q
    BY <1>1, <1>2
  <2>2. q[m + i - 1] = q[m + j - 1]
    BY <1>2, <1>3
  <2>3. m + i - 1 = m + j - 1
    BY <1>3, <2>1, <2>2 DEF IsInjective
  <2> QED
    BY <1>2, <2>3
<1>4. ToSet(p) = {q[i] : i \in m..n}
  <2>1. ASSUME NEW x \in ToSet(p) PROVE x \in {q[i] : i \in m..n}
    <3>1. PICK i \in 1..l : x = q[m + i - 1]
      BY <1>2 DEF ToSet
    <3>2. m + i - 1 \in m..n
      OBVIOUS
    <3> QED
      BY <3>1, <3>2
  <2>2. ASSUME NEW i \in m..n PROVE q[i] \in ToSet(p)
    <3>1. i - m + 1 \in 1..l /\ m + (i - m + 1) - 1 = i
      OBVIOUS
    <3>2. p[i - m + 1] = q[i]
      BY <1>2, <3>1
    <3> QED
      BY <1>2, <3>1, <3>2 DEF ToSet
  <2> QED
    BY <2>1, <2>2
<1> QED
  BY <1>1, <1>3, <1>4 DEF p, IsInjective

\* The cache without its entry i.
LEMMA CodeRemoved ==
  ASSUME NEW T, NEW q \in Seq(T), IsInjective(q), NEW i \in DOMAIN q
  PROVE  /\ RemoveAt(q, i) \in Seq(T)
         /\ IsInjective(RemoveAt(q, i))
         /\ ToSet(RemoveAt(q, i)) = ToSet(q) \ {q[i]}
<1> DEFINE p == RemoveAt(q, i)
           from(j) == IF j < i THEN j ELSE j + 1
<1>1. DOMAIN q = 1..Len(q) /\ Len(q) \in Nat /\ i \in 1..Len(q)
  OBVIOUS
<1>2. p \in Seq(T) /\ DOMAIN p = 1..(Len(q) - 1)
  <2>1. SubSeq(q, 1, i - 1) \in Seq(T) /\ Len(SubSeq(q, 1, i - 1)) = i - 1
    BY <1>1
  <2>2. SubSeq(q, i + 1, Len(q)) \in Seq(T) /\ Len(SubSeq(q, i + 1, Len(q))) = Len(q) - i
    BY <1>1
  <2>3. p = SubSeq(q, 1, i - 1) \o SubSeq(q, i + 1, Len(q))
    BY DEF RemoveAt
  <2> QED
    BY <1>1, <2>1, <2>2, <2>3, ConcatProperties
<1>3. ASSUME NEW j \in 1..(Len(q) - 1) PROVE p[j] = q[from(j)]
  <2> DEFINE front == SubSeq(q, 1, i - 1)
             back == SubSeq(q, i + 1, Len(q))
  <2>1. /\ front \in Seq(T) /\ Len(front) = i - 1
        /\ \A m \in 1..(i - 1) : front[m] = q[m]
        /\ back \in Seq(T) /\ Len(back) = Len(q) - i
        /\ \A m \in 1..(Len(q) - i) : back[m] = q[i + m]
    <3>1. /\ front \in Seq(T) /\ Len(front) = i - 1
          /\ \A m \in 1..(i - 1) : front[m] = q[1 + m - 1]
      BY <1>1, SubSeqProperties
    <3>2. /\ back \in Seq(T) /\ Len(back) = Len(q) - i
          /\ \A m \in 1..(Len(q) - i) : back[m] = q[(i + 1) + m - 1]
      BY <1>1, SubSeqProperties, SMTT(30)
    <3>3. /\ \A m \in 1..(i - 1) : 1 + m - 1 = m
          /\ \A m \in 1..(Len(q) - i) : (i + 1) + m - 1 = i + m
      BY <1>1
    <3> HIDE DEF front, back
    <3> QED
      BY <3>1, <3>2, <3>3, Zenon
  <2>2. p = front \o back
    BY DEF RemoveAt
  <2> HIDE DEF front, back, p
  <2>3. CASE j < i
    BY <1>1, <2>1, <2>2, <2>3
  <2>4. CASE j >= i
    <3>1. j - (i - 1) \in 1..(Len(q) - i) /\ i + (j - (i - 1)) = j + 1
      BY <1>1, <2>4
    <3>2. j \in 1..(Len(front) + Len(back)) /\ ~(j <= Len(front)) /\ j - Len(front) = j - (i - 1)
      BY <1>1, <2>1, <2>4
    <3>3. (front \o back)[j] = back[j - Len(front)]
      BY <2>1, <3>2, ConcatProperties
    <3>4. back[j - (i - 1)] = q[i + (j - (i - 1))]
      BY <2>1, <3>1
    <3>5. from(j) = j + 1
      BY <1>1, <2>4
    <3> QED
      BY <2>2, <3>1, <3>2, <3>3, <3>4, <3>5
  <2> QED
    BY <1>1, <2>3, <2>4
<1>4. /\ \A j \in 1..(Len(q) - 1) : from(j) \in 1..Len(q) /\ from(j) # i
      /\ \A m, n \in 1..(Len(q) - 1) : from(m) = from(n) => m = n
      /\ \A m \in 1..Len(q) : m # i => \E j \in 1..(Len(q) - 1) : from(j) = m
  <2>1. ASSUME NEW m \in 1..Len(q), m # i PROVE \E j \in 1..(Len(q) - 1) : from(j) = m
    <3>1. CASE m < i
      BY <1>1, <3>1
    <3>2. CASE m > i
      <4>1. m - 1 \in 1..(Len(q) - 1) /\ from(m - 1) = m
        BY <1>1, <3>2
      <4> QED
        BY <4>1
    <3> QED
      BY <1>1, <2>1, <3>1, <3>2
  <2> QED
    BY <1>1, <2>1
<1> HIDE DEF p, from
<1>5. IsInjective(p)
  BY <1>1, <1>2, <1>3, <1>4 DEF IsInjective
<1>6. ToSet(p) = ToSet(q) \ {q[i]}
  <2>1. ASSUME NEW x \in ToSet(p) PROVE x \in ToSet(q) \ {q[i]}
    BY <1>1, <1>2, <1>3, <1>4 DEF IsInjective, ToSet
  <2>2. ASSUME NEW x \in ToSet(q), x # q[i] PROVE x \in ToSet(p)
    <3>1. PICK m \in 1..Len(q) : x = q[m]
      BY <1>1 DEF ToSet
    <3>2. PICK j \in 1..(Len(q) - 1) : from(j) = m
      BY <1>4, <2>2, <3>1
    <3> QED
      BY <1>2, <1>3, <3>1, <3>2 DEF ToSet
  <2> QED
    BY <2>1, <2>2
<1> QED
  BY <1>2, <1>5, <1>6 DEF p

\* The first of a set of indices: those up to it are the initial stretch of 1..n + 1 before it.
LEMMA LeastIndex ==
  ASSUME NEW n \in Nat, NEW I \in SUBSET (1..n), I # {}
  PROVE  Min(I) \in I /\ \A i \in I : Min(I) <= i
<1> DEFINE U == {m \in 1..(n + 1) : \A i \in I : m <= i}
           k == Cardinality(U)
<1>1. IsFiniteSet(U) /\ k \in Nat
  <2>1. IsFiniteSet(1..(n + 1)) /\ U \subseteq 1..(n + 1)
    BY FS_Interval
  <2> QED
    BY <2>1, FS_Subset, FS_CardinalityType
<1>2. 1 \in U /\ n + 1 \notin U
  <2>1. PICK i \in I : i \in 1..n
    OBVIOUS
  <2>2. ~(n + 1 <= i)
    BY <2>1
  <2>3. \A j \in I : 1 <= j
    OBVIOUS
  <2>4. 1 \in 1..(n + 1)
    OBVIOUS
  <2> QED
    BY <2>1, <2>2, <2>3, <2>4
<1>3. ASSUME NEW m \in U PROVE m <= k
  <2>1. 1..m \subseteq U
    OBVIOUS
  <2>2. Cardinality(1..m) = m
    BY FS_Interval
  <2> QED
    BY <1>1, <2>1, <2>2, FS_Subset
<1>4. U = 1..k
  <2>1. U \subseteq 1..k
    BY <1>1, <1>3
  <2>2. IsFiniteSet(1..k) /\ Cardinality(1..k) = k
    BY <1>1, FS_Interval
  <2> HIDE DEF U
  <2> QED
    BY <2>1, <2>2, FS_Subset
<1>5. k \in U /\ k + 1 \notin U
  <2> HIDE DEF U, k
  <2> QED
    BY <1>1, <1>2, <1>4
<1>6. k \in 1..n /\ \A i \in I : k <= i
  BY <1>1, <1>2, <1>5
<1> HIDE DEF k
<1>7. PICK i \in I : ~(k + 1 <= i)
  BY <1>5, <1>6
<1>8. i = k
  BY <1>6, <1>7
<1> QED
  BY <1>6, <1>8 DEF Min

\* Each hash once.
CodeList(q) == q \in Seq(Hashes) /\ IsInjective(q)

LEMMA CodeListFinite ==
  ASSUME NEW q, CodeList(q)
  PROVE  /\ IsFiniteSet(ToSet(q)) /\ ToSet(q) \in SUBSET Hashes
         /\ Len(q) \in Nat /\ DOMAIN q = 1..Len(q)
         /\ \A h : Contains(q, h) <=> h \in ToSet(q)
<1> DEFINE f == [i \in 1..Len(q) |-> q[i]]
<1>1. Len(q) \in Nat /\ DOMAIN q = 1..Len(q) /\ \A i \in 1..Len(q) : q[i] \in Hashes
  BY DEF CodeList
<1>2. IsFiniteSet(1..Len(q))
  BY <1>1, FS_Interval
<1>3. f \in Surjection(1..Len(q), ToSet(q))
  BY <1>1 DEF Surjection, ToSet
<1>4. IsFiniteSet(ToSet(q))
  BY <1>2, <1>3, FS_Surjection
<1> QED
  BY <1>1, <1>4 DEF Contains, ToSet

\* RemoveFirst drops a hash.
LEMMA CodeListWithout ==
  ASSUME NEW q, CodeList(q), NEW h
  PROVE  CodeList(RemoveFirst(q, h)) /\ ToSet(RemoveFirst(q, h)) = ToSet(q) \ {h}
<1>1. q \in Seq(Hashes) /\ IsInjective(q) /\ Len(q) \in Nat /\ DOMAIN q = 1..Len(q)
  BY CodeListFinite DEF CodeList
<1>2. CASE ~\E i \in 1..Len(q) : q[i] = h
  <2>1. RemoveFirst(q, h) = q
    BY <1>2 DEF RemoveFirst
  <2> QED
    BY <1>1, <1>2, <2>1 DEF ToSet
<1>3. CASE \E i \in 1..Len(q) : q[i] = h
  <2> DEFINE I == {i \in 1..Len(q) : q[i] = h}
  <2>1. I # {} /\ I \in SUBSET (1..Len(q))
    BY <1>3
  <2>2. RemoveFirst(q, h) = RemoveAt(q, Min(I))
    BY <1>3 DEF RemoveFirst, SelectInSeq
  <2>3. Min(I) \in I
    <3> HIDE DEF I
    <3> QED
      BY <1>1, <2>1, LeastIndex
  <2>4. PICK i \in 1..Len(q) : i = Min(I) /\ q[i] = h
    BY <2>3
  <2> HIDE DEF I
  <2>5. RemoveFirst(q, h) = RemoveAt(q, i)
    BY <2>2, <2>4
  <2> QED
    BY <1>1, <2>4, <2>5, CodeRemoved DEF CodeList
<1> QED
  BY <1>2, <1>3

\* and is no longer in the other half where the cache is split.
LEMMA CodeListSplit ==
  ASSUME NEW q, CodeList(q), NEW k \in 0..Len(q)
  PROVE  LET front == ToSet(SubSeq(q, 1, k))
             back == SubSeq(q, k + 1, Len(q))
         IN  /\ CodeList(back) /\ front \cap ToSet(back) = {} /\ ToSet(q) = front \cup ToSet(back)
             /\ k = Len(q) => ToSet(back) = {}
<1> DEFINE front == SubSeq(q, 1, k)
           back == SubSeq(q, k + 1, Len(q))
<1>1. q \in Seq(Hashes) /\ IsInjective(q) /\ Len(q) \in Nat /\ DOMAIN q = 1..Len(q)
  BY CodeListFinite DEF CodeList
<1>2. k \in Nat /\ k <= Len(q) /\ k + 1 \in Nat /\ k + 1 >= 1
  BY <1>1
<1>3. ToSet(front) = {q[i] : i \in 1..k}
  BY <1>1, <1>2, CodeStretch
<1>4. /\ back \in Seq(Hashes) /\ IsInjective(back)
      /\ ToSet(back) = {q[i] : i \in (k + 1)..Len(q)}
  BY <1>1, <1>2, CodeStretch
<1>5. ToSet(q) = {q[i] : i \in 1..Len(q)} /\ \A i, j \in 1..Len(q) : q[i] = q[j] => i = j
  BY <1>1 DEF IsInjective, ToSet
<1> HIDE DEF front, back
<1>6. ToSet(front) \cap ToSet(back) = {}
  BY <1>1, <1>2, <1>3, <1>4, <1>5
<1>7. ToSet(q) = ToSet(front) \cup ToSet(back)
  <2>1. 1..Len(q) = 1..k \cup (k + 1)..Len(q)
    BY <1>1, <1>2
  <2> QED
    BY <1>3, <1>4, <1>5, <2>1
<1>8. k = Len(q) => ToSet(back) = {}
  BY <1>1, <1>4
<1> QED
  BY <1>4, <1>6, <1>7, <1>8 DEF front, back, CodeList

-----------------------------------------------------------------------------
(* Storing a code.                                                         *)

\* The entries dropped are as few as make room, or all.
Fewest(n, room, left) ==
    CHOOSE i \in 0..n :
        /\ left[i] <= room \/ i = n
        /\ \A j \in 0..(i - 1) : left[j] > room

LEMMA FewestDropped ==
  ASSUME NEW n \in Nat, NEW room \in Int, NEW left, \A k \in 0..n : left[k] \in Int
  PROVE  LET k == Fewest(n, room, left) IN
         k \in 0..n /\ (left[k] <= room \/ k = n)
<1> DEFINE P(i) == /\ left[i] <= room \/ i = n
                   /\ \A j \in 0..(i - 1) : left[j] > room
           I == {i \in 1..(n + 1) : left[i - 1] <= room \/ i - 1 = n}
<1>1. n + 1 \in I /\ I \in SUBSET (1..(n + 1)) /\ n + 1 \in Nat
  OBVIOUS
<1>2. Min(I) \in I /\ \A i \in I : Min(I) <= i
  <2> HIDE DEF I
  <2> QED
    BY <1>1, LeastIndex
<1>3. PICK m \in I : \A i \in I : m <= i
  BY <1>2
<1>4. m - 1 \in 0..n /\ (left[m - 1] <= room \/ m - 1 = n)
  BY <1>1, <1>3
<1>5. ASSUME NEW j \in 0..((m - 1) - 1) PROVE left[j] > room
  <2>1. j + 1 \in 1..(n + 1) /\ j + 1 < m /\ (j + 1) - 1 = j
    BY <1>4
  <2>2. j + 1 \notin I
    BY <1>1, <1>3, <2>1
  <2> QED
    BY <2>1, <2>2
<1>6. \E i \in 0..n : P(i)
  BY <1>4, <1>5
<1> QED
  BY <1>6 DEF Fewest

\* cacheCode() keeps the account and its limit.
LEMMA CacheCodeKeeps ==
  ASSUME BudgetKept, CodeList(codes), NEW h \in Hashes, cacheCode(h)
  PROVE  /\ BudgetKept' /\ codes' \in Seq(Hashes) /\ codeBytes' \in Nat
         /\ ToSet(codes') \subseteq ToSet(codes) \cup {h}
<1>1. CASE MaxCacheBytes = 0 \/ ByteLength[h] > MaxCacheBytes
  <2>1. UNCHANGED <<codes, codeBytes>>
    BY <1>1 DEF cacheCode
  <2>2. codeBytes \in Nat
    BY CodeListFinite, BytesOfNat DEF BudgetKept
  <2> QED
    BY <2>1, <2>2 DEF BudgetKept, CodeList
<1>2. CASE ~(MaxCacheBytes = 0 \/ ByteLength[h] > MaxCacheBytes)
  <2> DEFINE others == RemoveFirst(codes, h)
             rest == codeBytes - (IF Contains(codes, h) THEN ByteLength[h] ELSE 0)
             Freed(k) == BytesOf(ToSet(SubSeq(others, 1, k)))
             left == [k \in 0..Len(others) |-> rest - Freed(k)]
             room == MaxCacheBytes - ByteLength[h]
             dropped == CHOOSE k \in 0..Len(others) :
                            /\ rest - Freed(k) <= MaxCacheBytes - ByteLength[h] \/ k = Len(others)
                            /\ \A j \in 0..(k - 1) : rest - Freed(j) > MaxCacheBytes - ByteLength[h]
             kept == SubSeq(others, dropped + 1, Len(others))
  <2>1. codes' = Append(kept, h) /\ codeBytes' = rest - Freed(dropped) + ByteLength[h]
    BY <1>2 DEF cacheCode
  <2>2. CodeList(others) /\ ToSet(others) = ToSet(codes) \ {h}
    BY CodeListWithout
  <2>3. /\ ByteLength[h] \in Nat /\ MaxCacheBytes \in Nat /\ ByteLength[h] <= MaxCacheBytes
    BY <1>2, BudgetAssumption
  <2> HIDE DEF others
  <2>4. rest = BytesOf(ToSet(others)) /\ rest \in Nat
    <3>1. /\ IsFiniteSet(ToSet(codes)) /\ ToSet(codes) \in SUBSET Hashes
          /\ Contains(codes, h) <=> h \in ToSet(codes)
      BY CodeListFinite
    <3>2. BytesOf(ToSet(codes)) \in Nat
      BY <3>1, BytesOfNat
    <3>3. h \in ToSet(codes) => BytesOf(ToSet(codes)) = ByteLength[h] + BytesOf(ToSet(codes) \ {h})
      BY <3>1, BytesOfWithout
    <3>4. h \notin ToSet(codes) => ToSet(codes) \ {h} = ToSet(codes)
      OBVIOUS
    <3>5. IsFiniteSet(ToSet(others)) /\ ToSet(others) \in SUBSET Hashes
      BY <2>2, CodeListFinite
    <3>6. BytesOf(ToSet(others)) \in Nat
      BY <3>5, BytesOfNat
    <3> QED
      BY <2>2, <2>3, <3>1, <3>2, <3>3, <3>4, <3>6 DEF BudgetKept
  <2> HIDE DEF rest
  <2>5. ASSUME NEW k \in 0..Len(others)
        PROVE  LET back == SubSeq(others, k + 1, Len(others))
               IN  /\ CodeList(back) /\ ToSet(back) \subseteq ToSet(others)
                   /\ rest - Freed(k) = BytesOf(ToSet(back)) /\ BytesOf(ToSet(back)) \in Nat
                   /\ k = Len(others) => BytesOf(ToSet(back)) = 0
    <3> DEFINE front == ToSet(SubSeq(others, 1, k))
               back == SubSeq(others, k + 1, Len(others))
               B == ToSet(back)
    <3>1. /\ CodeList(back) /\ front \cap B = {} /\ ToSet(others) = front \cup B
          /\ k = Len(others) => B = {}
      BY <2>2, CodeListSplit
    <3> HIDE DEF front, back
    <3>2. IsFiniteSet(ToSet(others)) /\ ToSet(others) \in SUBSET Hashes
      BY <2>2, CodeListFinite
    <3>3. /\ IsFiniteSet(front) /\ front \in SUBSET Hashes
          /\ IsFiniteSet(B) /\ B \in SUBSET Hashes
      BY <3>1, <3>2, FS_Subset
    <3> HIDE DEF B
    <3>4. BytesOf(front \cup B) = BytesOf(front) + BytesOf(B)
      BY <3>1, <3>3, BytesOfUnion
    <3>5. BytesOf(front) \in Nat /\ BytesOf(B) \in Nat
      BY <3>3, BytesOfNat
    <3>6. B = {} => BytesOf(B) = 0
      BY <3>3, BytesOfWithout
    <3>7. BytesOf(ToSet(others)) = BytesOf(front) + BytesOf(B)
      BY <3>1, <3>4, Zenon
    <3>8. rest - BytesOf(front) = BytesOf(B)
      BY <2>4, <3>5, <3>7
    <3> QED
      BY <3>1, <3>5, <3>6, <3>8 DEF front, back, B
  <2> HIDE DEF Freed
  <2>6. Len(others) \in Nat /\ room \in Int /\ \A k \in 0..Len(others) : left[k] \in Int
    <3>1. Len(others) \in Nat
      BY <2>2, CodeListFinite
    <3>2. \A k \in 0..Len(others) : rest - Freed(k) \in Int
      BY <2>5
    <3> QED
      BY <2>3, <3>1, <3>2
  <2>7. dropped = Fewest(Len(others), room, left)
    <3> DEFINE P(k) == /\ rest - Freed(k) <= MaxCacheBytes - ByteLength[h] \/ k = Len(others)
                       /\ \A j \in 0..(k - 1) : rest - Freed(j) > MaxCacheBytes - ByteLength[h]
               Q(k) == /\ left[k] <= room \/ k = Len(others)
                       /\ \A j \in 0..(k - 1) : left[j] > room
    <3>1. ASSUME NEW k \in 0..Len(others) PROVE P(k) <=> Q(k)
      <4>1. left[k] = rest - Freed(k)
        OBVIOUS
      <4>2. \A j \in 0..(k - 1) : left[j] = rest - Freed(j)
        BY <2>6
      <4> HIDE DEF left
      <4> QED
        BY <4>1, <4>2
    <3> HIDE DEF P, Q
    <3>2. (CHOOSE k \in 0..Len(others) : P(k)) = (CHOOSE k \in 0..Len(others) : Q(k))
      BY <3>1
    <3> QED
      BY <3>2 DEF P, Q, Fewest
  <2>8. dropped \in 0..Len(others) /\ (left[dropped] <= room \/ dropped = Len(others))
    <3> HIDE DEF left, room, dropped
    <3> QED
      BY <2>6, <2>7, FewestDropped
  <2>9. left[dropped] = rest - Freed(dropped)
    BY <2>8
  <2> HIDE DEF dropped, left
  <2>10. /\ CodeList(kept) /\ ToSet(kept) \subseteq ToSet(others)
         /\ rest - Freed(dropped) = BytesOf(ToSet(kept)) /\ BytesOf(ToSet(kept)) \in Nat
         /\ dropped = Len(others) => BytesOf(ToSet(kept)) = 0
    BY <2>5, <2>8
  <2> HIDE DEF kept
  <2>11. /\ codes' \in Seq(Hashes) /\ IsInjective(codes')
         /\ ToSet(codes') = ToSet(kept) \cup {h} /\ h \notin ToSet(kept)
    BY <2>1, <2>2, <2>10, CodeAppended DEF CodeList
  <2>12. BytesOf(ToSet(codes')) = ByteLength[h] + BytesOf(ToSet(kept))
    <3> DEFINE K == ToSet(kept) \cup {h}
    <3>1. IsFiniteSet(ToSet(kept)) /\ ToSet(kept) \in SUBSET Hashes
      BY <2>10, CodeListFinite
    <3>2. IsFiniteSet(K) /\ K \in SUBSET Hashes /\ h \in K /\ K \ {h} = ToSet(kept)
      BY <2>11, <3>1, FS_AddElement
    <3> HIDE DEF K
    <3>3. BytesOf(K) = ByteLength[h] + BytesOf(K \ {h})
      BY <3>2, BytesOfWithout
    <3>4. BytesOf(K) = ByteLength[h] + BytesOf(ToSet(kept))
      BY <3>2, <3>3, Zenon
    <3> QED
      BY <2>11, <3>4, Zenon DEF K
  <2>13. codeBytes' = BytesOf(ToSet(codes')) /\ codeBytes' \in Nat
    BY <2>1, <2>3, <2>10, <2>12
  <2>14. codeBytes' <= MaxCacheBytes
    BY <2>1, <2>3, <2>8, <2>9, <2>10
  <2> QED
    BY <2>2, <2>10, <2>11, <2>13, <2>14 DEF BudgetKept
<1> QED
  BY <1>1, <1>2

-----------------------------------------------------------------------------
(* The inductive invariant.                                                *)

\* The request may still store its code.
Downloading(q) == codeRequest[q].state = "sent" /\ ~codeRequest[q].aborted

\* It is the one under way for its hash, and somebody waits for it.
CodeRequestsSound ==
    \A q \in CodeCallers : Downloading(q) =>
        /\ codeRequest[q].hash \in Hashes /\ downloads[codeRequest[q].hash] = q
        /\ CodeWaiters(q) # {}

\* What is under way is not cached.
DownloadsSound ==
    \A h \in Hashes : downloads[h] # NoDownload =>
        Downloading(downloads[h]) /\ codeRequest[downloads[h]].hash = h /\ ~Contains(codes, h)

\* A call that waits waits for such a request, and one that has not begun has none.
CodeCallersSound ==
    \A c \in CodeCallers :
        /\ codeCaller[c].stage = "await" =>
              codeCaller[c].request \in CodeCallers /\ Downloading(codeCaller[c].request)
        /\ codeCaller[c].stage = "idle" =>
              codeCaller[c].request = NoDownload /\ codeRequest[c].state = "none"
        /\ codeCaller[c].stage \in CodeResumable => codeCaller[c].request \in CodeCallers

CodeIInv == CodeTypeOK /\ BudgetKept /\ CodeRequestsSound /\ DownloadsSound /\ CodeCallersSound

LEMMA CodeInitIInv == CodeInit => CodeIInv
<1> SUFFICES ASSUME CodeInit PROVE CodeIInv
  OBVIOUS
<1> USE NoDownloadAssumption DEF CodeInit
<1>1. CodeTypeOK
  BY DEF CodeTypeOK
<1>2. CodeRequestsSound /\ DownloadsSound /\ CodeCallersSound
  BY DEF CodeRequestsSound, DownloadsSound, CodeCallersSound, Downloading, CodeResumable
<1>3. BudgetKept
  <2>1. ToSet(codes) = {} /\ IsInjective(codes)
    BY DEF ToSet, IsInjective
  <2>2. BytesOf({}) = 0
    BY FS_EmptySet, BytesOfWithout
  <2>3. BytesOf(ToSet(codes)) = 0 /\ codeBytes = 0
    BY <2>1, <2>2, Zenon
  <2> QED
    BY <2>1, <2>3, BudgetAssumption DEF BudgetKept
<1> QED
  BY <1>1, <1>2, <1>3 DEF CodeIInv

\* Only the calls have moved.
LEMMA SameCache ==
  ASSUME CodeIInv, UNCHANGED <<codes, codeBytes>>
  PROVE  BudgetKept' /\ codes' \in Seq(Hashes) /\ codeBytes' \in Nat
         /\ \A h : Contains(codes', h) <=> Contains(codes, h)
BY DEF CodeIInv, CodeTypeOK, BudgetKept, Contains

LEMMA HitIInv ==
  ASSUME CodeIInv, NEW c \in CodeCallers, NEW h \in Hashes, codeCaller[c].stage = "idle",
         Contains(codes, h),
         codes' = Append(RemoveFirst(codes, h), h),
         codeCaller' = [codeCaller EXCEPT ![c].stage = "done"],
         UNCHANGED <<codeBytes, downloads, codeRequest>>
  PROVE  CodeIInv'
<1>1. CodeList(codes)
  BY DEF CodeIInv, CodeTypeOK, BudgetKept, CodeList
<1>2. /\ codes' \in Seq(Hashes) /\ IsInjective(codes') /\ ToSet(codes') = ToSet(codes)
  <2> DEFINE r == RemoveFirst(codes, h)
  <2>1. CodeList(r) /\ ToSet(r) = ToSet(codes) \ {h}
    BY <1>1, CodeListWithout
  <2> HIDE DEF r
  <2>2. h \in ToSet(codes)
    BY <1>1, CodeListFinite
  <2>3. codes' = Append(r, h)
    BY DEF r
  <2>4. codes' \in Seq(Hashes) /\ IsInjective(codes') /\ ToSet(codes') = ToSet(r) \cup {h}
    BY <2>1, <2>3, CodeAppended DEF CodeList
  <2> QED
    BY <2>1, <2>2, <2>4
<1>3. BudgetKept'
  BY <1>2 DEF CodeIInv, BudgetKept
<1>4. \A k : Contains(codes', k) <=> Contains(codes, k)
  <2>1. ASSUME NEW q, CodeList(q), NEW k PROVE Contains(q, k) <=> k \in ToSet(q)
    BY <2>1, CodeListFinite
  <2>2. CodeList(codes')
    BY <1>2 DEF CodeList
  <2> QED
    BY <1>1, <1>2, <2>1, <2>2
<1>5. CodeTypeOK'
  BY <1>2 DEF CodeIInv, CodeTypeOK
<1>6. CodeRequestsSound'
  <2>1. ASSUME NEW q \in CodeCallers PROVE CodeWaiters(q) \subseteq CodeWaiters(q)'
    BY NoDownloadAssumption DEF CodeIInv, CodeTypeOK, CodeCallersSound, CodeWaiters
  <2> QED
    BY <2>1 DEF CodeIInv, CodeRequestsSound, Downloading
<1>7. DownloadsSound'
  BY <1>4 DEF CodeIInv, DownloadsSound, Downloading
<1>8. CodeCallersSound'
  BY DEF CodeIInv, CodeTypeOK, CodeCallersSound, Downloading, CodeResumable
<1> QED
  BY <1>3, <1>5, <1>6, <1>7, <1>8 DEF CodeIInv

LEMMA JoinIInv ==
  ASSUME CodeIInv, NEW c \in CodeCallers, NEW h \in Hashes, codeCaller[c].stage = "idle",
         downloads[h] # NoDownload,
         codeCaller' = [codeCaller EXCEPT ![c] = [stage |-> "await", request |-> downloads[h]]],
         UNCHANGED <<codes, codeBytes, downloads, codeRequest>>
  PROVE  CodeIInv'
<1>1. downloads[h] \in CodeCallers /\ Downloading(downloads[h])
  BY DEF CodeIInv, CodeTypeOK, DownloadsSound
<1>2. CodeTypeOK'
  BY <1>1, SameCache DEF CodeIInv, CodeTypeOK
<1>3. CodeRequestsSound'
  <2>1. ASSUME NEW q \in CodeCallers PROVE CodeWaiters(q) \subseteq CodeWaiters(q)'
    BY NoDownloadAssumption DEF CodeIInv, CodeTypeOK, CodeCallersSound, CodeWaiters
  <2> QED
    BY <2>1 DEF CodeIInv, CodeRequestsSound, Downloading
<1>4. DownloadsSound'
  BY SameCache DEF CodeIInv, DownloadsSound, Downloading
<1>5. CodeCallersSound'
  BY <1>1 DEF CodeIInv, CodeTypeOK, CodeCallersSound, Downloading, CodeResumable
<1> QED
  BY <1>2, <1>3, <1>4, <1>5, SameCache DEF CodeIInv

LEMMA RequestIInv ==
  ASSUME CodeIInv, NEW c \in CodeCallers, NEW h \in Hashes, codeCaller[c].stage = "idle",
         ~Contains(codes, h), downloads[h] = NoDownload,
         codeCaller' = [codeCaller EXCEPT ![c] = [stage |-> "await", request |-> c]],
         downloads' = [downloads EXCEPT ![h] = c],
         codeRequest' = [codeRequest EXCEPT
                            ![c] = [state |-> "sent", hash |-> h, aborted |-> FALSE]],
         UNCHANGED <<codes, codeBytes>>
  PROVE  CodeIInv'
<1> USE NoDownloadAssumption
<1>1. codeRequest[c].state = "none" /\ codeCaller[c].request = NoDownload
  BY DEF CodeIInv, CodeCallersSound
<1>2. CodeTypeOK'
  BY SameCache DEF CodeIInv, CodeTypeOK
<1>3. /\ codeRequest'[c] = [state |-> "sent", hash |-> h, aborted |-> FALSE]
      /\ \A q \in CodeCallers \ {c} : codeRequest'[q] = codeRequest[q]
  BY DEF CodeIInv, CodeTypeOK
<1>4. downloads'[h] = c /\ \A k \in Hashes \ {h} : downloads'[k] = downloads[k]
  BY DEF CodeIInv, CodeTypeOK
<1>5. /\ codeCaller'[c] = [stage |-> "await", request |-> c]
      /\ \A d \in CodeCallers \ {c} : codeCaller'[d] = codeCaller[d]
  BY DEF CodeIInv, CodeTypeOK
<1>6. CodeRequestsSound'
  <2> SUFFICES ASSUME NEW q \in CodeCallers, Downloading(q)'
               PROVE  /\ codeRequest'[q].hash \in Hashes /\ downloads'[codeRequest'[q].hash] = q
                      /\ CodeWaiters(q)' # {}
    BY DEF CodeRequestsSound
  <2>1. CASE q = c
    <3>1. c \in CodeWaiters(c)'
      BY <1>5 DEF CodeWaiters
    <3> QED
      BY <1>3, <1>4, <2>1, <3>1
  <2>2. CASE q # c
    <3>1. /\ codeRequest[q].hash \in Hashes /\ downloads[codeRequest[q].hash] = q
          /\ CodeWaiters(q) # {}
      BY <1>3, <2>2 DEF CodeIInv, CodeRequestsSound, Downloading
    <3>2. CodeWaiters(q) \subseteq CodeWaiters(q)'
      BY <1>1, <1>5 DEF CodeWaiters
    <3> QED
      BY <1>3, <1>4, <2>2, <3>1, <3>2
  <2> QED
    BY <2>1, <2>2
<1>7. DownloadsSound'
  <2>1. \A k \in Hashes \ {h} : downloads[k] # NoDownload => downloads[k] \in CodeCallers \ {c}
    BY <1>1 DEF CodeIInv, CodeTypeOK, DownloadsSound, Downloading
  <2> QED
    BY <1>3, <1>4, <2>1, SameCache DEF CodeIInv, DownloadsSound, Downloading
<1>8. CodeCallersSound'
  <2>1. \A d \in CodeCallers \ {c} : codeCaller[d].stage = "await" => codeCaller[d].request # c
    BY <1>1 DEF CodeIInv, CodeCallersSound, Downloading
  <2> QED
    BY <1>3, <1>5, <2>1 DEF CodeIInv, CodeCallersSound, Downloading, CodeResumable
<1> QED
  BY <1>2, <1>6, <1>7, <1>8, SameCache DEF CodeIInv

LEMMA FetchByHashIInv ==
  ASSUME CodeIInv, NEW c \in CodeCallers, NEW h \in Hashes, FetchByHash(c, h)
  PROVE  CodeIInv'
BY HitIInv, JoinIInv, RequestIInv DEF FetchByHash

LEMMA AbortDownloadIInv ==
  ASSUME CodeIInv, NEW c \in CodeCallers, AbortDownload(c)
  PROVE  CodeIInv'
<1> USE DEF AbortDownload
<1>1. CodeTypeOK'
  BY SameCache DEF CodeIInv, CodeTypeOK, CodeResumable
<1>2. CodeRequestsSound'
  <2>1. ASSUME NEW q \in CodeCallers PROVE CodeWaiters(q) \subseteq CodeWaiters(q)'
    BY DEF CodeIInv, CodeTypeOK, CodeWaiters
  <2> QED
    BY <2>1 DEF CodeIInv, CodeRequestsSound, Downloading
<1>3. DownloadsSound'
  BY SameCache DEF CodeIInv, DownloadsSound, Downloading
<1>4. CodeCallersSound'
  BY DEF CodeIInv, CodeTypeOK, CodeCallersSound, Downloading, CodeResumable
<1> QED
  BY <1>1, <1>2, <1>3, <1>4, SameCache DEF CodeIInv

LEMMA ResumeCodeIInv ==
  ASSUME CodeIInv, NEW c \in CodeCallers, ResumeCode(c)
  PROVE  CodeIInv'
<1> DEFINE q == codeCaller[c].request
           h == codeRequest[q].hash
<1>1. q \in CodeCallers /\ codeCaller[c].stage \in CodeResumable
  BY DEF ResumeCode, CodeIInv, CodeCallersSound
<1>2. /\ codeCaller' \in [CodeCallers -> [stage : {"idle", "await", "done"} \cup CodeResumable,
                                          request : CodeCallers \cup {NoDownload}]]
      /\ codeCaller'[c].stage = "done"
      /\ \A d \in CodeCallers : codeCaller'[d].request = codeCaller[d].request
      /\ \A d \in CodeCallers \ {c} : codeCaller'[d] = codeCaller[d]
  BY DEF ResumeCode, CodeIInv, CodeTypeOK
<1>3. UNCHANGED <<codes, codeBytes>>
  BY DEF ResumeCode
<1>4. \A p \in CodeCallers : CodeWaiters(p)' = CodeWaiters(p) \ {c}
  BY <1>2 DEF CodeWaiters
<1>5. \A p \in CodeCallers \ {q} : c \notin CodeWaiters(p)
  BY DEF CodeWaiters
<1>6. CASE CodeWaiters(q) = {c} /\ downloads[h] = q
  <2>1. /\ downloads' = [downloads EXCEPT ![h] = NoDownload]
        /\ codeRequest' = [codeRequest EXCEPT ![q].aborted = TRUE]
    BY <1>6 DEF ResumeCode
  <2>2. /\ codeRequest' \in [CodeCallers -> [state : {"none", "sent", "done"},
                                             hash : Hashes \cup {NoDownload}, aborted : BOOLEAN]]
        /\ codeRequest'[q].aborted /\ codeRequest'[q].state = codeRequest[q].state
        /\ \A p \in CodeCallers \ {q} : codeRequest'[p] = codeRequest[p]
    <3> DEFINE R == [state : {"none", "sent", "done"}, hash : Hashes \cup {NoDownload},
                     aborted : BOOLEAN]
               e == [codeRequest[q] EXCEPT !.aborted = TRUE]
    <3>1. codeRequest \in [CodeCallers -> R]
      BY DEF CodeIInv, CodeTypeOK
    <3>2. e \in R /\ e.aborted /\ e.state = codeRequest[q].state
      BY <1>1, <3>1
    <3>3. codeRequest' = [codeRequest EXCEPT ![q] = e]
      BY <2>1
    <3> HIDE DEF R, e, q
    <3>4. /\ codeRequest' \in [CodeCallers -> R] /\ codeRequest'[q] = e
          /\ \A p \in CodeCallers \ {q} : codeRequest'[p] = codeRequest[p]
      BY <1>1, <3>1, <3>2, <3>3
    <3> QED
      BY <3>2, <3>4 DEF R
  <2>3. /\ downloads' \in [Hashes -> CodeCallers \cup {NoDownload}]
        /\ h \in Hashes => downloads'[h] = NoDownload
        /\ \A k \in Hashes : k # h => downloads'[k] = downloads[k]
    BY <2>1 DEF CodeIInv, CodeTypeOK
  <2>4. CodeTypeOK'
    BY <1>2, <1>3, <2>2, <2>3, SameCache DEF CodeTypeOK
  <2> HIDE DEF h
  <2>5. CodeRequestsSound'
    <3> SUFFICES ASSUME NEW p \in CodeCallers, Downloading(p)'
                 PROVE  /\ codeRequest'[p].hash \in Hashes /\ downloads'[codeRequest'[p].hash] = p
                        /\ CodeWaiters(p)' # {}
      BY DEF CodeRequestsSound
    <3>1. p # q /\ codeRequest'[p] = codeRequest[p] /\ Downloading(p)
      BY <2>2 DEF Downloading
    <3>2. /\ codeRequest[p].hash \in Hashes /\ downloads[codeRequest[p].hash] = p
          /\ CodeWaiters(p) # {}
      BY <3>1 DEF CodeIInv, CodeRequestsSound
    <3>3. codeRequest[p].hash # h
      BY <1>6, <3>1, <3>2
    <3> QED
      BY <1>4, <1>5, <2>3, <3>1, <3>2, <3>3
  <2>6. DownloadsSound'
    <3> SUFFICES ASSUME NEW k \in Hashes, downloads'[k] # NoDownload
                 PROVE  /\ Downloading(downloads[k])' /\ codeRequest'[downloads'[k]].hash = k
                        /\ ~Contains(codes', k)
      BY DEF DownloadsSound, Downloading
    <3>1. k # h /\ downloads'[k] = downloads[k] /\ downloads[k] \in CodeCallers
      BY <2>3 DEF CodeIInv, CodeTypeOK
    <3>2. /\ Downloading(downloads[k]) /\ codeRequest[downloads[k]].hash = k
          /\ ~Contains(codes, k)
      BY <3>1 DEF CodeIInv, DownloadsSound
    <3>3. downloads[k] # q
      BY <3>1, <3>2 DEF h
    <3> QED
      BY <1>3, <2>2, <3>1, <3>2, <3>3, SameCache DEF Downloading
  <2>7. CodeCallersSound'
    <3>1. \A d \in CodeCallers \ {c} : codeCaller[d].stage = "await" => codeCaller[d].request # q
      BY <1>6 DEF CodeWaiters
    <3>2. \A p \in CodeCallers : codeRequest'[p].state = codeRequest[p].state
      BY <2>2
    <3> HIDE DEF q
    <3> QED
      BY <1>2, <2>2, <3>1, <3>2 DEF CodeIInv, CodeCallersSound, Downloading, CodeResumable
  <2> QED
    BY <1>3, <2>4, <2>5, <2>6, <2>7, SameCache DEF CodeIInv
<1>7. CASE ~(CodeWaiters(q) = {c} /\ downloads[h] = q)
  <2>1. UNCHANGED <<downloads, codeRequest>>
    BY <1>7 DEF ResumeCode
  <2>2. CodeTypeOK'
    BY <1>2, <1>3, <2>1, SameCache DEF CodeIInv, CodeTypeOK
  <2>3. CodeRequestsSound'
    <3> SUFFICES ASSUME NEW p \in CodeCallers, Downloading(p)
                 PROVE  /\ codeRequest[p].hash \in Hashes /\ downloads[codeRequest[p].hash] = p
                        /\ CodeWaiters(p)' # {}
      BY <2>1 DEF CodeRequestsSound, Downloading
    <3>1. /\ codeRequest[p].hash \in Hashes /\ downloads[codeRequest[p].hash] = p
          /\ CodeWaiters(p) # {}
      BY DEF CodeIInv, CodeRequestsSound
    <3>2. CASE p = q
      BY <1>4, <1>7, <3>1, <3>2
    <3>3. CASE p # q
      BY <1>4, <1>5, <3>1, <3>3
    <3> QED
      BY <3>1, <3>2, <3>3
  <2>4. DownloadsSound'
    BY <1>3, <2>1, SameCache DEF CodeIInv, DownloadsSound, Downloading
  <2>5. CodeCallersSound'
    BY <1>2, <2>1 DEF CodeIInv, CodeCallersSound, Downloading, CodeResumable
  <2> QED
    BY <1>3, <2>2, <2>3, <2>4, <2>5, SameCache DEF CodeIInv
<1> QED
  BY <1>6, <1>7

\* A request settles, and may have stored its code.
LEMMA SettlesIInv ==
  ASSUME CodeIInv, NEW q \in CodeCallers, NEW stage \in CodeResumable,
         codeRequest[q].state = "sent", DownloadSettles(q), WakeCode(q, stage),
         BudgetKept', codes' \in Seq(Hashes), codeBytes' \in Nat,
         \A k \in Hashes : Contains(codes', k) =>
             Contains(codes, k) \/ (Downloading(q) /\ k = codeRequest[q].hash)
  PROVE  CodeIInv'
<1> USE NoDownloadAssumption
<1>1. /\ codeRequest' \in [CodeCallers -> [state : {"none", "sent", "done"},
                                           hash : Hashes \cup {NoDownload}, aborted : BOOLEAN]]
      /\ codeRequest'[q].state = "done"
      /\ \A p \in CodeCallers \ {q} : codeRequest'[p] = codeRequest[p]
  BY DEF DownloadSettles, CodeIInv, CodeTypeOK
<1>2. /\ downloads' \in [Hashes -> CodeCallers \cup {NoDownload}]
      /\ \A h \in Hashes : downloads'[h] = IF downloads[h] = q THEN NoDownload ELSE downloads[h]
  BY DEF DownloadSettles, CodeIInv, CodeTypeOK
<1>3. /\ codeCaller' \in [CodeCallers -> [stage : {"idle", "await", "done"} \cup CodeResumable,
                                          request : CodeCallers \cup {NoDownload}]]
      /\ \A c \in CodeCallers :
            /\ codeCaller'[c].request = codeCaller[c].request
            /\ codeCaller'[c].stage = IF codeCaller[c].request = q /\ codeCaller[c].stage = "await"
                                      THEN stage ELSE codeCaller[c].stage
  <2>1. ASSUME NEW c \in CodeCallers
        PROVE  /\ codeCaller'[c] \in [stage : {"idle", "await", "done"} \cup CodeResumable,
                                      request : CodeCallers \cup {NoDownload}]
               /\ codeCaller'[c].request = codeCaller[c].request
               /\ codeCaller'[c].stage =
                     IF codeCaller[c].request = q /\ codeCaller[c].stage = "await"
                     THEN stage ELSE codeCaller[c].stage
    BY DEF WakeCode, CodeIInv, CodeTypeOK
  <2>2. codeCaller' = [c \in CodeCallers |-> codeCaller'[c]]
    BY DEF WakeCode
  <2> QED
    BY <2>1, <2>2
<1>4. CodeTypeOK'
  BY <1>1, <1>2, <1>3 DEF CodeTypeOK
<1>5. CodeRequestsSound'
  <2> SUFFICES ASSUME NEW p \in CodeCallers, Downloading(p)'
               PROVE  /\ codeRequest'[p].hash \in Hashes /\ downloads'[codeRequest'[p].hash] = p
                      /\ CodeWaiters(p)' # {}
    BY DEF CodeRequestsSound
  <2>1. p # q /\ codeRequest'[p] = codeRequest[p] /\ Downloading(p)
    BY <1>1 DEF Downloading
  <2>2. /\ codeRequest[p].hash \in Hashes /\ downloads[codeRequest[p].hash] = p
        /\ CodeWaiters(p) # {}
    BY <2>1 DEF CodeIInv, CodeRequestsSound
  <2>3. CodeWaiters(p) \subseteq CodeWaiters(p)'
    BY <1>3, <2>1 DEF CodeWaiters
  <2> QED
    BY <1>2, <2>1, <2>2, <2>3
<1>6. DownloadsSound'
  <2> SUFFICES ASSUME NEW h \in Hashes, downloads'[h] # NoDownload
               PROVE  /\ Downloading(downloads[h])' /\ codeRequest'[downloads'[h]].hash = h
                      /\ ~Contains(codes', h)
    BY DEF DownloadsSound, Downloading
  <2>1. downloads'[h] = downloads[h] /\ downloads[h] \in CodeCallers \ {q}
    BY <1>2 DEF CodeIInv, CodeTypeOK
  <2>2. /\ Downloading(downloads[h]) /\ codeRequest[downloads[h]].hash = h
        /\ ~Contains(codes, h)
    BY <2>1 DEF CodeIInv, DownloadsSound
  <2>3. Downloading(q) => codeRequest[q].hash # h
    BY <2>1 DEF CodeIInv, CodeRequestsSound
  <2>4. ~Contains(codes', h)
    BY <2>2, <2>3
  <2> QED
    BY <1>1, <2>1, <2>2, <2>4 DEF Downloading
<1>7. CodeCallersSound'
  <2> SUFFICES ASSUME NEW c \in CodeCallers
               PROVE  /\ codeCaller'[c].stage = "await" =>
                            codeCaller'[c].request \in CodeCallers /\ Downloading(codeCaller[c].request)'
                      /\ codeCaller'[c].stage = "idle" =>
                            codeCaller'[c].request = NoDownload /\ codeRequest'[c].state = "none"
                      /\ codeCaller'[c].stage \in CodeResumable => codeCaller'[c].request \in CodeCallers
    BY DEF CodeCallersSound, Downloading
  <2>1. /\ codeCaller[c].stage = "await" =>
              codeCaller[c].request \in CodeCallers /\ Downloading(codeCaller[c].request)
        /\ codeCaller[c].stage = "idle" =>
              codeCaller[c].request = NoDownload /\ codeRequest[c].state = "none"
        /\ codeCaller[c].stage \in CodeResumable => codeCaller[c].request \in CodeCallers
    BY DEF CodeIInv, CodeCallersSound
  <2>2. stage # "await" /\ stage # "idle"
    BY DEF CodeResumable
  <2> QED
    BY <1>1, <1>3, <2>1, <2>2 DEF Downloading
<1> QED
  BY <1>4, <1>5, <1>6, <1>7 DEF CodeIInv

LEMMA ReceiveCodeIInv ==
  ASSUME CodeIInv, NEW q \in CodeCallers, ReceiveCode(q)
  PROVE  CodeIInv'
<1> DEFINE h == codeRequest[q].hash
<1>1. Downloading(q) /\ DownloadSettles(q) /\ cacheCode(h) /\ WakeCode(q, "got")
  BY DEF ReceiveCode, Downloading
<1>2. codeRequest[q].state = "sent" /\ h \in Hashes
  BY <1>1 DEF CodeIInv, CodeRequestsSound, Downloading
<1>3. BudgetKept /\ CodeList(codes)
  BY DEF CodeIInv, CodeTypeOK, BudgetKept, CodeList
<1>4. /\ BudgetKept' /\ codes' \in Seq(Hashes) /\ codeBytes' \in Nat
      /\ ToSet(codes') \subseteq ToSet(codes) \cup {h}
  <2> HIDE DEF h
  <2> QED
    BY <1>1, <1>2, <1>3, CacheCodeKeeps
<1>5. ASSUME NEW k \in Hashes, Contains(codes', k) PROVE Contains(codes, k) \/ k = h
  <2>1. ASSUME NEW p, CodeList(p) PROVE Contains(p, k) <=> k \in ToSet(p)
    BY <2>1, CodeListFinite
  <2>2. CodeList(codes')
    BY <1>4 DEF BudgetKept, CodeList
  <2> QED
    BY <1>3, <1>4, <1>5, <2>1, <2>2
<1>6. "got" \in CodeResumable
  BY DEF CodeResumable
<1> QED
  BY <1>1, <1>2, <1>4, <1>5, <1>6, SettlesIInv

LEMMA DownloadFailsIInv ==
  ASSUME CodeIInv, NEW q \in CodeCallers, DownloadFails(q)
  PROVE  CodeIInv'
<1>1. UNCHANGED <<codes, codeBytes>> /\ DownloadSettles(q) /\ codeRequest[q].state = "sent"
  BY DEF DownloadFails
<1>2. PICK stage \in CodeResumable : WakeCode(q, stage)
  BY DEF DownloadFails, CodeResumable
<1> QED
  BY <1>1, <1>2, SameCache, SettlesIInv

THEOREM CodeInvariance == CodeSpec => []CodeIInv
<1>1. CodeIInv /\ [CodeNext]_codeVars => CodeIInv'
  <2> SUFFICES ASSUME CodeIInv, [CodeNext]_codeVars PROVE CodeIInv'
    OBVIOUS
  <2>1. ASSUME NEW c \in CodeCallers, NEW h \in Hashes, FetchByHash(c, h) PROVE CodeIInv'
    BY <2>1, FetchByHashIInv
  <2>2. ASSUME NEW c \in CodeCallers, AbortDownload(c) \/ ResumeCode(c) PROVE CodeIInv'
    BY <2>2, AbortDownloadIInv, ResumeCodeIInv
  <2>3. ASSUME NEW q \in CodeCallers, ReceiveCode(q) \/ DownloadFails(q) PROVE CodeIInv'
    BY <2>3, ReceiveCodeIInv, DownloadFailsIInv
  <2>4. CASE UNCHANGED codeVars
    BY <2>4 DEF codeVars, CodeIInv, CodeTypeOK, BudgetKept, CodeRequestsSound, DownloadsSound,
                CodeCallersSound, Downloading, CodeWaiters
  <2> QED
    BY <2>1, <2>2, <2>3, <2>4 DEF CodeNext
<1> QED
  BY <1>1, CodeInitIInv, PTL DEF CodeSpec

\* However downloads end, fail, join and are left, and whatever the codes weigh: the bytes of the
\* code cache are counted exactly and within the limit, a hash has one request, which somebody
\* wants, and what is cached is not downloaded again.
THEOREM CodesAreKept == CodeSpec => []CodeCacheSound
<1>1. CodeIInv => CodeCacheSound
  BY DEF CodeIInv, CodeRequestsSound, DownloadsSound, CodeCallersSound, Downloading, BudgetKept,
         OneRequestPerHash, CodeCacheSound
<1> QED
  BY <1>1, CodeInvariance, PTL
=============================================================================
