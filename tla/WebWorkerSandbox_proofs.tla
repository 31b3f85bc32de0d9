----------------------- MODULE WebWorkerSandbox_proofs -----------------------
(***************************************************************************)
(* Theorems about WebWorkerSandbox, for any set of calls, any size of the   *)
(* queue and a worker that may answer anything: no call is lost or held     *)
(* twice, workers do not leak, the executor implements the contract of its  *)
(* interface, and once disposed it stays so.                               *)
(***************************************************************************)
EXTENDS QuickJsSystem, SequenceTheorems, FiniteSetTheorems, TLAPS

Distinct(q) == \A i, j \in DOMAIN q : q[i] = q[j] => i = j

\* The calls that wait for an outcome are those that are held, each once.
Running(s, c) == s.running # NoRun /\ s.running.call = c

Held(s) ==
    /\ \A c \in Calls : s.outcome[c] = "pending" <=> Running(s, c) \/ c \in ToSet(s.queue)
    /\ \A c \in Calls : ~(Running(s, c) /\ c \in ToSet(s.queue))
    /\ Distinct(s.queue)
    /\ s.again = {}

\* A worker is attached while it is initialised or ready, and only it is alive.
Attached(s) ==
    /\ s.live = IF s.worker = 0 THEN {} ELSE {s.worker}
    /\ s.status \in {"initializing", "ready"} <=> s.worker # 0
    /\ s.status = "initializing" <=> s.init = "loading"

\* Who waits for the worker: the continuations that are due, then those of the init promise.
Jobs == [waiter : Waiters, ok : BOOLEAN]
Due(jobs) == [i \in 1..Len(jobs) |-> jobs[i].waiter]
Awaiting(s) == Due(s.jobs) \o s.waiters

OwnersOf(list) == {c \in Calls : \E i \in DOMAIN list : list[i] = Owner(c)}
OwnersOnce(list) == \A i, j \in DOMAIN list : list[i] = list[j] /\ list[i] # Drainer => i = j

\* A call waits as the owner of the slot once, and has not been sent.
Owners(s) ==
    /\ \A c \in OwnersOf(Awaiting(s)) :
          s.outcome[c] # "idle" /\ c \notin ToSet(s.queue) /\ (Running(s, c) => ~s.running.posted)
    /\ OwnersOnce(Awaiting(s))

\* A call whose signal has fired is settled, or its cancel has been sent.
AbortsSeen(s, A) ==
    /\ s.running # NoRun /\ s.running.cancelling => s.running.posted
    /\ \A c \in A : s.outcome[c] = "pending" => Running(s, c) /\ s.running.cancelling

Sound(s, A) == s \in Executors /\ Held(s) /\ Attached(s) /\ Owners(s) /\ AbortsSeen(s, A)

\* The inductive invariant.
IInv == aborted \subseteq Calls /\ Sound(exec, aborted)

\* What a handler may settle: calls that are pending, and with a commit only those not aborted.
Rejects(s, t) ==
    \A c \in Calls : t.outcome[c] # s.outcome[c] =>
        s.outcome[c] = "pending" /\ t.outcome[c] \in {"cancelled", "runtime"}

Answers(s, t, A) ==
    \A c \in Calls : t.outcome[c] # s.outcome[c] =>
        /\ s.outcome[c] = "pending" /\ t.outcome[c] \in Kinds
        /\ t.outcome[c] \in {"cancelled", "runtime"} \/ c \notin A

\* No handler but dispose() gives the executor up.
Stands(s, t) == t.status = "disposed" => s.status = "disposed"

Fails(s, t) == Rejects(s, t) /\ Stands(s, t)
Settles(s, t, A) == Answers(s, t, A) /\ Stands(s, t)

-----------------------------------------------------------------------------
(* Queues.                                                                 *)

LEMMA Appended ==
  ASSUME NEW T, NEW q \in Seq(T), Distinct(q), NEW c \in T, c \notin ToSet(q)
  PROVE  /\ Append(q, c) \in Seq(T)
         /\ Distinct(Append(q, c))
         /\ ToSet(Append(q, c)) = ToSet(q) \cup {c}
<1> DEFINE p == Append(q, c)
<1>1. p \in Seq(T) /\ DOMAIN p = 1..(Len(q) + 1) /\ DOMAIN q = 1..Len(q) /\ Len(q) \in Nat
  OBVIOUS
<1>2. \A i \in 1..Len(q) : p[i] = q[i] /\ q[i] # c
  BY DEF ToSet
<1>3. p[Len(q) + 1] = c
  OBVIOUS
<1> HIDE DEF p
<1>4. Distinct(p)
  BY <1>1, <1>2, <1>3 DEF Distinct
<1>5. ToSet(p) = ToSet(q) \cup {c}
  <2>1. ASSUME NEW x \in ToSet(p) PROVE x \in ToSet(q) \cup {c}
    BY <1>1, <1>2, <1>3 DEF ToSet
  <2>2. ASSUME NEW x \in ToSet(q) PROVE x \in ToSet(p)
    BY <1>1, <1>2 DEF ToSet
  <2>3. c \in ToSet(p)
    BY <1>1, <1>3 DEF ToSet
  <2> QED
    BY <2>1, <2>2, <2>3
<1> QED
  BY <1>1, <1>4, <1>5 DEF p

\* A stretch of a queue.
LEMMA Stretch ==
  ASSUME NEW q \in Seq(Calls), NEW m \in Nat, NEW n \in Nat, m >= 1, n <= Len(q)
  PROVE  /\ SubSeq(q, m, n) \in Seq(Calls)
         /\ ToSet(SubSeq(q, m, n)) = {q[i] : i \in m..n}
         /\ Distinct(q) => Distinct(SubSeq(q, m, n))
<1> DEFINE p == SubSeq(q, m, n)
           l == IF m <= n THEN n - m + 1 ELSE 0
<1>1. p \in Seq(Calls) /\ DOMAIN q = 1..Len(q) /\ Len(q) \in Nat
  OBVIOUS
<1>2. DOMAIN p = 1..l /\ \A i \in 1..l : p[i] = q[m + i - 1]
  OBVIOUS
<1> HIDE DEF p
<1>3. ASSUME Distinct(q), NEW i \in DOMAIN p, NEW j \in DOMAIN p, p[i] = p[j]
      PROVE  i = j
  <2>1. m + i - 1 \in DOMAIN q /\ m + j - 1 \in DOMAIN q
    BY <1>1, <1>2
  <2>2. q[m + i - 1] = q[m + j - 1]
    BY <1>2, <1>3
  <2>3. m + i - 1 = m + j - 1
    BY <1>3, <2>1, <2>2 DEF Distinct
  <2> QED
    BY <1>2, <2>3
<1>4. ToSet(p) = {q[i] : i \in m..n}
  <2>1. ASSUME NEW x \in ToSet(p) PROVE x \in {q[i] : i \in m..n}
    <3>1. PICK i \in 1..l : x = q[m + i - 1]
      BY <1>2 DEF ToSet
    <3>2. m + i - 1 \in m..n
      OBVIOUS
    <3> QED
      BY <3>1, <3>2
  <2>2. ASSUME NEW i \in m..n PROVE q[i] \in ToSet(p)
    <3>1. i - m + 1 \in 1..l /\ m + (i - m + 1) - 1 = i
      OBVIOUS
    <3>2. p[i - m + 1] = q[i]
      BY <1>2, <3>1
    <3> QED
      BY <1>2, <3>1, <3>2 DEF ToSet
  <2> QED
    BY <2>1, <2>2
<1> QED
  BY <1>1, <1>3, <1>4 DEF p, Distinct

\* What remains behind the entry k + 1 of a queue.
LEMMA Suffix ==
  ASSUME NEW q \in Seq(Calls), Distinct(q), NEW k \in Nat, k < Len(q)
  PROVE  LET rest == SubSeq(q, k + 2, Len(q))
             gone == SubSeq(q, 1, k)
         IN  /\ rest \in Seq(Calls) /\ Distinct(rest)
             /\ q[k + 1] \in Calls /\ q[k + 1] \in ToSet(q)
             /\ q[k + 1] \notin ToSet(rest) /\ q[k + 1] \notin ToSet(gone)
             /\ ToSet(gone) \cap ToSet(rest) = {}
             /\ ToSet(q) = ToSet(gone) \cup {q[k + 1]} \cup ToSet(rest)
<1> DEFINE rest == SubSeq(q, k + 2, Len(q))
           gone == SubSeq(q, 1, k)
<1>1. Len(q) \in Nat /\ DOMAIN q = 1..Len(q) /\ k + 1 \in 1..Len(q) /\ k + 2 \in Nat
  OBVIOUS
<1>2. /\ rest \in Seq(Calls) /\ Distinct(rest)
      /\ ToSet(rest) = {q[i] : i \in (k + 2)..Len(q)}
  <2>1. k + 2 >= 1 /\ Len(q) <= Len(q)
    BY <1>1
  <2> QED
    BY <1>1, <2>1, Stretch
<1>3. ToSet(gone) = {q[i] : i \in 1..k}
  BY <1>1, Stretch
<1>4. ToSet(q) = {q[i] : i \in 1..Len(q)} /\ \A i, j \in 1..Len(q) : q[i] = q[j] => i = j
  BY <1>1 DEF Distinct, ToSet
<1> HIDE DEF rest, gone
<1>5. q[k + 1] \in Calls /\ q[k + 1] \in ToSet(q)
  BY <1>1, <1>4
<1>6. q[k + 1] \notin ToSet(rest) /\ q[k + 1] \notin ToSet(gone) /\ ToSet(gone) \cap ToSet(rest) = {}
  BY <1>1, <1>2, <1>3, <1>4
<1>7. ToSet(q) = ToSet(gone) \cup {q[k + 1]} \cup ToSet(rest)
  <2>1. 1..Len(q) = 1..k \cup {k + 1} \cup (k + 2)..Len(q)
    BY <1>1
  <2> QED
    BY <1>2, <1>3, <1>4, <2>1
<1> QED
  BY <1>2, <1>5, <1>6, <1>7 DEF rest, gone

\* The queue without its entry i.
LEMMA Removed ==
  ASSUME NEW T, NEW q \in Seq(T), Distinct(q), NEW i \in DOMAIN q
  PROVE  /\ RemoveAt(q, i) \in Seq(T)
         /\ Distinct(RemoveAt(q, i))
         /\ ToSet(RemoveAt(q, i)) = ToSet(q) \ {q[i]}
<1> DEFINE p == RemoveAt(q, i)
           from(j) == IF j < i THEN j ELSE j + 1
<1>1. DOMAIN q = 1..Len(q) /\ Len(q) \in Nat /\ i \in 1..Len(q)
  OBVIOUS
<1>2. p \in Seq(T) /\ DOMAIN p = 1..(Len(q) - 1)
  <2>1. SubSeq(q, 1, i - 1) \in Seq(T) /\ Len(SubSeq(q, 1, i - 1)) = i - 1
    BY <1>1
  <2>2. SubSeq(q, i + 1, Len(q)) \in Seq(T) /\ Len(SubSeq(q, i + 1, Len(q))) = Len(q) - i
    BY <1>1
  <2>3. p = SubSeq(q, 1, i - 1) \o SubSeq(q, i + 1, Len(q))
    BY DEF RemoveAt
  <2> QED
    BY <1>1, <2>1, <2>2, <2>3, ConcatProperties
<1>3. ASSUME NEW j \in 1..(Len(q) - 1) PROVE p[j] = q[from(j)]
  <2> DEFINE front == SubSeq(q, 1, i - 1)
             back == SubSeq(q, i + 1, Len(q))
  <2>1. /\ front \in Seq(T) /\ Len(front) = i - 1
        /\ \A m \in 1..(i - 1) : front[m] = q[m]
        /\ back \in Seq(T) /\ Len(back) = Len(q) - i
        /\ \A m \in 1..(Len(q) - i) : back[m] = q[i + m]
    <3>1. /\ front \in Seq(T) /\ Len(front) = i - 1
          /\ \A m \in 1..(i - 1) : front[m] = q[1 + m - 1]
      BY <1>1, SubSeqProperties
    <3>2. /\ back \in Seq(T) /\ Len(back) = Len(q) - i
          /\ \A m \in 1..(Len(q) - i) : back[m] = q[(i + 1) + m - 1]
      BY <1>1, SubSeqProperties, SMTT(30)
    <3>3. /\ \A m \in 1..(i - 1) : 1 + m - 1 = m
          /\ \A m \in 1..(Len(q) - i) : (i + 1) + m - 1 = i + m
      BY <1>1
    <3> HIDE DEF front, back
    <3> QED
      BY <3>1, <3>2, <3>3, Zenon
  <2>2. p = front \o back
    BY DEF RemoveAt
  <2> HIDE DEF front, back, p
  <2>3. CASE j < i
    BY <1>1, <2>1, <2>2, <2>3
  <2>4. CASE j >= i
    <3>1. j - (i - 1) \in 1..(Len(q) - i) /\ i + (j - (i - 1)) = j + 1
      BY <1>1, <2>4
    <3>2. j \in 1..(Len(front) + Len(back)) /\ ~(j <= Len(front)) /\ j - Len(front) = j - (i - 1)
      BY <1>1, <2>1, <2>4
    <3>3. (front \o back)[j] = back[j - Len(front)]
      BY <2>1, <3>2, ConcatProperties
    <3>4. back[j - (i - 1)] = q[i + (j - (i - 1))]
      BY <2>1, <3>1
    <3>5. from(j) = j + 1
      BY <1>1, <2>4
    <3> QED
      BY <2>2, <3>1, <3>2, <3>3, <3>4, <3>5
  <2> QED
    BY <1>1, <2>3, <2>4
<1>4. /\ \A j \in 1..(Len(q) - 1) : from(j) \in 1..Len(q) /\ from(j) # i
      /\ \A m, n \in 1..(Len(q) - 1) : from(m) = from(n) => m = n
      /\ \A m \in 1..Len(q) : m # i => \E j \in 1..(Len(q) - 1) : from(j) = m
  <2>1. ASSUME NEW m \in 1..Len(q), m # i PROVE \E j \in 1..(Len(q) - 1) : from(j) = m
    <3>1. CASE m < i
      BY <1>1, <3>1
    <3>2. CASE m > i
      <4>1. m - 1 \in 1..(Len(q) - 1) /\ from(m - 1) = m
        BY <1>1, <3>2
      <4> QED
        BY <4>1
    <3> QED
      BY <1>1, <2>1, <3>1, <3>2
  <2> QED
    BY <1>1, <2>1
<1> HIDE DEF p, from
<1>5. Distinct(p)
  BY <1>1, <1>2, <1>3, <1>4 DEF Distinct
<1>6. ToSet(p) = ToSet(q) \ {q[i]}
  <2>1. ASSUME NEW x \in ToSet(p) PROVE x \in ToSet(q) \ {q[i]}
    BY <1>1, <1>2, <1>3, <1>4 DEF Distinct, ToSet
  <2>2. ASSUME NEW x \in ToSet(q), x # q[i] PROVE x \in ToSet(p)
    <3>1. PICK m \in 1..Len(q) : x = q[m]
      BY <1>1 DEF ToSet
    <3>2. PICK j \in 1..(Len(q) - 1) : from(j) = m
      BY <1>4, <2>2, <3>1
    <3> QED
      BY <1>2, <1>3, <3>1, <3>2 DEF ToSet
  <2> QED
    BY <2>1, <2>2
<1> QED
  BY <1>2, <1>5, <1>6 DEF p

-----------------------------------------------------------------------------
(* The parts of an executor state that a handler leaves alone.             *)

\* Everything but the slot, the queue, the outcomes and the messages to the worker.
Frame(s, t) ==
    /\ t.status = s.status /\ t.generation = s.generation /\ t.worker = s.worker
    /\ t.live = s.live /\ t.init = s.init /\ t.waiters = s.waiters /\ t.jobs = s.jobs
    /\ t.again = s.again

LEMMA FrameKeeps ==
  ASSUME NEW s, NEW t, Frame(s, t)
  PROVE  /\ Attached(s) => Attached(t)
         /\ Awaiting(t) = Awaiting(s)
BY DEF Frame, Attached, Awaiting

\* A run names a call and is not NoRun.
LEMMA RunShape ==
  ASSUME NEW run \in Runs
  PROVE  run # NoRun /\ run.call \in Calls /\ run.posted \in BOOLEAN /\ run.cancelling \in BOOLEAN
BY NoRunAssumption DEF Runs

\* settling calls that are all pending changes their outcomes and nothing else.
LEMMA SettleEffect ==
  ASSUME NEW s \in Executors, NEW C \in SUBSET Calls, NEW kind \in Kinds,
         \A c \in C : s.outcome[c] = "pending"
  PROVE  LET t == Settle(s, C, kind) IN
         /\ t \in Executors
         /\ Frame(s, t)
         /\ t.running = s.running /\ t.queue = s.queue /\ t.outbox = s.outbox
         /\ t.outcome = [c \in Calls |-> IF c \in C THEN kind ELSE s.outcome[c]]
<1> DEFINE t == Settle(s, C, kind)
           o == [c \in Calls |-> IF c \in C /\ s.outcome[c] = "pending" THEN kind ELSE s.outcome[c]]
           again == s.again \cup {c \in C : s.outcome[c] # "pending"}
<1>1. t = [s EXCEPT !.outcome = o, !.again = again]
  BY DEF Settle
<1>2. o \in [Calls -> {"idle", "pending"} \cup Kinds]
      /\ o = [c \in Calls |-> IF c \in C THEN kind ELSE s.outcome[c]]
  BY DEF Executors
<1>3. again = s.again /\ again \in SUBSET Calls
  BY DEF Executors
<1> HIDE DEF t, o, again
<1>4. t \in Executors
  BY <1>1, <1>2, <1>3 DEF Executors
<1>5. /\ Frame(s, t)
      /\ t.running = s.running /\ t.queue = s.queue /\ t.outbox = s.outbox /\ t.outcome = o
  BY <1>1, <1>3 DEF Executors, Frame
<1> QED
  BY <1>2, <1>4, <1>5 DEF t

-----------------------------------------------------------------------------
(* Who waits for the worker.                                               *)

LEMMA WaiterShape ==
  /\ Drainer \in Waiters
  /\ \A c \in Calls : Owner(c) \in Waiters /\ Owner(c) # Drainer
  /\ \A c, d \in Calls : Owner(c) = Owner(d) => c = d
  /\ \A x \in Waiters : x.role = "owner" => \E c \in Calls : x = Owner(c) /\ x.call = c
  /\ \A x \in Waiters : x.role # "owner" => x = Drainer
<1>1. Drainer.role = "drain" /\ \A c : Owner(c).role = "owner" /\ Owner(c).call = c
  BY DEF Owner, Drainer
<1>2. \A x \in Waiters : x = Drainer \/ \E c \in Calls : x = Owner(c)
  BY DEF Waiters
<1>3. Drainer \in Waiters /\ \A c \in Calls : Owner(c) \in Waiters
  BY DEF Waiters
<1> QED
  BY <1>1, <1>2, <1>3

\* Another waiter joins.
LEMMA Joined ==
  ASSUME NEW list \in Seq(Waiters), NEW x \in Waiters
  PROVE  /\ Append(list, x) \in Seq(Waiters)
         /\ OwnersOf(Append(list, x)) = OwnersOf(list) \cup {c \in Calls : x = Owner(c)}
         /\ OwnersOnce(list) /\ (\A c \in OwnersOf(list) : x # Owner(c)) =>
               OwnersOnce(Append(list, x))
<1> DEFINE more == Append(list, x)
           n == Len(list)
<1>1. /\ more \in Seq(Waiters) /\ n \in Nat /\ DOMAIN list = 1..n /\ DOMAIN more = 1..(n + 1)
      /\ \A i \in 1..n : more[i] = list[i]
      /\ more[n + 1] = x
  OBVIOUS
<1> HIDE DEF more, n
<1>2. 1..(n + 1) = 1..n \cup {n + 1}
  BY <1>1
<1>3. OwnersOf(more) = OwnersOf(list) \cup {c \in Calls : x = Owner(c)}
  BY <1>1, <1>2 DEF OwnersOf
<1>4. ASSUME OwnersOnce(list), \A c \in OwnersOf(list) : x # Owner(c)
      PROVE  OwnersOnce(more)
  <2>1. ASSUME NEW i \in 1..n, list[i] = x PROVE x = Drainer
    <3>1. ASSUME NEW c \in Calls, x = Owner(c) PROVE FALSE
      BY <1>1, <1>4, <2>1, <3>1 DEF OwnersOf
    <3> QED
      BY <3>1, WaiterShape
  <2> QED
    BY <1>1, <1>2, <1>4, <2>1 DEF OwnersOnce
<1> QED
  BY <1>1, <1>3, <1>4 DEF more

\* The first one is taken.
LEMMA Taken ==
  ASSUME NEW list \in Seq(Waiters), list # <<>>, OwnersOnce(list)
  PROVE  /\ OwnersOf(Tail(list)) \subseteq OwnersOf(list)
         /\ OwnersOnce(Tail(list))
         /\ \A c \in Calls : Head(list) = Owner(c) => c \in OwnersOf(list) /\ c \notin OwnersOf(Tail(list))
<1> DEFINE rest == Tail(list)
           n == Len(list)
<1>1. /\ n \in Nat \ {0} /\ DOMAIN list = 1..n /\ DOMAIN rest = 1..(n - 1)
      /\ \A i \in 1..(n - 1) : rest[i] = list[i + 1] /\ i + 1 \in 1..n /\ i + 1 # 1
      /\ Head(list) = list[1] /\ 1 \in 1..n
  <2>1. n \in Nat \ {0} /\ DOMAIN list = 1..n
    BY EmptySeq, LenProperties
  <2>2. /\ rest \in Seq(Waiters) /\ Len(rest) = n - 1
        /\ \A i \in 1..Len(rest) : rest[i] = list[i + 1]
    BY HeadTailProperties
  <2>3. DOMAIN rest = 1..Len(rest)
    BY <2>2, LenProperties
  <2> HIDE DEF rest, n
  <2>4. Head(list) = list[1]
    OBVIOUS
  <2> QED
    BY <2>1, <2>2, <2>3, <2>4
<1> HIDE DEF rest, n
<1>2. OwnersOf(rest) \subseteq OwnersOf(list)
  BY <1>1 DEF OwnersOf
<1>3. ASSUME NEW i \in DOMAIN rest, NEW j \in DOMAIN rest, rest[i] = rest[j], rest[i] # Drainer
      PROVE  i = j
  <2>1. i + 1 = j + 1
    BY <1>1, <1>3 DEF OwnersOnce
  <2> QED
    BY <1>1, <2>1
<1>4. ASSUME NEW c \in Calls, Head(list) = Owner(c)
      PROVE  c \in OwnersOf(list) /\ c \notin OwnersOf(rest)
  <2>1. list[1] = Owner(c) /\ list[1] # Drainer
    BY <1>1, <1>4, WaiterShape
  <2>2. ASSUME NEW i \in DOMAIN rest, rest[i] = Owner(c) PROVE FALSE
    BY <1>1, <2>1, <2>2 DEF OwnersOnce
  <2> QED
    BY <1>1, <2>1, <2>2 DEF OwnersOf
<1> QED
  BY <1>2, <1>3, <1>4 DEF rest, OwnersOnce

LEMMA DueShape ==
  ASSUME NEW jobs \in Seq(Jobs)
  PROVE  /\ Due(jobs) \in Seq(Waiters)
         /\ Len(Due(jobs)) = Len(jobs)
         /\ \A i \in 1..Len(jobs) : Due(jobs)[i] = jobs[i].waiter
<1>1. Len(jobs) \in Nat /\ \A i \in 1..Len(jobs) : jobs[i] \in Jobs
  BY LenProperties, ElementOfSeq
<1>2. \A x \in Jobs : x.waiter \in Waiters
  BY DEF Jobs
<1>3. Due(jobs) \in [1..Len(jobs) -> Waiters]
  BY <1>1, <1>2, Zenon DEF Due
<1>4. Due(jobs) \in Seq(Waiters)
  BY <1>1, <1>3, SeqDef
<1>5. DOMAIN Due(jobs) = 1..Len(jobs) /\ DOMAIN Due(jobs) = 1..Len(Due(jobs)) /\ Len(Due(jobs)) \in Nat
  BY <1>3, <1>4, LenProperties
<1>6. Len(Due(jobs)) = Len(jobs)
  BY <1>1, <1>5
<1> QED
  BY <1>4, <1>6 DEF Due

LEMMA DueTail ==
  ASSUME NEW jobs \in Seq(Jobs), jobs # <<>>
  PROVE  /\ Tail(jobs) \in Seq(Jobs) /\ Head(jobs) \in Jobs
         /\ Due(jobs) # <<>>
         /\ Head(Due(jobs)) = Head(jobs).waiter
         /\ Due(Tail(jobs)) = Tail(Due(jobs))
<1>1. /\ Tail(jobs) \in Seq(Jobs) /\ Head(jobs) \in Jobs /\ Len(Tail(jobs)) = Len(jobs) - 1
      /\ \A i \in 1..Len(Tail(jobs)) : Tail(jobs)[i] = jobs[i + 1]
      /\ Len(jobs) \in Nat \ {0}
  BY HeadTailProperties, EmptySeq, SMTT(30)
<1>2. /\ Due(jobs) \in Seq(Waiters) /\ Len(Due(jobs)) = Len(jobs)
      /\ \A i \in 1..Len(jobs) : Due(jobs)[i] = jobs[i].waiter
      /\ Due(Tail(jobs)) \in Seq(Waiters) /\ Len(Due(Tail(jobs))) = Len(Tail(jobs))
      /\ \A i \in 1..Len(Tail(jobs)) : Due(Tail(jobs))[i] = Tail(jobs)[i].waiter
  BY <1>1, DueShape
<1>3. Due(jobs) # <<>>
  BY <1>1, <1>2, EmptySeq
<1>4. /\ Tail(Due(jobs)) \in Seq(Waiters) /\ Len(Tail(Due(jobs))) = Len(jobs) - 1
      /\ \A i \in 1..(Len(jobs) - 1) : Tail(Due(jobs))[i] = Due(jobs)[i + 1]
  BY <1>2, <1>3, HeadTailProperties
<1>5. Head(Due(jobs)) = Due(jobs)[1] /\ Head(jobs) = jobs[1]
  <2>1. \A list \in Seq(Waiters) : Head(list) = list[1]
    OBVIOUS
  <2>2. \A list \in Seq(Jobs) : Head(list) = list[1]
    OBVIOUS
  <2> QED
    BY <1>2, <2>1, <2>2
<1>6. \A i \in 1..Len(Due(Tail(jobs))) : Due(Tail(jobs))[i] = Tail(Due(jobs))[i]
  BY <1>1, <1>2, <1>4
<1>7. Due(Tail(jobs)) = Tail(Due(jobs))
  BY <1>1, <1>2, <1>4, <1>6, SeqEqual
<1> QED
  BY <1>1, <1>2, <1>3, <1>5, <1>7

LEMMA DueConcat ==
  ASSUME NEW jobs \in Seq(Jobs), NEW more \in Seq(Jobs)
  PROVE  jobs \o more \in Seq(Jobs) /\ Due(jobs \o more) = Due(jobs) \o Due(more)
<1> DEFINE both == jobs \o more
<1>1. /\ both \in Seq(Jobs) /\ Len(both) = Len(jobs) + Len(more)
      /\ \A i \in 1..(Len(jobs) + Len(more)) :
            both[i] = IF i <= Len(jobs) THEN jobs[i] ELSE more[i - Len(jobs)]
      /\ Len(jobs) \in Nat /\ Len(more) \in Nat
  BY ConcatProperties, LenProperties
<1> HIDE DEF both
<1>2. /\ Due(jobs) \in Seq(Waiters) /\ Len(Due(jobs)) = Len(jobs)
      /\ \A i \in 1..Len(jobs) : Due(jobs)[i] = jobs[i].waiter
      /\ Due(more) \in Seq(Waiters) /\ Len(Due(more)) = Len(more)
      /\ \A i \in 1..Len(more) : Due(more)[i] = more[i].waiter
      /\ Due(both) \in Seq(Waiters) /\ Len(Due(both)) = Len(both)
      /\ \A i \in 1..Len(both) : Due(both)[i] = both[i].waiter
  BY <1>1, DueShape
<1>3. /\ Due(jobs) \o Due(more) \in Seq(Waiters)
      /\ Len(Due(jobs) \o Due(more)) = Len(jobs) + Len(more)
      /\ \A i \in 1..(Len(jobs) + Len(more)) : (Due(jobs) \o Due(more))[i] =
            IF i <= Len(jobs) THEN Due(jobs)[i] ELSE Due(more)[i - Len(jobs)]
  <2> DEFINE a == Due(jobs)
             b == Due(more)
  <2> HIDE DEF a, b
  <2>1. a \in Seq(Waiters) /\ Len(a) = Len(jobs) /\ b \in Seq(Waiters) /\ Len(b) = Len(more)
    BY <1>2 DEF a, b
  <2>2. /\ a \o b \in Seq(Waiters) /\ Len(a \o b) = Len(a) + Len(b)
        /\ \A i \in 1..(Len(a) + Len(b)) :
              (a \o b)[i] = IF i <= Len(a) THEN a[i] ELSE b[i - Len(a)]
    BY <2>1, ConcatProperties, Zenon
  <2> QED
    BY <2>1, <2>2, Zenon DEF a, b
<1>4. ASSUME NEW i \in 1..Len(Due(both)) PROVE Due(both)[i] = (Due(jobs) \o Due(more))[i]
  <2>1. i \in 1..(Len(jobs) + Len(more)) /\ Due(both)[i] = both[i].waiter
    BY <1>1, <1>2
  <2>2. CASE i <= Len(jobs)
    <3>1. i \in 1..Len(jobs)
      BY <1>1, <2>1, <2>2
    <3> QED
      BY <1>1, <1>2, <1>3, <2>1, <2>2, <3>1
  <2>3. CASE ~(i <= Len(jobs))
    <3>1. i - Len(jobs) \in 1..Len(more)
      BY <1>1, <2>1, <2>3
    <3> QED
      BY <1>1, <1>2, <1>3, <2>1, <2>3, <3>1
  <2> QED
    BY <2>2, <2>3
<1>5. Due(both) = Due(jobs) \o Due(more)
  BY <1>1, <1>2, <1>3, <1>4, SeqEqual
<1> QED
  BY <1>1, <1>5 DEF both

\* The continuations of an init promise that settles.
Woken(list, ok) == [i \in 1..Len(list) |-> [waiter |-> list[i], ok |-> ok]]

LEMMA DueWoken ==
  ASSUME NEW list \in Seq(Waiters), NEW ok \in BOOLEAN
  PROVE  Woken(list, ok) \in Seq(Jobs) /\ Due(Woken(list, ok)) = list
<1> DEFINE woken == Woken(list, ok)
<1>1. Len(list) \in Nat /\ \A i \in 1..Len(list) : list[i] \in Waiters
  BY LenProperties, ElementOfSeq
<1>2. \A x \in Waiters : [waiter |-> x, ok |-> ok] \in Jobs /\ [waiter |-> x, ok |-> ok].waiter = x
  BY DEF Jobs
<1>3. woken \in [1..Len(list) -> Jobs]
  BY <1>1, <1>2, Zenon DEF Woken
<1>4. woken \in Seq(Jobs)
  BY <1>1, <1>3, SeqDef
<1>5. \A i \in 1..Len(list) : woken[i].waiter = list[i]
  BY <1>1, <1>2 DEF Woken
<1> HIDE DEF woken
<1>6. Len(woken) = Len(list)
  <2>1. DOMAIN woken = 1..Len(list) /\ DOMAIN woken = 1..Len(woken) /\ Len(woken) \in Nat
    BY <1>3, <1>4, LenProperties
  <2> QED
    BY <1>1, <2>1
<1>7. Due(woken) \in Seq(Waiters) /\ Len(Due(woken)) = Len(list) /\ \A i \in 1..Len(list) : Due(woken)[i] = list[i]
  BY <1>4, <1>5, <1>6, DueShape
<1>8. Due(woken) = list
  BY <1>7, SeqEqual
<1> QED
  BY <1>4, <1>8 DEF woken

LEMMA AwaitingShape ==
  ASSUME NEW s \in Executors
  PROVE  /\ s.jobs \in Seq(Jobs) /\ s.waiters \in Seq(Waiters)
         /\ Due(s.jobs) \in Seq(Waiters)
         /\ Awaiting(s) \in Seq(Waiters)
<1>1. s.jobs \in Seq(Jobs) /\ s.waiters \in Seq(Waiters)
  BY DEF Executors, Jobs
<1>2. Due(s.jobs) \in Seq(Waiters)
  BY <1>1, DueShape
<1> QED
  BY <1>1, <1>2, ConcatProperties DEF Awaiting

LEMMA AppendBehind ==
  ASSUME NEW S, NEW a \in Seq(S), NEW b \in Seq(S), NEW x \in S
  PROVE  a \o Append(b, x) = Append(a \o b, x)
<1>1. <<x>> \in Seq(S) /\ a \o b \in Seq(S)
  OBVIOUS
<1>2. Append(b, x) = b \o <<x>> /\ Append(a \o b, x) = (a \o b) \o <<x>>
  BY <1>1, AppendIsConcat
<1>3. (a \o b) \o <<x>> = a \o (b \o <<x>>)
  BY <1>1, SMT
<1> QED
  BY <1>2, <1>3

LEMMA AwaitingJoined ==
  ASSUME NEW s \in Executors, NEW t, NEW x \in Waiters, t.jobs = s.jobs, t.waiters = Append(s.waiters, x)
  PROVE  Awaiting(t) = Append(Awaiting(s), x)
<1> DEFINE a == Due(s.jobs)
           b == s.waiters
<1>1. a \in Seq(Waiters) /\ b \in Seq(Waiters) /\ a \o b = Awaiting(s)
  BY AwaitingShape DEF Awaiting
<1>2. Awaiting(t) = a \o Append(b, x)
  BY Zenon DEF Awaiting
<1> HIDE DEF a, b
<1>3. a \o Append(b, x) = Append(a \o b, x)
  BY <1>1, AppendBehind
<1> QED
  BY <1>1, <1>2, <1>3, Zenon

LEMMA AwaitingWoken ==
  ASSUME NEW s \in Executors, NEW t, NEW ok \in BOOLEAN,
         t.jobs = s.jobs \o Woken(s.waiters, ok), t.waiters = <<>>
  PROVE  t.jobs \in Seq(Jobs) /\ Awaiting(t) = Awaiting(s)
<1>1. s.jobs \in Seq(Jobs) /\ s.waiters \in Seq(Waiters) /\ Awaiting(s) \in Seq(Waiters)
  BY AwaitingShape
<1>2. Woken(s.waiters, ok) \in Seq(Jobs) /\ Due(Woken(s.waiters, ok)) = s.waiters
  BY <1>1, DueWoken
<1>3. t.jobs \in Seq(Jobs) /\ Due(t.jobs) = Due(s.jobs) \o s.waiters
  BY <1>1, <1>2, DueConcat
<1>4. Awaiting(t) = Awaiting(s) \o <<>>
  BY <1>3 DEF Awaiting
<1> QED
  BY <1>1, <1>3, <1>4, ConcatEmptySeq

LEMMA AwaitingTaken ==
  ASSUME NEW s \in Executors, NEW t, s.jobs # <<>>, t.jobs = Tail(s.jobs), t.waiters = s.waiters
  PROVE  /\ t.jobs \in Seq(Jobs) /\ Head(s.jobs) \in Jobs
         /\ Awaiting(s) # <<>>
         /\ Head(Awaiting(s)) = Head(s.jobs).waiter
         /\ Awaiting(t) = Tail(Awaiting(s))
<1> DEFINE a == Due(s.jobs)
           b == s.waiters
<1>1. s.jobs \in Seq(Jobs) /\ a \in Seq(Waiters) /\ b \in Seq(Waiters)
  BY AwaitingShape
<1>2. /\ t.jobs \in Seq(Jobs) /\ Head(s.jobs) \in Jobs
      /\ a # <<>> /\ Head(a) = Head(s.jobs).waiter /\ Due(t.jobs) = Tail(a)
  BY <1>1, DueTail
<1> HIDE DEF a, b
<1>3. a \o b # <<>> /\ Head(a \o b) = Head(a) /\ Tail(a \o b) = Tail(a) \o b
  <2>1. /\ a \o b \in Seq(Waiters) /\ Len(a \o b) = Len(a) + Len(b)
        /\ \A i \in 1..(Len(a) + Len(b)) : (a \o b)[i] = IF i <= Len(a) THEN a[i] ELSE b[i - Len(a)]
        /\ Len(a) \in Nat \ {0} /\ Len(b) \in Nat
    BY <1>1, <1>2, ConcatProperties, LenProperties, EmptySeq
  <2>2. a \o b # <<>>
    BY <2>1, EmptySeq
  <2>3. \A list \in Seq(Waiters) : Head(list) = list[1]
    OBVIOUS
  <2>4. Head(a \o b) = Head(a)
    BY <1>1, <2>1, <2>3
  <2>5. /\ Tail(a) \in Seq(Waiters) /\ Len(Tail(a)) = Len(a) - 1
        /\ \A i \in 1..Len(Tail(a)) : Tail(a)[i] = a[i + 1]
        /\ Tail(a \o b) \in Seq(Waiters) /\ Len(Tail(a \o b)) = Len(a) + Len(b) - 1
        /\ \A i \in 1..Len(Tail(a \o b)) : Tail(a \o b)[i] = (a \o b)[i + 1]
    BY <1>1, <1>2, <2>1, <2>2, HeadTailProperties
  <2>6. /\ Tail(a) \o b \in Seq(Waiters) /\ Len(Tail(a) \o b) = Len(Tail(a)) + Len(b)
        /\ \A i \in 1..(Len(Tail(a)) + Len(b)) :
              (Tail(a) \o b)[i] = IF i <= Len(Tail(a)) THEN Tail(a)[i] ELSE b[i - Len(Tail(a))]
    BY <1>1, <2>5, ConcatProperties
  <2>7. ASSUME NEW i \in 1..Len(Tail(a \o b)) PROVE Tail(a \o b)[i] = (Tail(a) \o b)[i]
    <3>1. i \in 1..(Len(Tail(a)) + Len(b)) /\ i + 1 \in 1..(Len(a) + Len(b))
      BY <2>1, <2>5
    <3>2. CASE i <= Len(Tail(a))
      <4>1. i + 1 <= Len(a) /\ i \in 1..Len(Tail(a))
        BY <2>1, <2>5, <3>2
      <4> QED
        BY <2>1, <2>5, <2>6, <3>1, <3>2, <4>1
    <3>3. CASE ~(i <= Len(Tail(a)))
      <4>1. ~(i + 1 <= Len(a)) /\ (i + 1) - Len(a) = i - Len(Tail(a))
        BY <2>1, <2>5, <3>3
      <4> QED
        BY <2>1, <2>5, <2>6, <3>1, <3>3, <4>1
    <3> QED
      BY <3>2, <3>3
  <2>8. Len(Tail(a \o b)) = Len(Tail(a) \o b)
    BY <2>1, <2>5, <2>6
  <2>9. Tail(a \o b) = Tail(a) \o b
    BY <2>5, <2>6, <2>7, <2>8, SeqEqual
  <2> QED
    BY <2>2, <2>4, <2>9
<1> QED
  BY <1>2, <1>3 DEF Awaiting, a, b

-----------------------------------------------------------------------------
(* The handlers, from the innermost.  Each leaves a sound executor, and    *)
(* says what it may have settled.                                          *)

LEMMA FailsCompose ==
  ASSUME NEW s, NEW t, NEW u, Fails(s, t), Fails(t, u) PROVE Fails(s, u)
BY DEF Fails, Rejects, Stands

LEMMA SettlesCompose ==
  ASSUME NEW s, NEW t, NEW u, NEW A, Settles(s, t, A), Fails(t, u) PROVE Settles(s, u, A)
BY DEF Fails, Settles, Kinds, Rejects, Stands, Answers

\* FinishRun: the call leaves the slot and settles, and nothing else changes.
LEMMA FinishRunSound ==
  ASSUME NEW A \in SUBSET Calls, NEW s, Sound(s, A), s.running # NoRun, NEW kind \in Kinds
  PROVE  LET t == FinishRun(s, kind) IN
         /\ Sound(t, A) /\ Frame(s, t) /\ t.running = NoRun /\ t.queue = s.queue
         /\ kind \in {"cancelled", "runtime"} => Fails(s, t)
         /\ ~s.running.cancelling => Settles(s, t, A)
<1> DEFINE c == s.running.call
           u == Settle(s, {c}, kind)
           t == FinishRun(s, kind)
<1>1. s \in Executors /\ s.running \in Runs /\ c \in Calls
  BY RunShape DEF Sound, Executors
<1>2. Running(s, c) /\ s.outcome[c] = "pending"
  BY <1>1 DEF Sound, Held, Running
<1>3. /\ u \in Executors /\ Frame(s, u) /\ u.running = s.running /\ u.queue = s.queue
      /\ u.outcome = [d \in Calls |-> IF d \in {c} THEN kind ELSE s.outcome[d]]
  BY <1>1, <1>2, SettleEffect
<1>4. t = [u EXCEPT !.running = NoRun]
  BY DEF FinishRun
<1> HIDE DEF u, t
<1>5. t \in Executors
  BY <1>3, <1>4 DEF Executors
<1>6. Frame(s, t) /\ t.running = NoRun /\ t.queue = s.queue /\ t.outcome = u.outcome
  BY <1>3, <1>4 DEF Executors, Frame
<1>7. \A d \in Calls : t.outcome[d] = IF d = c THEN kind ELSE s.outcome[d]
  BY <1>3, <1>6
<1> HIDE DEF c
<1>8. kind # "pending" /\ kind # "idle"
  BY DEF Kinds
<1>9. Held(t)
  <2>1. c \notin ToSet(s.queue)
    BY <1>1, <1>2 DEF Sound, Held
  <2>2. \A d \in Calls : Running(s, d) <=> d = c
    BY <1>2 DEF Running, c
  <2>3. ASSUME NEW d \in Calls
        PROVE  t.outcome[d] = "pending" <=> Running(t, d) \/ d \in ToSet(t.queue)
    BY <1>6, <1>7, <1>8, <2>1, <2>2 DEF Sound, Held, Running
  <2> QED
    BY <1>6, <2>3 DEF Sound, Held, Running, Frame
<1>10. Attached(t) /\ Awaiting(t) = Awaiting(s)
  BY <1>6, FrameKeeps DEF Sound
<1>11. Owners(t)
  BY <1>6, <1>7, <1>8, <1>10 DEF Sound, Owners, Running, OwnersOf
<1>12. AbortsSeen(t, A)
  <2>1. ASSUME NEW d \in A, t.outcome[d] = "pending" PROVE FALSE
    BY <1>2, <1>7, <1>8, <2>1 DEF Sound, AbortsSeen, Running, c
  <2> QED
    BY <1>6, <2>1 DEF AbortsSeen
<1>13. kind \in {"cancelled", "runtime"} => Fails(s, t)
  BY <1>2, <1>6, <1>7 DEF Fails, Rejects, Stands, Frame
<1>14. ~s.running.cancelling => Settles(s, t, A)
  <2>1. ~s.running.cancelling => c \notin A
    BY <1>2 DEF Sound, AbortsSeen
  <2> QED
    BY <1>2, <1>6, <1>7, <2>1 DEF Settles, Answers, Stands, Frame
<1> QED
  BY <1>5, <1>6, <1>9, <1>10, <1>11, <1>12, <1>13, <1>14 DEF Sound, t

\* ensureInitialized starts a generation when there is none.
LEMMA EnsureInitializedSound ==
  ASSUME NEW A \in SUBSET Calls, NEW s, Sound(s, A), s.status \notin {"ready", "disposed"},
         NEW t \in EnsureInitialized(s)
  PROVE  /\ Sound(t, A)
         /\ t.outcome = s.outcome /\ t.queue = s.queue /\ t.running = s.running
         /\ t.jobs = s.jobs /\ t.waiters = s.waiters
         /\ Stands(s, t)
<1>1. CASE s.init # "none"
  BY <1>1 DEF EnsureInitialized, Stands
<1>2. CASE s.init = "none"
  <2> DEFINE g == s.generation + 1
  <2>1. /\ s \in Executors /\ s.status = "empty" /\ s.worker = 0 /\ s.live = {}
        /\ g \in Nat /\ g # 0
    BY <1>2 DEF Sound, Attached, Executors, Statuses
  <2>2. \/ t = [s EXCEPT !.generation = g, !.status = "initializing", !.worker = g,
                         !.live = s.live \cup {g}, !.init = "loading",
                         !.outbox = <<[type |-> "init"]>>]
        \/ t = [s EXCEPT !.generation = g, !.status = "empty", !.init = "rejecting"]
    BY <1>2 DEF EnsureInitialized
  <2> HIDE DEF g
  <2>3. <<[type |-> "init"]>> \in Seq(Requests)
    BY DEF Requests
  <2>4. t \in Executors
    <3>1. CASE t = [s EXCEPT !.generation = g, !.status = "initializing", !.worker = g,
                             !.live = s.live \cup {g}, !.init = "loading",
                             !.outbox = <<[type |-> "init"]>>]
      <4> DEFINE o == <<[type |-> "init"]>>
                 l == s.live \cup {g}
      <4>1. o \in Seq(Requests) /\ l \in SUBSET Nat
        BY <2>1, <2>3
      <4> HIDE DEF o, l
      <4>2. t = [s EXCEPT !.generation = g, !.status = "initializing", !.worker = g,
                          !.live = l, !.init = "loading", !.outbox = o]
        BY <3>1 DEF o, l
      <4> QED
        BY <2>1, <4>1, <4>2 DEF Executors, Statuses
    <3>2. CASE t = [s EXCEPT !.generation = g, !.status = "empty", !.init = "rejecting"]
      BY <2>1, <3>2 DEF Executors, Statuses
    <3> QED
      BY <2>2, <3>1, <3>2
  <2>5. /\ t.outcome = s.outcome /\ t.queue = s.queue /\ t.running = s.running
        /\ t.jobs = s.jobs /\ t.waiters = s.waiters /\ t.again = s.again
        /\ \/ t.status = "initializing" /\ t.worker = g /\ t.live = s.live \cup {g} /\ t.init = "loading"
           \/ t.status = "empty" /\ t.worker = s.worker /\ t.live = s.live /\ t.init = "rejecting"
    <3>1. CASE t = [s EXCEPT !.generation = g, !.status = "initializing", !.worker = g,
                             !.live = s.live \cup {g}, !.init = "loading",
                             !.outbox = <<[type |-> "init"]>>]
      BY <2>1, <3>1 DEF Executors
    <3>2. CASE t = [s EXCEPT !.generation = g, !.status = "empty", !.init = "rejecting"]
      BY <2>1, <3>2 DEF Executors
    <3> QED
      BY <2>2, <3>1, <3>2
  <2>6. Attached(t)
    BY <2>1, <2>5 DEF Attached
  <2>7. Held(t)
    BY <2>5 DEF Sound, Held, Running
  <2>8. Owners(t)
    BY <2>5 DEF Sound, Owners, Running, Awaiting
  <2>9. AbortsSeen(t, A)
    BY <2>5 DEF Sound, AbortsSeen, Running
  <2> QED
    BY <2>4, <2>5, <2>6, <2>7, <2>8, <2>9 DEF Sound, Stands
<1> QED
  BY <1>1, <1>2

\* Posted: what a message to the worker changes of the executor.
LEMMA PostedEffect ==
  ASSUME NEW s \in Executors, NEW c \in Calls
  PROVE  LET t == Posted(s, c) IN
         /\ t \in Executors /\ Frame(s, t)
         /\ t.running \in Runs /\ t.running.call = c
         /\ t.running.posted = TRUE /\ t.running.cancelling = FALSE
         /\ t.queue = s.queue /\ t.outcome = s.outcome
<1> DEFINE run == [call |-> c, posted |-> TRUE, cancelling |-> FALSE]
           m == [type |-> "execute", call |-> c]
           o == Append(s.outbox, m)
           t == Posted(s, c)
<1>1. run \in Runs /\ run.call = c /\ run.posted = TRUE /\ run.cancelling = FALSE
  BY DEF Runs
<1>2. o \in Seq(Requests)
  <2>1. m \in Requests
    BY DEF Requests
  <2>2. s.outbox \in Seq(Requests)
    BY DEF Executors
  <2> HIDE DEF m
  <2> QED
    BY <2>1, <2>2, AppendProperties
<1>3. t = [s EXCEPT !.running = run, !.outbox = o]
  BY DEF Posted
<1> HIDE DEF run, o, t
<1>4. t \in Executors /\ Frame(s, t) /\ t.running = run /\ t.queue = s.queue /\ t.outcome = s.outcome
  BY <1>1, <1>2, <1>3 DEF Executors, Frame
<1> QED
  BY <1>1, <1>4 DEF t

\* The call in the slot is sent.
LEMMA PostedSound ==
  ASSUME NEW A \in SUBSET Calls, NEW s, Sound(s, A), NEW c \in Calls, Running(s, c), c \notin A,
         c \notin OwnersOf(Awaiting(s))
  PROVE  /\ Sound(Posted(s, c), A) /\ Posted(s, c).outcome = s.outcome
         /\ Stands(s, Posted(s, c))
<1> DEFINE t == Posted(s, c)
<1>1. /\ t \in Executors /\ Frame(s, t) /\ t.running \in Runs /\ t.running.call = c
      /\ t.running.posted = TRUE /\ t.running.cancelling = FALSE
      /\ t.queue = s.queue /\ t.outcome = s.outcome
  BY PostedEffect DEF Sound
<1>2. t.running # NoRun
  BY <1>1, RunShape
<1> HIDE DEF t
<1>3. \A d : Running(t, d) <=> Running(s, d)
  BY <1>1, <1>2 DEF Running
<1>4. Held(t)
  BY <1>1, <1>3 DEF Sound, Held, Frame
<1>5. Attached(t) /\ Awaiting(t) = Awaiting(s)
  BY <1>1, FrameKeeps DEF Sound
<1>6. Owners(t)
  BY <1>1, <1>5 DEF Sound, Owners, Running
<1>7. AbortsSeen(t, A)
  BY <1>1, <1>3 DEF Sound, AbortsSeen, Running
<1> QED
  BY <1>1, <1>4, <1>5, <1>6, <1>7 DEF Sound, Stands, Frame, t

LEMMA EmptyQueue ==
  ASSUME NEW s \in Executors
  PROVE  LET t == [s EXCEPT !.queue = <<>>] IN
         t \in Executors /\ Frame(s, t) /\ t.queue = <<>> /\ t.running = s.running /\ t.outcome = s.outcome
<1> DEFINE none == <<>>
<1>1. none \in Seq(Calls)
  OBVIOUS
<1> HIDE DEF none
<1>2. LET t == [s EXCEPT !.queue = none] IN
      t \in Executors /\ Frame(s, t) /\ t.queue = none /\ t.running = s.running /\ t.outcome = s.outcome
  BY <1>1 DEF Executors, Frame
<1> QED
  BY <1>2 DEF none

\* drainQueue on a ready worker sends the first queued call it can.
LEMMA StartNextSound ==
  ASSUME NEW A \in SUBSET Calls, NEW s, Sound(s, A), s.running = NoRun, NEW t \in StartNext(s)
  PROVE  Sound(t, A) /\ Fails(s, t)
<1> DEFINE q == s.queue
<1>0. s \in Executors /\ q \in Seq(Calls) /\ Distinct(q) /\ Len(q) \in Nat
  BY DEF Sound, Held, Executors
<1>1. PICK k \in 0..Len(q) :
        t = LET u == Settle(s, ToSet(SubSeq(q, 1, k)), "runtime") IN
            IF k = Len(q) THEN [u EXCEPT !.queue = <<>>]
            ELSE Posted([u EXCEPT !.queue = SubSeq(q, k + 2, Len(q))], q[k + 1])
  BY Zenon DEF StartNext
<1> DEFINE gone == ToSet(SubSeq(q, 1, k))
           u == Settle(s, gone, "runtime")
<1>2. gone \subseteq ToSet(q) /\ gone \subseteq Calls
  <2>1. ToSet(q) = {q[i] : i \in 1..Len(q)}
    BY <1>0 DEF ToSet
  <2>2. gone = {q[i] : i \in 1..k}
    <3>1. k \in Nat /\ k <= Len(q) /\ 1 \in Nat /\ 1 >= 1
      BY <1>0
    <3> QED
      BY <1>0, <3>1, Stretch
  <2> HIDE DEF gone
  <2>3. \A i \in 1..Len(q) : q[i] \in Calls
    BY <1>0
  <2> QED
    BY <1>0, <1>1, <2>1, <2>2, <2>3
<1>3. \A c \in Calls : c \in ToSet(q) => s.outcome[c] = "pending" /\ c \notin OwnersOf(Awaiting(s)) /\ c \notin A
  BY DEF Sound, Held, Owners, AbortsSeen, Running
<1>4. /\ u \in Executors /\ Frame(s, u) /\ u.running = NoRun /\ u.queue = q
      /\ u.outcome = [c \in Calls |-> IF c \in gone THEN "runtime" ELSE s.outcome[c]]
  <2>1. "runtime" \in Kinds /\ gone \in SUBSET Calls /\ \A c \in gone : s.outcome[c] = "pending"
    BY <1>2, <1>3 DEF Kinds
  <2> QED
    BY <1>0, <2>1, SettleEffect
<1>5. Attached(u) /\ Awaiting(u) = Awaiting(s) /\ u.again = {}
  BY <1>4, FrameKeeps DEF Sound, Held, Frame
<1>6. Fails(s, u)
  BY <1>2, <1>3, <1>4 DEF Fails, Rejects, Stands, Frame
<1> HIDE DEF u, gone
<1>7. \A c \in Calls : s.outcome[c] = "pending" <=> c \in ToSet(q)
  BY DEF Sound, Held, Running
<1>8. OwnersOnce(Awaiting(s)) /\ \A c \in OwnersOf(Awaiting(s)) : s.outcome[c] # "idle" /\ c \in Calls
  BY DEF Sound, Owners, OwnersOf
<1>9. CASE k = Len(q)
  <2>1. t = [u EXCEPT !.queue = <<>>]
    <3> DEFINE x == [u EXCEPT !.queue = <<>>]
               y == Posted([u EXCEPT !.queue = SubSeq(q, k + 2, Len(q))], q[k + 1])
    <3>1. t = IF k = Len(q) THEN x ELSE y
      BY <1>1, Zenon DEF u, gone
    <3> HIDE DEF x, y
    <3> QED
      BY <1>9, <3>1 DEF x
  <2>2. t \in Executors /\ Frame(u, t) /\ t.running = NoRun /\ t.queue = <<>> /\ t.outcome = u.outcome
    BY <1>4, <2>1, EmptyQueue
  <2>3. gone = ToSet(q)
    BY <1>0, <1>9, SubSeqFull DEF gone
  <2>4. ToSet(<<>>) = {} /\ Distinct(<<>>)
    BY DEF ToSet, Distinct
  <2>5. \A c \in Calls : t.outcome[c] # "pending"
    BY <1>4, <1>7, <2>2, <2>3
  <2>6. Held(t)
    BY <1>5, <2>2, <2>4, <2>5 DEF Held, Running, Frame
  <2>7. Attached(t) /\ Awaiting(t) = Awaiting(s)
    BY <1>5, <2>2, FrameKeeps
  <2>8. Owners(t)
    BY <1>4, <1>8, <2>2, <2>4, <2>7 DEF Owners, Running
  <2>9. AbortsSeen(t, A)
    BY <2>2, <2>5 DEF AbortsSeen
  <2> QED
    BY <1>4, <1>6, <2>2, <2>6, <2>7, <2>8, <2>9 DEF Sound, Fails, Rejects, Stands, Frame
<1>10. CASE k # Len(q)
  <2> DEFINE rest == SubSeq(q, k + 2, Len(q))
             v == [u EXCEPT !.queue = rest]
             c == q[k + 1]
  <2>1. k \in Nat /\ k < Len(q)
    BY <1>0, <1>1, <1>10
  <2>2. /\ rest \in Seq(Calls) /\ Distinct(rest)
        /\ c \in Calls /\ c \in ToSet(q) /\ c \notin ToSet(rest) /\ c \notin gone
        /\ gone \cap ToSet(rest) = {}
        /\ ToSet(q) = gone \cup {c} \cup ToSet(rest)
    BY <1>0, <2>1, Suffix DEF gone
  <2>3. t = Posted(v, c)
    BY <1>1, <1>10 DEF u, gone
  <2> HIDE DEF rest, c
  <2>4. v \in Executors /\ Frame(u, v) /\ v.queue = rest /\ v.outcome = u.outcome
    BY <1>4, <2>2 DEF Executors, Frame
  <2> HIDE DEF v
  <2>5. /\ t \in Executors /\ Frame(v, t) /\ t.running \in Runs /\ t.running.call = c
        /\ t.running.posted = TRUE /\ t.running.cancelling = FALSE
        /\ t.queue = rest /\ t.outcome = u.outcome
    <3> DEFINE p == Posted(v, c)
    <3>1. /\ p \in Executors /\ Frame(v, p) /\ p.running \in Runs /\ p.running.call = c
          /\ p.running.posted = TRUE /\ p.running.cancelling = FALSE
          /\ p.queue = v.queue /\ p.outcome = v.outcome
      BY <2>2, <2>4, PostedEffect
    <3> HIDE DEF p
    <3>2. t = p
      BY <2>3 DEF p
    <3> QED
      BY <2>4, <3>1, <3>2
  <2>6. t.running # NoRun /\ \A d : Running(t, d) <=> d = c
    BY <2>5, RunShape DEF Running
  <2>7. \A d \in Calls : t.outcome[d] = "pending" <=> d = c \/ d \in ToSet(rest)
    BY <1>4, <1>7, <2>2, <2>5
  <2>8. Held(t)
    BY <1>5, <2>2, <2>4, <2>5, <2>6, <2>7 DEF Held, Frame
  <2>9. Attached(t) /\ Awaiting(t) = Awaiting(s)
    BY <1>5, <2>4, <2>5, FrameKeeps
  <2>10. Owners(t)
    <3>1. ASSUME NEW d \in OwnersOf(Awaiting(s))
          PROVE  t.outcome[d] # "idle" /\ d \notin ToSet(t.queue) /\ (Running(t, d) => ~t.running.posted)
      BY <1>3, <1>4, <1>8, <2>2, <2>5, <2>6
    <3> QED
      BY <1>8, <2>9, <3>1 DEF Owners
  <2>11. AbortsSeen(t, A)
    BY <1>3, <2>2, <2>5, <2>7 DEF AbortsSeen
  <2> QED
    BY <1>4, <1>6, <2>4, <2>5, <2>8, <2>9, <2>10, <2>11 DEF Sound, Fails, Rejects, Stands, Frame
<1> QED
  BY <1>9, <1>10

\* Somebody who is not a waiting owner begins to wait for the init promise.
LEMMA WaitSound ==
  ASSUME NEW A \in SUBSET Calls, NEW s, Sound(s, A), NEW x \in Waiters,
         \A c \in Calls : x = Owner(c) =>
             /\ c \notin OwnersOf(Awaiting(s))
             /\ s.outcome[c] # "idle" /\ c \notin ToSet(s.queue)
             /\ Running(s, c) => ~s.running.posted
  PROVE  LET t == [s EXCEPT !.waiters = Append(@, x)] IN
         Sound(t, A) /\ t.outcome = s.outcome /\ t.status = s.status
<1> DEFINE list == Append(s.waiters, x)
           t == [s EXCEPT !.waiters = list]
<1>1. s \in Executors /\ list \in Seq(Waiters)
  <2>1. s \in Executors /\ s.waiters \in Seq(Waiters)
    BY AwaitingShape DEF Sound
  <2> QED
    BY <2>1, AppendProperties
<1> HIDE DEF list
<1>2. t \in Executors
  BY <1>1 DEF Executors
<1>3. /\ t.status = s.status /\ t.worker = s.worker /\ t.live = s.live /\ t.init = s.init
      /\ t.jobs = s.jobs /\ t.waiters = list /\ t.running = s.running /\ t.queue = s.queue
      /\ t.outcome = s.outcome /\ t.again = s.again
  BY <1>1 DEF Executors
<1>4. Awaiting(t) = Append(Awaiting(s), x)
  BY <1>1, <1>3, AwaitingJoined DEF list
<1> HIDE DEF t
<1>5. /\ Awaiting(s) \in Seq(Waiters) /\ OwnersOnce(Awaiting(s))
      /\ \A c \in OwnersOf(Awaiting(s)) : c \in Calls
  BY <1>1, AwaitingShape DEF Sound, Owners, OwnersOf
<1>6. /\ OwnersOf(Awaiting(t)) = OwnersOf(Awaiting(s)) \cup {c \in Calls : x = Owner(c)}
      /\ OwnersOnce(Awaiting(t))
  BY <1>4, <1>5, Joined
<1>7. Owners(t)
  BY <1>3, <1>6 DEF Sound, Owners, Running
<1>8. Held(t) /\ Attached(t) /\ AbortsSeen(t, A)
  BY <1>3 DEF Sound, Held, Attached, AbortsSeen, Running
<1> QED
  BY <1>2, <1>3, <1>7, <1>8 DEF Sound, t, list

\* drainQueue
LEMMA DrainSound ==
  ASSUME NEW A \in SUBSET Calls, NEW s, Sound(s, A), NEW t \in Drain(s)
  PROVE  Sound(t, A) /\ Fails(s, t)
<1>1. CASE s.status = "disposed" \/ s.running # NoRun \/ s.queue = <<>>
  BY <1>1 DEF Drain, Fails, Rejects, Stands
<1>2. CASE ~(s.status = "disposed" \/ s.running # NoRun \/ s.queue = <<>>) /\ s.status = "ready"
  <2>1. t \in StartNext(s)
    BY <1>2 DEF Drain
  <2> QED
    BY <1>2, <2>1, StartNextSound
<1>3. CASE ~(s.status = "disposed" \/ s.running # NoRun \/ s.queue = <<>>) /\ s.status # "ready"
  <2>1. PICK u \in EnsureInitialized(s) : t = [u EXCEPT !.waiters = Append(@, Drainer)]
    BY <1>3, Zenon DEF Drain
  <2>2. Sound(u, A) /\ u.outcome = s.outcome /\ Stands(s, u)
    BY <1>3, EnsureInitializedSound
  <2>3. Sound(t, A) /\ t.outcome = u.outcome /\ t.status = u.status
    BY <2>1, <2>2, WaitSound, WaiterShape
  <2> QED
    BY <2>2, <2>3 DEF Fails, Rejects, Stands
<1> QED
  BY <1>1, <1>2, <1>3

\* postExecuteMessage
LEMMA PostSound ==
  ASSUME NEW A \in SUBSET Calls, NEW s, Sound(s, A), NEW c \in Calls, Running(s, c), c \notin A,
         c \notin OwnersOf(Awaiting(s)), NEW t \in Post(s, c)
  PROVE  Sound(t, A) /\ Fails(s, t)
<1>1. CASE t = Posted(s, c)
  BY <1>1, PostedSound DEF Fails, Rejects, Stands
<1>2. CASE t \in Drain(FinishRun(s, "runtime"))
  <2>1. Sound(FinishRun(s, "runtime"), A) /\ Fails(s, FinishRun(s, "runtime"))
    BY FinishRunSound DEF Running, Kinds
  <2> QED
    BY <1>2, <2>1, DrainSound, FailsCompose
<1> QED
  BY <1>1, <1>2 DEF Post

\* rejectAllQueued
LEMMA RejectAllQueuedSound ==
  ASSUME NEW A \in SUBSET Calls, NEW s, Sound(s, A)
  PROVE  LET t == RejectAllQueued(s, "runtime") IN
         /\ Sound(t, A) /\ Fails(s, t) /\ Frame(s, t)
         /\ t.running = s.running /\ t.queue = <<>>
<1> DEFINE C == ToSet(s.queue)
           u == Settle(s, C, "runtime")
           t == RejectAllQueued(s, "runtime")
<1>1. s \in Executors /\ s.queue \in Seq(Calls)
  BY DEF Sound, Executors
<1>2. C \in SUBSET Calls
  BY <1>1 DEF ToSet
<1>3. \A c \in C : s.outcome[c] = "pending" /\ ~Running(s, c)
  BY <1>2 DEF Sound, Held
<1>4. /\ u \in Executors /\ Frame(s, u) /\ u.running = s.running
      /\ u.outcome = [c \in Calls |-> IF c \in C THEN "runtime" ELSE s.outcome[c]]
  BY <1>1, <1>2, <1>3, SettleEffect DEF Kinds
<1>5. t = [u EXCEPT !.queue = <<>>]
  BY DEF RejectAllQueued
<1> HIDE DEF u
<1>6. t \in Executors /\ Frame(u, t) /\ t.running = s.running /\ t.queue = <<>> /\ t.outcome = u.outcome
  BY <1>4, <1>5, EmptyQueue
<1> HIDE DEF t
<1>7. ToSet(<<>>) = {} /\ Distinct(<<>>)
  BY DEF ToSet, Distinct
<1>8. \A c \in Calls : t.outcome[c] = IF c \in C THEN "runtime" ELSE s.outcome[c]
  BY <1>4, <1>6
<1>9. Fails(s, t) /\ Frame(s, t)
  BY <1>3, <1>4, <1>6, <1>8 DEF Fails, Frame, Rejects, Stands
<1> HIDE DEF C
<1>10. \A c \in Calls : Running(t, c) <=> Running(s, c)
  BY <1>6 DEF Running
<1>11. Held(t)
  <2>1. \A c \in Calls : t.outcome[c] = "pending" <=> Running(t, c)
    BY <1>3, <1>8, <1>10 DEF Sound, Held, C
  <2> QED
    BY <1>6, <1>7, <1>9, <2>1 DEF Sound, Held, Frame
<1>12. Attached(t) /\ Awaiting(t) = Awaiting(s)
  BY <1>9, FrameKeeps DEF Sound
<1>13. Owners(t)
  BY <1>6, <1>7, <1>8, <1>10, <1>12 DEF Sound, Owners, OwnersOf
<1>14. AbortsSeen(t, A)
  <2>1. ASSUME NEW c \in A, t.outcome[c] = "pending" PROVE Running(t, c) /\ t.running.cancelling
    BY <1>6, <1>8, <1>10, <2>1 DEF Sound, AbortsSeen
  <2> QED
    BY <1>6, <2>1 DEF Sound, AbortsSeen
<1> QED
  BY <1>6, <1>9, <1>11, <1>12, <1>13, <1>14 DEF Sound, t

\* teardownWorker, with the status the caller leaves.
LEMMA TeardownSound ==
  ASSUME NEW A \in SUBSET Calls, NEW s, Sound(s, A), NEW status \in {"empty", "disposed"}
  PROVE  LET t == [Teardown(s) EXCEPT !.status = status] IN
         /\ Sound(t, A) /\ t.outcome = s.outcome /\ t.running = s.running /\ t.queue = s.queue
         /\ t.status = status /\ t.init = "none"
<1> DEFINE l == s.live \ {s.worker}
           o == <<>>
           t == [Teardown(s) EXCEPT !.status = status]
<1>1. s \in Executors /\ l = {} /\ l \in SUBSET Nat
  BY DEF Sound, Attached, Executors
<1>2. o \in Seq(Requests)
  OBVIOUS
<1>3. t = [s EXCEPT !.live = l, !.worker = 0, !.outbox = o, !.init = "none", !.status = status]
  BY DEF Teardown
<1> HIDE DEF l, o, t
<1>4. t \in Executors
  BY <1>1, <1>2, <1>3 DEF Executors, Statuses
<1>5. /\ t.live = {} /\ t.worker = 0 /\ t.init = "none" /\ t.status = status
      /\ t.waiters = s.waiters /\ t.jobs = s.jobs /\ t.running = s.running /\ t.queue = s.queue
      /\ t.outcome = s.outcome /\ t.again = s.again
  BY <1>1, <1>3 DEF Executors
<1>6. Held(t) /\ AbortsSeen(t, A)
  BY <1>5 DEF Sound, Held, AbortsSeen, Running
<1>7. Attached(t)
  BY <1>5 DEF Attached
<1>8. Owners(t)
  BY <1>5 DEF Sound, Owners, Awaiting, Running
<1> QED
  BY <1>4, <1>5, <1>6, <1>7, <1>8 DEF Sound, t

\* failGeneration
LEMMA FailGenerationSound ==
  ASSUME NEW A \in SUBSET Calls, NEW s, Sound(s, A), NEW kind \in Kinds, NEW t \in FailGeneration(s, kind)
  PROVE  /\ Sound(t, A)
         /\ kind \in {"cancelled", "runtime"} => Fails(s, t)
         /\ s.running # NoRun /\ ~s.running.cancelling => Settles(s, t, A)
<1> DEFINE u == IF s.running = NoRun THEN s ELSE FinishRun(s, kind)
           v == [Teardown(u) EXCEPT !.status = "empty"]
<1>1. t \in Drain(v)
  BY Zenon DEF FailGeneration
<1>2. /\ Sound(u, A)
      /\ kind \in {"cancelled", "runtime"} => Fails(s, u)
      /\ s.running # NoRun /\ ~s.running.cancelling => Settles(s, u, A)
  <2>1. CASE s.running = NoRun
    BY <2>1 DEF Fails, Rejects, Stands
  <2>2. CASE s.running # NoRun
    BY <2>2, FinishRunSound
  <2> QED
    BY <2>1, <2>2
<1> HIDE DEF u
<1>3. Sound(v, A) /\ v.outcome = u.outcome /\ v.status = "empty"
  BY <1>2, TeardownSound
<1> HIDE DEF v
<1>4. Sound(t, A) /\ Fails(v, t)
  BY <1>1, <1>3, DrainSound
<1>5. Fails(u, t)
  BY <1>3, <1>4 DEF Fails, Rejects, Stands
<1> QED
  BY <1>2, <1>4, <1>5, FailsCompose, SettlesCompose

\* The init promise settles, and the executor is in the state that follows.
LEMMA WakeSound ==
  ASSUME NEW A \in SUBSET Calls, NEW s, Sound(s, A), NEW ok \in BOOLEAN,
         NEW status \in {"empty", "ready", "disposed"}, status = "ready" <=> s.worker # 0
  PROVE  LET t == WakeWaiters([s EXCEPT !.status = status], ok) IN
         Sound(t, A) /\ t.outcome = s.outcome /\ t.running = s.running
<1> DEFINE none == <<>>
           jobs == s.jobs \o Woken(s.waiters, ok)
           t == WakeWaiters([s EXCEPT !.status = status], ok)
<1>1. s \in Executors /\ none \in Seq(Waiters)
  BY DEF Sound
<1>2. t = [s EXCEPT !.status = status, !.jobs = jobs, !.waiters = none, !.init = "none"]
  BY <1>1 DEF WakeWaiters, Woken, Executors
<1> HIDE DEF t
<1>3. t.jobs = jobs /\ t.waiters = none
  BY <1>1, <1>2 DEF Executors
<1>4. t.jobs \in Seq(Jobs) /\ Awaiting(t) = Awaiting(s)
  BY <1>1, <1>3, AwaitingWoken
<1> HIDE DEF jobs, none
<1>5. t \in Executors
  BY <1>1, <1>2, <1>3, <1>4 DEF Executors, Statuses, Jobs
<1>6. /\ t.status = status /\ t.worker = s.worker /\ t.live = s.live /\ t.init = "none"
      /\ t.running = s.running /\ t.queue = s.queue /\ t.outcome = s.outcome /\ t.again = s.again
  BY <1>1, <1>2 DEF Executors
<1>7. Held(t) /\ AbortsSeen(t, A)
  BY <1>6 DEF Sound, Held, AbortsSeen, Running
<1>8. Attached(t)
  BY <1>6 DEF Sound, Attached
<1>9. Owners(t)
  BY <1>4, <1>6 DEF Sound, Owners, Running
<1> QED
  BY <1>5, <1>6, <1>7, <1>8, <1>9 DEF Sound, t

LEMMA WakeKeepsStatus ==
  ASSUME NEW s \in Executors, NEW ok PROVE WakeWaiters(s, ok).status = s.status
BY DEF WakeWaiters, Executors

LEMMA SameStatus ==
  ASSUME NEW s \in Executors PROVE [s EXCEPT !.status = s.status] = s
BY DEF Executors

LEMMA InitFailsSound ==
  ASSUME NEW A \in SUBSET Calls, NEW s, Sound(s, A)
  PROVE  Sound(InitFails(s), A) /\ InitFails(s).outcome = s.outcome /\ Stands(s, InitFails(s))
<1> DEFINE status == IF s.status = "disposed" THEN "disposed" ELSE "empty"
           u == [Teardown(s) EXCEPT !.status = status]
<1>1. Sound(u, A) /\ u.outcome = s.outcome /\ u.status = status
  BY TeardownSound
<1>2. InitFails(s) = WakeWaiters(u, FALSE)
  BY DEF InitFails, Teardown, Sound, Executors
<1> HIDE DEF u
<1>3. [u EXCEPT !.status = status] = u
  BY <1>1, SameStatus DEF Sound
<1>4. status = "ready" <=> u.worker # 0
  BY <1>1 DEF Sound, Attached
<1>5. FALSE \in BOOLEAN /\ status \in {"empty", "ready", "disposed"}
  OBVIOUS
<1> HIDE DEF status
<1>6. LET t == WakeWaiters([u EXCEPT !.status = status], FALSE) IN
      Sound(t, A) /\ t.outcome = u.outcome
  BY <1>1, <1>4, <1>5, WakeSound
<1>7. WakeWaiters(u, FALSE).status = status /\ (status = "disposed" => s.status = "disposed")
  BY <1>1, WakeKeepsStatus DEF Sound, status
<1> QED
  BY <1>1, <1>2, <1>3, <1>6, <1>7 DEF Stands

\* The handler of an initialising worker.
LEMMA InitMessageSound ==
  ASSUME NEW A \in SUBSET Calls, NEW s, Sound(s, A), s.status = "initializing", NEW m,
         NEW t \in InitMessage(s, m)
  PROVE  Sound(t, A) /\ t.outcome = s.outcome /\ Stands(s, t)
<1>1. CASE t = s
  BY <1>1 DEF Stands
<1>2. CASE t = InitFails(s)
  BY <1>2, InitFailsSound
<1>3. CASE t = InitSucceeds(s)
  <2>1. s.worker # 0
    BY DEF Sound, Attached
  <2>2. t = WakeWaiters([s EXCEPT !.status = "ready"], TRUE)
    BY <1>3 DEF InitSucceeds
  <2>3. t.status = "ready"
    BY <2>2 DEF WakeWaiters, Sound, Executors
  <2> QED
    BY <2>1, <2>2, <2>3, WakeSound DEF Stands
<1> QED
  BY <1>1, <1>2, <1>3 DEF InitMessage

\* The next continuation is taken from the front.
LEMMA JobTakenSound ==
  ASSUME NEW A \in SUBSET Calls, NEW s, Sound(s, A), s.jobs # <<>>
  PROVE  LET t == [s EXCEPT !.jobs = Tail(@)]
             j == Head(s.jobs)
         IN  /\ Sound(t, A) /\ t.outcome = s.outcome /\ t.status = s.status
             /\ j \in Jobs
             /\ \A c \in Calls : j.waiter = Owner(c) =>
                   c \notin OwnersOf(Awaiting(t)) /\ (Running(t, c) => ~t.running.posted)
<1> DEFINE jobs == Tail(s.jobs)
           j == Head(s.jobs)
           t == [s EXCEPT !.jobs = jobs]
           list == Awaiting(s)
<1>1. s \in Executors
  BY DEF Sound
<1>2. /\ t.jobs = jobs /\ t.status = s.status /\ t.worker = s.worker /\ t.live = s.live
      /\ t.init = s.init /\ t.waiters = s.waiters /\ t.running = s.running /\ t.queue = s.queue
      /\ t.outcome = s.outcome /\ t.again = s.again
  BY <1>1 DEF Executors
<1>3. t.jobs \in Seq(Jobs) /\ j \in Jobs /\ list # <<>> /\ Head(list) = j.waiter /\ Awaiting(t) = Tail(list)
  BY <1>1, <1>2, AwaitingTaken
<1>4. t \in Executors
  <2> HIDE DEF jobs
  <2> QED
    BY <1>1, <1>2, <1>3 DEF Executors, Jobs
<1> HIDE DEF t, jobs, j
<1>5. list \in Seq(Waiters) /\ OwnersOnce(list)
  BY <1>1, AwaitingShape DEF Sound, Owners
<1>6. /\ OwnersOf(Tail(list)) \subseteq OwnersOf(list) /\ OwnersOnce(Tail(list))
      /\ \A c \in Calls : Head(list) = Owner(c) => c \in OwnersOf(list) /\ c \notin OwnersOf(Tail(list))
  BY <1>3, <1>5, Taken, Zenon
<1>7. Held(t) /\ Attached(t) /\ AbortsSeen(t, A)
  BY <1>2 DEF Sound, Held, Attached, AbortsSeen, Running
<1>8. Owners(t)
  BY <1>2, <1>3, <1>6 DEF Sound, Owners, Running
<1>9. \A c \in Calls : j.waiter = Owner(c) =>
          c \notin OwnersOf(Awaiting(t)) /\ (Running(t, c) => ~t.running.posted)
  BY <1>2, <1>3, <1>6 DEF Sound, Owners, Running
<1> QED
  BY <1>2, <1>3, <1>4, <1>7, <1>8, <1>9 DEF Sound, t, j, jobs

\* The request that began the initialisation continues: if it still holds the slot, it has been
\* neither sent nor aborted.
LEMMA OwnerContinuesSound ==
  ASSUME NEW A \in SUBSET Calls, NEW s, Sound(s, A), NEW c \in Calls, NEW ok \in BOOLEAN,
         c \notin OwnersOf(Awaiting(s)), Running(s, c) => ~s.running.posted,
         NEW t \in OwnerContinues(s, c, ok)
  PROVE  Sound(t, A) /\ Fails(s, t)
<1>1. CASE ~Running(s, c)
  BY <1>1 DEF OwnerContinues, Running, Fails, Rejects, Stands
<1>2. CASE Running(s, c)
  <2> DEFINE u == FinishRun(s, "runtime")
  <2>1. Sound(u, A) /\ Fails(s, u)
    BY <1>2, FinishRunSound DEF Running, Kinds
  <2>2. c \notin A
    <3>1. s.outcome[c] = "pending" /\ s.running # NoRun /\ ~s.running.posted
      BY <1>2 DEF Sound, Held, Running
    <3>2. ~s.running.cancelling
      BY <3>1 DEF Sound, AbortsSeen
    <3> QED
      BY <3>1, <3>2 DEF Sound, AbortsSeen
  <2>3. CASE t = RejectAllQueued(u, "runtime")
    <3> HIDE DEF u
    <3>1. Sound(t, A) /\ Fails(u, t)
      BY <2>1, <2>3, RejectAllQueuedSound
    <3> QED
      BY <2>1, <3>1, FailsCompose
  <2>4. CASE t = u
    BY <2>1, <2>4
  <2>5. CASE t \in Post(s, c)
    BY <1>2, <2>2, <2>5, PostSound
  <2> QED
    BY <1>2, <2>3, <2>4, <2>5 DEF OwnerContinues, Running
<1> QED
  BY <1>1, <1>2

LEMMA DrainContinuesSound ==
  ASSUME NEW A \in SUBSET Calls, NEW s, Sound(s, A), NEW ok \in BOOLEAN, NEW t \in DrainContinues(s, ok)
  PROVE  Sound(t, A) /\ Fails(s, t)
BY DrainSound, RejectAllQueuedSound DEF DrainContinues

\* handleExecuteResult: only the result of a call that was not cancelled is committed.
LEMMA HandleExecuteResultSound ==
  ASSUME NEW A \in SUBSET Calls, NEW s, Sound(s, A), NEW m, m.kind \in Kinds,
         NEW t \in HandleExecuteResult(s, m)
  PROVE  Sound(t, A) /\ Settles(s, t, A)
<1>1. CASE s.running = NoRun
  BY <1>1 DEF HandleExecuteResult, Settles, Answers, Stands
<1>2. CASE s.running # NoRun /\ m.call # s.running.call
  <2>1. Sound(t, A) /\ Fails(s, t)
    BY <1>2, FailGenerationSound DEF HandleExecuteResult, Kinds
  <2> QED
    BY <2>1 DEF Fails, Settles, Kinds, Rejects, Stands, Answers
<1>3. CASE s.running # NoRun /\ m.call = s.running.call
  <2> DEFINE kind == IF s.running.cancelling THEN "cancelled" ELSE m.kind
             u == FinishRun(s, kind)
  <2>1. t \in Drain(u) /\ kind \in Kinds
    BY <1>3 DEF HandleExecuteResult, Kinds
  <2>2. /\ Sound(u, A)
        /\ kind \in {"cancelled", "runtime"} => Fails(s, u)
        /\ ~s.running.cancelling => Settles(s, u, A)
    <3> HIDE DEF kind
    <3> QED
      BY <1>3, <2>1, FinishRunSound
  <2>3. Settles(s, u, A)
    <3> HIDE DEF u
    <3> QED
      BY <2>2 DEF Fails, Settles, Kinds, Rejects, Stands, Answers
  <2> HIDE DEF u
  <2> QED
    BY <2>1, <2>2, <2>3, DrainSound, SettlesCompose
<1> QED
  BY <1>1, <1>2, <1>3

\* handleCancelResult
LEMMA HandleCancelResultSound ==
  ASSUME NEW A \in SUBSET Calls, NEW s, Sound(s, A), NEW m, NEW t \in HandleCancelResult(s, m)
  PROVE  Sound(t, A) /\ Fails(s, t)
<1>1. CASE t = s
  BY <1>1 DEF Fails, Rejects, Stands
<1>2. CASE t \in FailGeneration(s, "runtime")
  BY <1>2, FailGenerationSound DEF Kinds
<1>3. CASE t \in FailGeneration(s, "cancelled")
  BY <1>3, FailGenerationSound DEF Kinds
<1>4. CASE s.running # NoRun /\ t \in Drain(FinishRun(s, "cancelled"))
  <2>1. Sound(FinishRun(s, "cancelled"), A) /\ Fails(s, FinishRun(s, "cancelled"))
    BY <1>4, FinishRunSound DEF Kinds
  <2> QED
    BY <1>4, <2>1, DrainSound, FailsCompose
<1> QED
  BY <1>1, <1>2, <1>3, <1>4 DEF HandleCancelResult

\* The handlers of a ready worker.
LEMMA ReadyMessageSound ==
  ASSUME NEW A \in SUBSET Calls, NEW s, Sound(s, A), NEW m \in Responses, NEW t \in ReadyMessage(s, m)
  PROVE  Sound(t, A) /\ Settles(s, t, A)
<1>1. CASE t = s
  BY <1>1 DEF Settles, Answers, Stands
<1>2. CASE t \in FailGeneration(s, "runtime")
  BY <1>2, FailGenerationSound DEF Kinds, Fails, Settles, Rejects, Stands, Answers
<1>3. CASE m.type = "execute-result" /\ t \in HandleExecuteResult(s, m)
  <2>1. m.kind \in Kinds
    BY <1>3 DEF Responses
  <2> QED
    BY <1>3, <2>1, HandleExecuteResultSound
<1>4. CASE t \in HandleCancelResult(s, m)
  BY <1>4, HandleCancelResultSound DEF Fails, Settles, Kinds, Rejects, Stands, Answers
<1> QED
  BY <1>1, <1>2, <1>3, <1>4 DEF ReadyMessage

-----------------------------------------------------------------------------
(* What the application does.                                              *)

\* A call whose signal fires when it is not pending is seen to.
LEMMA AbortOfSettled ==
  ASSUME NEW A \in SUBSET Calls, NEW s, Sound(s, A), NEW c \in Calls, s.outcome[c] # "pending"
  PROVE  Sound(s, A \cup {c})
BY DEF Sound, AbortsSeen

\* The running request is marked as cancelling.
LEMMA CancellingSound ==
  ASSUME NEW A \in SUBSET Calls, NEW s, Sound(s, A), NEW c \in Calls, Running(s, c), s.running.posted
  PROVE  LET u == [s EXCEPT !.running.cancelling = TRUE] IN
         /\ Sound(u, A \cup {c}) /\ A \cup {c} \in SUBSET Calls
         /\ Frame(s, u) /\ u.outcome = s.outcome /\ u.running \in Runs /\ u.running.posted = TRUE
<1> DEFINE B == A \cup {c}
           run == [s.running EXCEPT !.cancelling = TRUE]
           u == [s EXCEPT !.running.cancelling = TRUE]
<1>1. s \in Executors /\ s.running \in Runs /\ s.running.call = c
  BY DEF Sound, Executors, Running
<1>2. run \in Runs /\ run.call = c /\ run.posted = TRUE /\ run.cancelling = TRUE
  BY <1>1 DEF Runs
<1>3. u = [s EXCEPT !.running = run]
  BY <1>1 DEF Executors
<1> HIDE DEF run, u
<1>4. /\ u \in Executors /\ Frame(s, u) /\ u.running = run /\ u.queue = s.queue
      /\ u.outcome = s.outcome /\ u.outbox = s.outbox
  BY <1>1, <1>2, <1>3 DEF Executors, Frame
<1>5. u.running # NoRun /\ \A d : Running(u, d) <=> Running(s, d)
  BY <1>1, <1>2, <1>4, RunShape DEF Running
<1>6. Attached(u) /\ Awaiting(u) = Awaiting(s)
  BY <1>4, FrameKeeps DEF Sound
<1>7. Held(u)
  BY <1>4, <1>5 DEF Sound, Held, Frame
<1>8. Owners(u)
  BY <1>4, <1>5, <1>6, <1>2 DEF Sound, Owners
<1>9. AbortsSeen(u, B)
  BY <1>2, <1>4, <1>5 DEF Sound, AbortsSeen
<1>10. Sound(u, B) /\ B \in SUBSET Calls
  BY <1>4, <1>6, <1>7, <1>8, <1>9 DEF Sound
<1> QED
  BY <1>2, <1>4, <1>10 DEF u

\* initiateCancel
LEMMA InitiateCancelSound ==
  ASSUME NEW A \in SUBSET Calls, NEW s, Sound(s, A), NEW c \in Calls, Running(s, c), s.running.posted,
         NEW t \in InitiateCancel(s, c)
  PROVE  Sound(t, A \cup {c}) /\ Fails(s, t)
<1> DEFINE B == A \cup {c}
           u == [s EXCEPT !.running.cancelling = TRUE]
<1>1. Sound(u, B) /\ B \in SUBSET Calls /\ Frame(s, u) /\ u.outcome = s.outcome
  BY CancellingSound
<1>2. InitiateCancel(s, c) = FailGeneration(u, "cancelled")
          \cup (IF Cooperative THEN {[u EXCEPT !.outbox = Append(u.outbox, [type |-> "cancel", call |-> c])]}
                ELSE {})
  BY DEF InitiateCancel
<1> HIDE DEF u
<1>3. u \in Executors /\ Held(u) /\ Attached(u) /\ Owners(u) /\ AbortsSeen(u, B)
  BY <1>1 DEF Sound
<1>4. CASE t \in FailGeneration(u, "cancelled")
  <2>1. Sound(t, B) /\ Fails(u, t)
    BY <1>1, <1>4, FailGenerationSound DEF Kinds
  <2> QED
    BY <1>1, <2>1 DEF Fails, Rejects, Stands, Frame
<1>5. CASE t = [u EXCEPT !.outbox = Append(u.outbox, [type |-> "cancel", call |-> c])]
  <2> DEFINE m == [type |-> "cancel", call |-> c]
             o == Append(u.outbox, m)
  <2>1. o \in Seq(Requests)
    <3>1. m \in Requests
      BY DEF Requests
    <3>2. u.outbox \in Seq(Requests)
      BY <1>3 DEF Executors
    <3> HIDE DEF m
    <3> QED
      BY <3>1, <3>2, AppendProperties
  <2>2. t = [u EXCEPT !.outbox = o]
    BY <1>5
  <2> HIDE DEF o
  <2>3. t \in Executors /\ Frame(u, t) /\ t.running = u.running /\ t.queue = u.queue /\ t.outcome = u.outcome
    BY <1>3, <2>1, <2>2 DEF Executors, Frame
  <2>4. Attached(t) /\ Awaiting(t) = Awaiting(u)
    BY <1>3, <2>3, FrameKeeps
  <2>5. Held(t) /\ Owners(t) /\ AbortsSeen(t, B)
    BY <1>3, <2>3, <2>4 DEF Held, Owners, AbortsSeen, Running, Frame
  <2> QED
    BY <1>1, <2>3, <2>4, <2>5 DEF Sound, Fails, Rejects, Stands, Frame
<1> QED
  BY <1>2, <1>4, <1>5

\* The abort listener of a pending call.
LEMMA AbortPendingSound ==
  ASSUME NEW A \in SUBSET Calls, NEW s, Sound(s, A), NEW c \in Calls, s.outcome[c] = "pending",
         NEW t \in AbortPending(s, c)
  PROVE  Sound(t, A \cup {c}) /\ Fails(s, t)
<1>1. s \in Executors /\ s.queue \in Seq(Calls)
  BY DEF Sound, Executors
<1>2. CASE Running(s, c) /\ s.status = "ready" /\ s.running.posted
  BY <1>2, InitiateCancelSound DEF AbortPending, Running
<1>3. CASE Running(s, c) /\ ~(s.status = "ready" /\ s.running.posted)
  <2> DEFINE u == FinishRun(s, "cancelled")
  <2>1. Sound(u, A) /\ Fails(s, u) /\ u.running = NoRun /\ u.queue = s.queue
    BY <1>3, FinishRunSound DEF Running, Kinds
  <2>2. t \in Drain(u)
    BY <1>3 DEF AbortPending, Running
  <2> HIDE DEF u
  <2>3. u.outcome[c] # "pending"
    BY <1>3, <2>1 DEF Sound, Held, Running
  <2>4. Sound(u, A \cup {c}) /\ A \cup {c} \in SUBSET Calls
    BY <2>1, <2>3, AbortOfSettled
  <2> QED
    BY <2>1, <2>2, <2>4, DrainSound, FailsCompose
<1>4. CASE c \in ToSet(s.queue)
  <2> DEFINE k == CHOOSE i \in DOMAIN s.queue : s.queue[i] = c
             rest == RemoveAt(s.queue, k)
             u == Settle(s, {c}, "cancelled")
  <2>1. ~Running(s, c)
    BY <1>4 DEF Sound, Held
  <2>2. t = [u EXCEPT !.queue = RemoveAt(u.queue, k)]
    BY <1>4, <2>1, Zenon DEF AbortPending, Running
  <2>3. k \in DOMAIN s.queue /\ s.queue[k] = c
    <3>1. \E i \in DOMAIN s.queue : s.queue[i] = c
      BY <1>4 DEF ToSet
    <3> QED
      BY <3>1
  <2>4. /\ u \in Executors /\ Frame(s, u) /\ u.running = s.running /\ u.queue = s.queue
        /\ u.outcome = [d \in Calls |-> IF d \in {c} THEN "cancelled" ELSE s.outcome[d]]
    <3>1. {c} \in SUBSET Calls /\ (\A d \in {c} : s.outcome[d] = "pending") /\ "cancelled" \in Kinds
      BY DEF Kinds
    <3> QED
      BY <1>1, <3>1, SettleEffect
  <2> HIDE DEF u, k
  <2>5. rest \in Seq(Calls) /\ Distinct(rest) /\ ToSet(rest) = ToSet(s.queue) \ {c}
    BY <1>1, <2>3, Removed DEF Sound, Held
  <2>6. t = [u EXCEPT !.queue = rest]
    BY <2>2, <2>4
  <2> HIDE DEF rest
  <2>7. t \in Executors /\ Frame(u, t) /\ t.running = s.running /\ t.queue = rest /\ t.outcome = u.outcome
    BY <2>4, <2>5, <2>6 DEF Executors, Frame
  <2>8. Frame(s, t) /\ \A d \in Calls : t.outcome[d] = IF d = c THEN "cancelled" ELSE s.outcome[d]
    BY <2>4, <2>7 DEF Frame
  <2>9. Attached(t) /\ Awaiting(t) = Awaiting(s)
    BY <2>8, FrameKeeps DEF Sound
  <2>10. \A d : Running(t, d) <=> Running(s, d)
    BY <2>7 DEF Running
  <2>11. Held(t)
    BY <2>1, <2>5, <2>7, <2>8, <2>10 DEF Sound, Held, Frame
  <2>12. Owners(t)
    BY <2>5, <2>7, <2>8, <2>9, <2>10 DEF Sound, Owners, OwnersOf
  <2>13. AbortsSeen(t, A \cup {c})
    BY <2>7, <2>8, <2>10 DEF Sound, AbortsSeen
  <2>14. Fails(s, t)
    BY <2>8 DEF Fails, Rejects, Stands, Frame
  <2> QED
    BY <2>7, <2>9, <2>11, <2>12, <2>13, <2>14 DEF Sound
<1> QED
  BY <1>2, <1>3, <1>4 DEF Sound, Held

\* execute() takes up a call that nobody waits for yet.
LEMMA Taking ==
  ASSUME NEW A \in SUBSET Calls, NEW s, Sound(s, A), NEW c \in Calls, s.outcome[c] = "idle"
  PROVE  LET t == [s EXCEPT !.outcome[c] = "pending"] IN
         /\ t \in Executors /\ Frame(s, t) /\ t.running = s.running /\ t.queue = s.queue
         /\ \A d \in Calls : t.outcome[d] = IF d = c THEN "pending" ELSE s.outcome[d]
         /\ ~Running(s, c) /\ c \notin ToSet(s.queue) /\ c \notin OwnersOf(Awaiting(s))
<1> DEFINE o == [s.outcome EXCEPT ![c] = "pending"]
           t == [s EXCEPT !.outcome[c] = "pending"]
<1>1. s \in Executors
  BY DEF Sound
<1>2. o \in [Calls -> {"idle", "pending"} \cup Kinds]
      /\ \A d \in Calls : o[d] = IF d = c THEN "pending" ELSE s.outcome[d]
  BY <1>1 DEF Executors
<1>3. t = [s EXCEPT !.outcome = o]
  BY <1>1 DEF Executors
<1> HIDE DEF o, t
<1>4. t \in Executors /\ Frame(s, t) /\ t.running = s.running /\ t.queue = s.queue /\ t.outcome = o
  BY <1>1, <1>2, <1>3 DEF Executors, Frame
<1>5. ~Running(s, c) /\ c \notin ToSet(s.queue) /\ c \notin OwnersOf(Awaiting(s))
  BY DEF Sound, Held, Owners
<1> QED
  BY <1>2, <1>4, <1>5 DEF t

\* The call is refused: it settles at once.
LEMMA RefusedSound ==
  ASSUME NEW A \in SUBSET Calls, NEW s, Sound(s, A), NEW c \in Calls, s.outcome[c] = "idle",
         NEW kind \in Kinds
  PROVE  LET r == [s EXCEPT !.outcome[c] = "pending"]
             t == Settle(r, {c}, kind)
         IN  /\ Sound(t, A)
             /\ kind \in {"cancelled", "runtime"} => Fails(r, t)
<1> DEFINE r == [s EXCEPT !.outcome[c] = "pending"]
           t == Settle(r, {c}, kind)
<1>1. /\ r \in Executors /\ Frame(s, r) /\ r.running = s.running /\ r.queue = s.queue
      /\ \A d \in Calls : r.outcome[d] = IF d = c THEN "pending" ELSE s.outcome[d]
      /\ ~Running(s, c) /\ c \notin ToSet(s.queue) /\ c \notin OwnersOf(Awaiting(s))
  BY Taking
<1> HIDE DEF r
<1>2. /\ t \in Executors /\ Frame(r, t) /\ t.running = s.running /\ t.queue = s.queue
      /\ t.outcome = [d \in Calls |-> IF d \in {c} THEN kind ELSE r.outcome[d]]
  <2>1. {c} \in SUBSET Calls /\ \A d \in {c} : r.outcome[d] = "pending"
    BY <1>1
  <2> QED
    BY <1>1, <2>1, SettleEffect
<1> HIDE DEF t
<1>3. /\ Frame(s, t)
      /\ \A d \in Calls : t.outcome[d] = IF d = c THEN kind ELSE s.outcome[d]
      /\ kind \notin {"idle", "pending"}
  BY <1>1, <1>2 DEF Frame, Kinds
<1>4. Attached(t) /\ Awaiting(t) = Awaiting(s) /\ \A d : Running(t, d) <=> Running(s, d)
  BY <1>2, <1>3, FrameKeeps DEF Sound, Running
<1>5. Held(t)
  <2>1. ASSUME NEW d \in Calls
        PROVE  t.outcome[d] = "pending" <=> Running(t, d) \/ d \in ToSet(t.queue)
    BY <1>1, <1>2, <1>3, <1>4 DEF Sound, Held
  <2> QED
    BY <1>2, <1>3, <1>4, <2>1 DEF Sound, Held, Frame
<1>6. Owners(t)
  BY <1>2, <1>3, <1>4 DEF Sound, Owners, OwnersOf
<1>7. AbortsSeen(t, A)
  BY <1>2, <1>3, <1>4 DEF Sound, AbortsSeen
<1>8. kind \in {"cancelled", "runtime"} => Fails(r, t)
  BY <1>1, <1>2 DEF Fails, Rejects, Stands, Frame
<1> QED
  BY <1>2, <1>4, <1>5, <1>6, <1>7, <1>8 DEF Sound, r, t

\* The call waits behind others.
LEMMA QueuedSound ==
  ASSUME NEW A \in SUBSET Calls, NEW s, Sound(s, A), NEW c \in Calls \ A, s.outcome[c] = "idle"
  PROVE  LET r == [s EXCEPT !.outcome[c] = "pending"]
             t == [r EXCEPT !.queue = Append(@, c)]
         IN  Sound(t, A) /\ t.outcome = r.outcome /\ t.status = r.status
<1> DEFINE r == [s EXCEPT !.outcome[c] = "pending"]
           q == Append(s.queue, c)
           t == [r EXCEPT !.queue = q]
<1>1. /\ r \in Executors /\ Frame(s, r) /\ r.running = s.running /\ r.queue = s.queue
      /\ \A d \in Calls : r.outcome[d] = IF d = c THEN "pending" ELSE s.outcome[d]
      /\ ~Running(s, c) /\ c \notin ToSet(s.queue) /\ c \notin OwnersOf(Awaiting(s))
  BY Taking
<1> HIDE DEF r
<1>2. q \in Seq(Calls) /\ Distinct(q) /\ ToSet(q) = ToSet(s.queue) \cup {c}
  BY <1>1, Appended DEF Sound, Held, Executors
<1> HIDE DEF q
<1>3. t \in Executors /\ Frame(r, t) /\ t.running = s.running /\ t.queue = q /\ t.outcome = r.outcome
  BY <1>1, <1>2 DEF Executors, Frame
<1> HIDE DEF t
<1>4. Frame(s, t) /\ \A d : Running(t, d) <=> Running(s, d)
  BY <1>1, <1>3 DEF Frame, Running
<1>5. Attached(t) /\ Awaiting(t) = Awaiting(s)
  BY <1>4, FrameKeeps DEF Sound
<1>6. Held(t)
  BY <1>1, <1>2, <1>3, <1>4 DEF Sound, Held, Frame
<1>7. Owners(t)
  BY <1>1, <1>2, <1>3, <1>4, <1>5 DEF Sound, Owners, OwnersOf
<1>8. AbortsSeen(t, A)
  BY <1>1, <1>3, <1>4 DEF Sound, AbortsSeen
<1>9. t = [r EXCEPT !.queue = Append(r.queue, c)]
  BY <1>1 DEF t, q
<1> QED
  BY <1>3, <1>5, <1>6, <1>7, <1>8, <1>9 DEF Sound, Frame, r

\* A call is taken up, and nothing else changes.
TakenUp(s, r, c) ==
    /\ r \in Executors /\ Frame(s, r) /\ r.running = s.running /\ r.queue = s.queue
    /\ \A d \in Calls : r.outcome[d] = IF d = c THEN "pending" ELSE s.outcome[d]

\* startRequest before it sends the call or waits.
Takes(r, c) == [r EXCEPT !.running = [call |-> c, posted |-> FALSE, cancelling |-> FALSE]]

LEMMA TakesShape ==
  ASSUME NEW r \in Executors, NEW c \in Calls
  PROVE  LET u == Takes(r, c) IN
         /\ u \in Executors /\ Frame(r, u) /\ u.queue = r.queue /\ u.outcome = r.outcome
         /\ u.running \in Runs /\ u.running.call = c
         /\ ~u.running.posted /\ ~u.running.cancelling
<1> DEFINE run == [call |-> c, posted |-> FALSE, cancelling |-> FALSE]
           u == Takes(r, c)
<1>1. run \in Runs /\ run.call = c /\ ~run.posted /\ ~run.cancelling
  BY DEF Runs
<1>2. u = [r EXCEPT !.running = run]
  BY DEF Takes
<1> HIDE DEF run, u
<1>3. /\ u \in Executors /\ Frame(r, u) /\ u.queue = r.queue /\ u.outcome = r.outcome
      /\ u.running = run
  BY <1>1, <1>2 DEF Executors, Frame
<1> QED
  BY <1>1, <1>3 DEF u

\* A call takes the free slot.
LEMMA SlotTaken ==
  ASSUME NEW A \in SUBSET Calls, NEW s, Sound(s, A), NEW c \in Calls, c \notin A, s.outcome[c] = "idle",
         s.running = NoRun, NEW r, TakenUp(s, r, c)
  PROVE  Sound(Takes(r, c), A) /\ Frame(s, Takes(r, c))
<1> DEFINE u == Takes(r, c)
<1>1. /\ r \in Executors /\ Frame(s, r) /\ r.running = s.running /\ r.queue = s.queue
      /\ \A d \in Calls : r.outcome[d] = IF d = c THEN "pending" ELSE s.outcome[d]
      /\ c \notin ToSet(s.queue) /\ c \notin OwnersOf(Awaiting(s))
  BY DEF TakenUp, Sound, Held, Owners
<1>2. /\ u \in Executors /\ Frame(r, u) /\ u.queue = s.queue /\ u.outcome = r.outcome
      /\ u.running # NoRun /\ u.running.call = c /\ ~u.running.posted /\ ~u.running.cancelling
  BY <1>1, TakesShape, RunShape
<1> HIDE DEF u
<1>3. Frame(s, u) /\ u.status = r.status /\ Running(u, c) /\ \A d : Running(u, d) => d = c
  BY <1>1, <1>2 DEF Frame, Running
<1>4. Attached(u) /\ Awaiting(u) = Awaiting(s)
  BY <1>3, FrameKeeps DEF Sound
<1>5. \A d \in Calls : s.outcome[d] = "pending" <=> d \in ToSet(s.queue)
  BY DEF Sound, Held, Running
<1>6. Held(u)
  BY <1>1, <1>2, <1>3, <1>5 DEF Sound, Held, Frame
<1>7. Owners(u)
  BY <1>1, <1>2, <1>3, <1>4 DEF Sound, Owners, OwnersOf
<1>8. AbortsSeen(u, A)
  BY <1>1, <1>2, <1>5 DEF Sound, AbortsSeen, Running
<1> QED
  BY <1>2, <1>3, <1>4, <1>6, <1>7, <1>8 DEF Sound, u

\* startRequest: the call takes the free slot, and is sent or waits for the worker.
LEMMA StartRequestSound ==
  ASSUME NEW A \in SUBSET Calls, NEW s, Sound(s, A), NEW c \in Calls \ A, s.outcome[c] = "idle",
         s.running = NoRun, s.status # "disposed",
         NEW t \in StartRequest([s EXCEPT !.outcome[c] = "pending"], c)
  PROVE  Sound(t, A) /\ Fails([s EXCEPT !.outcome[c] = "pending"], t)
<1> DEFINE r == [s EXCEPT !.outcome[c] = "pending"]
           u == Takes(r, c)
<1>1. TakenUp(s, r, c)
  BY Taking DEF TakenUp
<1>2. t \in IF r.status = "ready" THEN Post(u, c)
            ELSE { [v EXCEPT !.waiters = Append(@, Owner(c))] : v \in EnsureInitialized(u) }
  BY Zenon DEF StartRequest, Takes
<1> HIDE DEF r, u
<1>3. Sound(u, A) /\ Frame(s, u)
  BY <1>1, SlotTaken DEF u
<1>4. /\ u.status = r.status /\ u.outcome = r.outcome /\ Running(u, c) /\ ~u.running.posted
      /\ c \notin ToSet(u.queue) /\ c \notin OwnersOf(Awaiting(u))
  <2>1. u.outcome = r.outcome /\ u.running \in Runs /\ u.running.call = c /\ ~u.running.posted
    BY <1>1, TakesShape DEF TakenUp, u
  <2>2. Running(u, c)
    BY <2>1, RunShape DEF Running
  <2>3. c \notin ToSet(u.queue)
    BY <1>3, <2>2 DEF Sound, Held
  <2>4. Awaiting(u) = Awaiting(s) /\ c \notin OwnersOf(Awaiting(s))
    BY <1>3, FrameKeeps DEF Sound, Owners
  <2> QED
    BY <1>1, <1>3, <2>1, <2>2, <2>3, <2>4 DEF TakenUp, Frame
<1>5. CASE r.status = "ready"
  <2>1. t \in Post(u, c)
    BY <1>2, <1>5
  <2>2. Sound(t, A) /\ Fails(u, t)
    BY <1>3, <1>4, <2>1, PostSound
  <2> QED
    BY <1>3, <1>4, <2>2 DEF Fails, Rejects, Stands, Frame, r
<1>6. CASE r.status # "ready"
  <2>1. PICK v \in EnsureInitialized(u) : t = [v EXCEPT !.waiters = Append(@, Owner(c))]
    BY <1>2, <1>6, Zenon
  <2>2. u.status \notin {"ready", "disposed"}
    BY <1>1, <1>4, <1>6 DEF TakenUp, Frame
  <2>3. /\ Sound(v, A) /\ v.outcome = u.outcome /\ v.queue = u.queue /\ v.running = u.running
        /\ v.jobs = u.jobs /\ v.waiters = u.waiters /\ Stands(u, v)
    BY <1>3, <2>2, EnsureInitializedSound
  <2>4. Awaiting(v) = Awaiting(u)
    BY <2>3 DEF Awaiting
  <2>5. Owner(c) \in Waiters /\ \A d \in Calls : Owner(c) = Owner(d) => c = d
    BY WaiterShape
  <2>6. v.outcome[c] # "idle" /\ c \notin ToSet(v.queue) /\ ~v.running.posted /\ c \notin OwnersOf(Awaiting(v))
    BY <1>1, <1>3, <1>4, <2>3, <2>4 DEF TakenUp
  <2>7. Sound(t, A) /\ t.outcome = v.outcome /\ t.status = v.status
    BY <2>1, <2>3, <2>5, <2>6, WaitSound
  <2> QED
    BY <1>3, <1>4, <2>3, <2>7 DEF Fails, Rejects, Stands, Frame, r
<1> QED
  BY <1>5, <1>6

\* execute()
LEMMA ExecuteCallSound ==
  ASSUME NEW A \in SUBSET Calls, A = aborted, NEW s, Sound(s, A), NEW c \in Calls, s.outcome[c] = "idle",
         NEW t \in ExecuteCall([s EXCEPT !.outcome[c] = "pending"], c)
  PROVE  Sound(t, A) /\ Fails([s EXCEPT !.outcome[c] = "pending"], t)
<1> DEFINE r == [s EXCEPT !.outcome[c] = "pending"]
<1>1. r.status = s.status /\ r.running = s.running
  BY Taking DEF Frame
<1>2. CASE t = Settle(r, {c}, "runtime")
  BY <1>2, RefusedSound DEF Kinds
<1>3. CASE t = Settle(r, {c}, "cancelled")
  BY <1>3, RefusedSound DEF Kinds
<1>4. CASE c \notin A /\ r.status # "disposed" /\ r.running = NoRun /\ t \in StartRequest(r, c)
  BY <1>1, <1>4, StartRequestSound
<1>5. CASE c \notin A /\ t = [r EXCEPT !.queue = Append(r.queue, c)]
  <2>1. Sound(t, A) /\ t.outcome = r.outcome /\ t.status = r.status
    BY <1>5, QueuedSound
  <2> QED
    BY <2>1 DEF Fails, Rejects, Stands
<1> HIDE DEF r
<1>6. t \in ExecuteCall(r, c)
  BY DEF r
<1> QED
  BY <1>2, <1>3, <1>4, <1>5, <1>6 DEF ExecuteCall, r

\* dispose(): whether the worker was still initialising or not.
LEMMA DisposedSound ==
  ASSUME NEW A \in SUBSET Calls, NEW s, Sound(s, A), NEW init \in {"none", "rejecting"}
  PROVE  LET t == [Teardown([s EXCEPT !.status = "disposed"]) EXCEPT !.init = init] IN
         Sound(t, A) /\ t.outcome = s.outcome
<1> DEFINE u == [Teardown(s) EXCEPT !.status = "disposed"]
           t == [Teardown([s EXCEPT !.status = "disposed"]) EXCEPT !.init = init]
<1>1. Sound(u, A) /\ u.outcome = s.outcome /\ u.status = "disposed"
  BY TeardownSound
<1>2. t = [u EXCEPT !.init = init]
  BY DEF Teardown, Sound, Executors
<1> HIDE DEF u, t
<1>3. t \in Executors
  BY <1>1, <1>2 DEF Sound, Executors
<1>4. /\ t.status = u.status /\ t.worker = u.worker /\ t.live = u.live /\ t.init = init
      /\ t.waiters = u.waiters /\ t.jobs = u.jobs /\ t.running = u.running /\ t.queue = u.queue
      /\ t.outcome = u.outcome /\ t.again = u.again
  BY <1>1, <1>2 DEF Sound, Executors
<1>5. Held(t) /\ Owners(t) /\ AbortsSeen(t, A)
  BY <1>1, <1>4 DEF Sound, Held, Owners, Awaiting, AbortsSeen, Running
<1>6. Attached(t)
  BY <1>1, <1>4 DEF Sound, Attached
<1> QED
  BY <1>1, <1>3, <1>4, <1>5, <1>6 DEF Sound, t

LEMMA DisposedInitialisingSound ==
  ASSUME NEW A \in SUBSET Calls, NEW s, Sound(s, A)
  PROVE  LET t == InitFails([s EXCEPT !.status = "disposed"]) IN Sound(t, A) /\ t.outcome = s.outcome
<1> DEFINE u == [Teardown(s) EXCEPT !.status = "disposed"]
<1>1. Sound(u, A) /\ u.outcome = s.outcome /\ u.status = "disposed"
  BY TeardownSound
<1> DEFINE r == [s EXCEPT !.status = "disposed"]
<1>2. r.status = "disposed" /\ [Teardown(r) EXCEPT !.status = "disposed"] = u
  BY DEF Teardown, Sound, Executors
<1>3. InitFails(r) = WakeWaiters(u, FALSE)
  <2>1. Teardown(r).status = "disposed"
    BY DEF Teardown, Sound, Executors
  <2>2. InitFails(r) = WakeWaiters([Teardown(r) EXCEPT !.status = "disposed"], FALSE)
    BY <2>1 DEF InitFails
  <2> QED
    BY <1>2, <2>2
<1> HIDE DEF u, r
<1>4. [u EXCEPT !.status = "disposed"] = u
  BY <1>1, SameStatus DEF Sound
<1>5. u.worker = 0
  BY <1>1 DEF Sound, Attached
<1>6. LET t == WakeWaiters([u EXCEPT !.status = "disposed"], FALSE) IN Sound(t, A) /\ t.outcome = u.outcome
  BY <1>1, <1>5, WakeSound
<1> QED
  BY <1>1, <1>3, <1>4, <1>6 DEF r

-----------------------------------------------------------------------------
(* The actions.  Each keeps the invariant and is a step of the contract.   *)

Obeys == Contract!Next \/ UNCHANGED Contract!vars

\* No call is taken up: what was not called yet stays so.
NoneTaken == \A c \in Calls : exec'.outcome[c] = "idle" <=> exec.outcome[c] = "idle"

LEMMA OutcomeShape ==
  ASSUME NEW A, NEW s, Sound(s, A)
  PROVE  s.outcome \in [Calls -> {"idle", "pending"} \cup {"value", "function", "deadline"}
                                    \cup {"cancelled", "runtime"}]
<1>1. Kinds = {"value", "function", "deadline"} \cup {"cancelled", "runtime"}
  BY DEF Kinds
<1> QED
  BY <1>1 DEF Sound, Executors

\* What settles without a signal is a Step of the contract.
LEMMA AnsweredStep ==
  ASSUME IInv, UNCHANGED aborted, Sound(exec', aborted), Answers(exec, exec', aborted)
  PROVE  IInv' /\ Obeys /\ NoneTaken
<1>1. IInv'
  BY DEF IInv
<1>2. Contract!Step
  <2>1. exec.outcome' \in [Calls -> {"idle", "pending"} \cup {"value", "function", "deadline"}
                                       \cup {"cancelled", "runtime"}]
    BY OutcomeShape
  <2>2. ASSUME NEW c \in Calls, exec.outcome'[c] # exec.outcome[c]
        PROVE  /\ exec.outcome[c] \in {"idle", "pending"}
               /\ exec.outcome'[c] # "idle"
               /\ exec.outcome'[c] \in {"value", "function", "deadline"} => c \notin aborted
    BY <2>2 DEF Answers, Kinds
  <2> QED
    BY <2>1, <2>2 DEF Contract!Step
<1>3. NoneTaken
  BY DEF Answers, NoneTaken, Kinds
<1> QED
  BY <1>1, <1>2, <1>3 DEF Obeys, Contract!Next

LEMMA SettledStep ==
  ASSUME IInv, UNCHANGED aborted, Sound(exec', aborted), Settles(exec, exec', aborted)
  PROVE  IInv' /\ Obeys /\ NoneTaken /\ Stands(exec, exec')
BY AnsweredStep DEF Settles

LEMMA FailedStep ==
  ASSUME IInv, UNCHANGED aborted, Sound(exec', aborted), Fails(exec, exec')
  PROVE  IInv' /\ Obeys /\ NoneTaken /\ Stands(exec, exec')
<1>1. Settles(exec, exec', aborted)
  BY DEF Fails, Settles, Kinds, Rejects, Stands, Answers
<1> QED
  BY <1>1, SettledStep

LEMMA QuietStep ==
  ASSUME IInv, UNCHANGED aborted, Sound(exec', aborted), exec'.outcome = exec.outcome,
         Stands(exec, exec')
  PROVE  IInv' /\ Obeys /\ NoneTaken /\ Stands(exec, exec')
BY FailedStep DEF Fails, Rejects

\* A call is taken up, whether it settles at once or not.
LEMMA TakenStep ==
  ASSUME IInv, NEW c \in Calls, exec.outcome[c] = "idle", UNCHANGED aborted,
         Sound(exec', aborted), Fails([exec EXCEPT !.outcome[c] = "pending"], exec')
  PROVE  /\ IInv' /\ Obeys /\ Stands(exec, exec')
         /\ \A d \in Calls : exec'.outcome[d] = "idle" <=> exec.outcome[d] = "idle" /\ d # c
<1> DEFINE r == [exec EXCEPT !.outcome[c] = "pending"]
<1>1. aborted \subseteq Calls /\ Sound(exec, aborted)
  BY DEF IInv
<1>2. \A d \in Calls : r.outcome[d] = IF d = c THEN "pending" ELSE exec.outcome[d]
  BY <1>1, Taking
<1>3. Fails(r, exec') /\ r.status = exec.status
  BY <1>1, Taking DEF Frame
<1> HIDE DEF r
<1>4. IInv'
  BY <1>1 DEF IInv
<1>5. Contract!Step
  <2>1. exec.outcome' \in [Calls -> {"idle", "pending"} \cup {"value", "function", "deadline"}
                                       \cup {"cancelled", "runtime"}]
    BY OutcomeShape
  <2>2. ASSUME NEW d \in Calls, exec.outcome'[d] # exec.outcome[d]
        PROVE  /\ exec.outcome[d] \in {"idle", "pending"}
               /\ exec.outcome'[d] # "idle"
               /\ exec.outcome'[d] \in {"value", "function", "deadline"} => d \notin aborted
    BY <1>2, <1>3, <2>2 DEF Fails, Rejects, Stands
  <2> QED
    BY <2>1, <2>2 DEF Contract!Step
<1>6. \A d \in Calls : exec'.outcome[d] = "idle" <=> exec.outcome[d] = "idle" /\ d # c
  BY <1>2, <1>3 DEF Fails, Rejects, Stands
<1> QED
  BY <1>3, <1>4, <1>5, <1>6 DEF Obeys, Contract!Next, Fails, Stands

LEMMA ExecuteStep ==
  ASSUME IInv, NEW c \in Calls, Execute(c)
  PROVE  /\ IInv' /\ Obeys /\ Stands(exec, exec')
         /\ \A d \in Calls : exec'.outcome[d] = "idle" <=> exec.outcome[d] = "idle" /\ d # c
<1> DEFINE r == [exec EXCEPT !.outcome[c] = "pending"]
<1>1. aborted \subseteq Calls /\ Sound(exec, aborted)
  BY DEF IInv
<1>2. exec.outcome[c] = "idle" /\ exec' \in ExecuteCall(r, c) /\ UNCHANGED aborted
  BY DEF Execute
<1>3. Sound(exec', aborted) /\ Fails(r, exec')
  BY <1>1, <1>2, ExecuteCallSound
<1> QED
  BY <1>2, <1>3, TakenStep

LEMMA AbortStep ==
  ASSUME IInv, NEW c \in Calls, Abort(c)
  PROVE  IInv' /\ Obeys /\ NoneTaken /\ Stands(exec, exec')
<1>1. aborted \subseteq Calls /\ Sound(exec, aborted)
  BY DEF IInv
<1>2. aborted' = aborted \cup {c}
  BY DEF Abort
<1>3. Sound(exec', aborted \cup {c}) /\ Fails(exec, exec')
  <2>1. CASE exec.outcome[c] = "pending"
    <3>1. exec' \in AbortPending(exec, c)
      BY <2>1 DEF Abort
    <3> QED
      BY <1>1, <2>1, <3>1, AbortPendingSound
  <2>2. CASE exec.outcome[c] # "pending"
    <3>1. exec' = exec
      BY <2>2 DEF Abort
    <3> QED
      BY <1>1, <2>2, <3>1, AbortOfSettled DEF Fails, Rejects, Stands
  <2> QED
    BY <2>1, <2>2
<1>4. IInv'
  BY <1>1, <1>2, <1>3 DEF IInv
<1>5. Contract!Abort(c)
  <2>1. exec.outcome' \in [Calls -> {"idle", "pending"} \cup {"value", "function", "deadline"}
                                       \cup {"cancelled", "runtime"}]
    BY <1>3, OutcomeShape
  <2> QED
    BY <1>2, <1>3, <2>1 DEF Contract!Abort, Fails, Rejects, Stands
<1>6. NoneTaken
  BY <1>3 DEF Fails, NoneTaken, Rejects, Stands
<1> QED
  BY <1>3, <1>4, <1>5, <1>6 DEF Obeys, Contract!Next, Fails

LEMMA DisposeStep ==
  ASSUME IInv, Dispose
  PROVE  IInv' /\ Obeys /\ NoneTaken
<1> DEFINE ended == IF exec.running = NoRun THEN exec ELSE FinishRun(exec, "runtime")
           r == RejectAllQueued(ended, "runtime")
           s == [r EXCEPT !.status = "disposed"]
<1>1. aborted \in SUBSET Calls /\ Sound(exec, aborted) /\ UNCHANGED aborted
  BY DEF IInv, Dispose
<1>2. exec' = IF exec.init = "loading" THEN InitFails(s) ELSE [Teardown(s) EXCEPT !.init = s.init]
  BY DEF Dispose
<1>3. Sound(ended, aborted) /\ Fails(exec, ended) /\ ended.init = exec.init
  <2>1. CASE exec.running = NoRun
    BY <1>1, <2>1 DEF Fails, Rejects, Stands
  <2>2. CASE exec.running # NoRun
    BY <1>1, <2>2, FinishRunSound DEF Kinds, Frame
  <2> QED
    BY <2>1, <2>2
<1> HIDE DEF ended
<1>4. Sound(r, aborted) /\ Fails(ended, r) /\ r.init = exec.init
  BY <1>1, <1>3, RejectAllQueuedSound DEF Frame
<1>5. Fails(exec, r)
  BY <1>3, <1>4, FailsCompose
<1> HIDE DEF r
<1>6. CASE exec.init = "loading"
  <2>1. Sound(exec', aborted) /\ exec'.outcome = r.outcome
    BY <1>1, <1>2, <1>4, <1>6, DisposedInitialisingSound
  <2> QED
    BY <1>1, <1>5, <2>1, AnsweredStep DEF Fails, Rejects, Answers, Kinds
<1>7. CASE exec.init # "loading"
  <2>1. r.init \in {"none", "rejecting"} /\ s.init = r.init
    BY <1>4, <1>7 DEF Sound, Executors
  <2>2. Sound(exec', aborted) /\ exec'.outcome = r.outcome
    BY <1>1, <1>2, <1>4, <1>7, <2>1, DisposedSound
  <2> QED
    BY <1>1, <1>5, <2>2, AnsweredStep DEF Fails, Rejects, Answers, Kinds
<1> QED
  BY <1>6, <1>7

LEMMA InitRejectsStep ==
  ASSUME IInv, InitRejects
  PROVE  IInv' /\ Obeys /\ NoneTaken /\ Stands(exec, exec')
<1>1. /\ aborted \in SUBSET Calls /\ Sound(exec, aborted) /\ UNCHANGED aborted
      /\ exec.init = "rejecting" /\ exec' = WakeWaiters(exec, FALSE)
  BY DEF IInv, InitRejects
<1>2. exec.status \in {"empty", "ready", "disposed"} /\ (exec.status = "ready" <=> exec.worker # 0)
  BY <1>1 DEF Sound, Attached, Executors, Statuses
<1>3. [exec EXCEPT !.status = exec.status] = exec
  BY <1>1, SameStatus DEF Sound
<1>4. LET t == WakeWaiters([exec EXCEPT !.status = exec.status], FALSE) IN
      Sound(t, aborted) /\ t.outcome = exec.outcome
  BY <1>1, <1>2, WakeSound
<1>5. Stands(exec, exec')
  BY <1>1, WakeKeepsStatus DEF Sound, Stands
<1> QED
  BY <1>1, <1>3, <1>4, <1>5, QuietStep

LEMMA ContinueStep ==
  ASSUME IInv, Continue
  PROVE  IInv' /\ Obeys /\ NoneTaken /\ Stands(exec, exec')
<1> DEFINE j == Head(exec.jobs)
           s == [exec EXCEPT !.jobs = Tail(@)]
<1>1. /\ aborted \in SUBSET Calls /\ Sound(exec, aborted) /\ UNCHANGED aborted
      /\ exec.jobs # <<>>
      /\ exec' \in IF j.waiter.role = "owner" THEN OwnerContinues(s, j.waiter.call, j.ok)
                   ELSE DrainContinues(s, j.ok)
  BY DEF IInv, Continue
<1>2. /\ Sound(s, aborted) /\ s.outcome = exec.outcome /\ s.status = exec.status
      /\ j \in Jobs
      /\ \A c \in Calls : j.waiter = Owner(c) =>
            c \notin OwnersOf(Awaiting(s)) /\ (Running(s, c) => ~s.running.posted)
  BY <1>1, JobTakenSound
<1> HIDE DEF s, j
<1>3. j.waiter \in Waiters /\ j.ok \in BOOLEAN
  BY <1>2 DEF Jobs
<1>4. CASE j.waiter.role = "owner"
  <2>1. PICK c \in Calls : j.waiter = Owner(c) /\ j.waiter.call = c
    BY <1>3, <1>4, WaiterShape
  <2>2. Sound(exec', aborted) /\ Fails(s, exec')
    BY <1>1, <1>2, <1>3, <1>4, <2>1, OwnerContinuesSound
  <2> QED
    BY <1>1, <1>2, <2>2, FailedStep DEF Fails, Rejects, Stands
<1>5. CASE j.waiter.role # "owner"
  <2>1. Sound(exec', aborted) /\ Fails(s, exec')
    BY <1>1, <1>2, <1>3, <1>5, DrainContinuesSound
  <2> QED
    BY <1>1, <1>2, <2>1, FailedStep DEF Fails, Rejects, Stands
<1> QED
  BY <1>4, <1>5

LEMMA TimersStep ==
  ASSUME IInv, Timers
  PROVE  IInv' /\ Obeys /\ NoneTaken /\ Stands(exec, exec')
<1>1. aborted \in SUBSET Calls /\ Sound(exec, aborted)
  BY DEF IInv
<1>2. CASE InitTimeout
  BY <1>1, <1>2, InitFailsSound, QuietStep DEF InitTimeout
<1>3. CASE HardTimeout
  <2> DEFINE kind == IF exec.running.cancelling THEN "cancelled" ELSE "deadline"
  <2>1. exec.running # NoRun /\ exec' \in FailGeneration(exec, kind) /\ UNCHANGED aborted
    BY <1>3 DEF HardTimeout
  <2>2. kind \in Kinds /\ (exec.running.cancelling => kind \in {"cancelled", "runtime"})
    BY DEF Kinds
  <2> HIDE DEF kind
  <2>3. /\ Sound(exec', aborted)
        /\ kind \in {"cancelled", "runtime"} => Fails(exec, exec')
        /\ ~exec.running.cancelling => Settles(exec, exec', aborted)
    BY <1>1, <2>1, <2>2, FailGenerationSound
  <2> QED
    BY <2>1, <2>2, <2>3, SettledStep, FailedStep
<1>4. CASE CancelAckTimeout
  <2>1. exec' \in FailGeneration(exec, "cancelled") /\ UNCHANGED aborted
    BY <1>4 DEF CancelAckTimeout
  <2>2. Sound(exec', aborted) /\ Fails(exec, exec')
    BY <1>1, <2>1, FailGenerationSound DEF Kinds
  <2> QED
    BY <2>1, <2>2, FailedStep
<1> QED
  BY <1>2, <1>3, <1>4 DEF Timers

LEMMA OnMessageStep ==
  ASSUME IInv, NEW m \in Responses, OnMessage(m)
  PROVE  IInv' /\ Obeys /\ NoneTaken /\ Stands(exec, exec')
<1>1. aborted \in SUBSET Calls /\ Sound(exec, aborted) /\ UNCHANGED aborted
  BY DEF IInv, OnMessage
<1>2. CASE exec.status = "initializing"
  <2>1. exec' \in InitMessage(exec, m)
    BY <1>2 DEF OnMessage
  <2> QED
    BY <1>1, <1>2, <2>1, InitMessageSound, QuietStep
<1>3. CASE exec.status # "initializing"
  <2>1. exec' \in ReadyMessage(exec, m)
    BY <1>3 DEF OnMessage
  <2> QED
    BY <1>1, <2>1, ReadyMessageSound, SettledStep
<1> QED
  BY <1>2, <1>3

-----------------------------------------------------------------------------
(* The executor with a worker that may send anything at any time.          *)

LEMMA InitSound == Init => IInv /\ Contract!Init
<1> SUFFICES ASSUME Init PROVE IInv /\ Contract!Init
  OBVIOUS
<1> DEFINE none == <<>>
<1>1. /\ exec = [status |-> "empty", generation |-> 0, worker |-> 0, live |-> {},
                 running |-> NoRun, queue |-> none, init |-> "none", waiters |-> none,
                 jobs |-> none, outbox |-> none,
                 outcome |-> [c \in Calls |-> "idle"], again |-> {}]
      /\ aborted = {}
  BY DEF Init
<1>2. /\ none \in Seq(Calls) /\ none \in Seq(Waiters) /\ none \in Seq(Requests)
      /\ none \in Seq([waiter : Waiters, ok : BOOLEAN]) /\ none \in Seq(Jobs)
  OBVIOUS
<1>3. ToSet(none) = {} /\ Distinct(none)
  BY DEF ToSet, Distinct
<1>4. Due(none) \o none = none
  <2>1. Due(none) \in Seq(Waiters) /\ Len(Due(none)) = Len(none)
    BY <1>2, DueShape
  <2>2. Due(none) = none
    BY <2>1, EmptySeq
  <2> QED
    BY <1>2, <2>2, ConcatEmptySeq
<1>5. OwnersOf(none) = {} /\ OwnersOnce(none)
  BY DEF OwnersOf, OwnersOnce
<1> HIDE DEF none
<1>6. exec \in Executors
  BY <1>1, <1>2 DEF Executors, Statuses
<1>7. Awaiting(exec) = none
  BY <1>1, <1>4 DEF Awaiting
<1>8. Held(exec) /\ Attached(exec)
  BY <1>1, <1>3 DEF Held, Attached, Running
<1>9. Owners(exec) /\ AbortsSeen(exec, aborted)
  BY <1>1, <1>5, <1>7 DEF Owners, AbortsSeen
<1> QED
  BY <1>1, <1>6, <1>8, <1>9 DEF IInv, Sound, Contract!Init

LEMMA NextSound == IInv /\ [Next]_vars => IInv' /\ Obeys
<1> SUFFICES ASSUME IInv, [Next]_vars PROVE IInv' /\ Obeys
  OBVIOUS
<1>1. ASSUME NEW c \in Calls, Execute(c) PROVE IInv' /\ Obeys
  BY <1>1, ExecuteStep
<1>2. ASSUME NEW c \in Calls, Abort(c) PROVE IInv' /\ Obeys
  BY <1>2, AbortStep
<1>3. ASSUME NEW m \in Responses, OnMessage(m) PROVE IInv' /\ Obeys
  BY <1>3, OnMessageStep
<1>4. CASE Continuations
  BY <1>4, InitRejectsStep, ContinueStep DEF Continuations
<1>5. CASE UNCHANGED vars
  <2>1. /\ UNCHANGED aborted /\ Sound(exec', aborted) /\ exec'.outcome = exec.outcome
        /\ Stands(exec, exec')
    BY <1>5 DEF vars, IInv, Stands
  <2> QED
    BY <2>1, QuietStep
<1> QED
  BY <1>1, <1>2, <1>3, <1>4, <1>5, DisposeStep, TimersStep DEF Next

LEMMA NextStands ==
  ASSUME IInv, [Next]_vars, ~Dispose
  PROVE  Stands(exec, exec')
<1>1. ASSUME NEW c \in Calls, Execute(c) \/ Abort(c) PROVE Stands(exec, exec')
  BY <1>1, ExecuteStep, AbortStep
<1>2. ASSUME NEW m \in Responses, OnMessage(m) PROVE Stands(exec, exec')
  BY <1>2, OnMessageStep
<1>3. CASE Continuations
  BY <1>3, InitRejectsStep, ContinueStep DEF Continuations
<1>4. CASE UNCHANGED vars
  BY <1>4 DEF vars, Stands
<1> QED
  BY <1>1, <1>2, <1>3, <1>4, TimersStep DEF Next

LEMMA IInvIsEnough == IInv => PendingIsHeld /\ OneWorker
<1> SUFFICES ASSUME IInv PROVE PendingIsHeld /\ OneWorker
  OBVIOUS
<1>1. /\ exec \in Executors /\ Held(exec) /\ Attached(exec)
      /\ exec.running \in Runs \cup {NoRun} /\ exec.queue \in Seq(Calls)
  BY DEF IInv, Sound, Executors
<1>2. ToSet(exec.queue) \subseteq Calls /\ RunningCalls = {c \in Calls : Running(exec, c)}
  <2>1. ToSet(exec.queue) \subseteq Calls
    BY <1>1 DEF ToSet
  <2>2. exec.running # NoRun => exec.running.call \in Calls
    BY <1>1, RunShape
  <2> QED
    BY <2>1, <2>2 DEF RunningCalls, Running
<1>3. PendingIsHeld
  BY <1>1, <1>2 DEF PendingIsHeld, Pending, Held, Distinct
<1>4. OneWorker
  BY <1>1 DEF OneWorker, Attached
<1> QED
  BY <1>3, <1>4

\* The invariant of the executor: the calls that are pending are held, one worker is attached and
\* alive while the executor needs one, each call awaits the worker at most once and unsent, and a
\* call whose signal fired is settled or its cancel is on the way (web-worker-sandbox.ts).
THEOREM Invariance == Spec => []IInv
<1>1. Init => IInv
  BY InitSound
<1>2. IInv /\ [Next]_vars => IInv'
  BY NextSound
<1> QED
  BY <1>1, <1>2, PTL DEF Spec

\* The executor keeps the promise of the SandboxExecutor interface whatever its worker answers, in
\* any order: each call settles once, and nothing is committed for it after its signal fired.
THEOREM ImplementsExecutionContract == Spec => ImplementsContract
<1>1. Init => Contract!Init
  BY InitSound
<1>2. IInv /\ [Next]_vars => [Contract!Next]_(Contract!vars)
  BY NextSound DEF Obeys
<1> QED
  BY <1>1, <1>2, Invariance, PTL DEF Spec, ImplementsContract, Contract!Spec

-----------------------------------------------------------------------------
(* Disposal.                                                               *)

\* A disposed executor holds no call.
Down == exec.status = "disposed" => exec.running = NoRun /\ exec.queue = <<>>

\* dispose() empties the slot and the queue.
LEMMA DisposeEmpties ==
  ASSUME IInv, Dispose
  PROVE  exec'.running = NoRun /\ exec'.queue = <<>>
<1> DEFINE ended == IF exec.running = NoRun THEN exec ELSE FinishRun(exec, "runtime")
           r == RejectAllQueued(ended, "runtime")
           s == [r EXCEPT !.status = "disposed"]
<1>1. exec \in Executors /\ Sound(exec, aborted) /\ aborted \in SUBSET Calls
  BY DEF IInv, Sound
<1>2. exec' = IF exec.init = "loading" THEN InitFails(s) ELSE [Teardown(s) EXCEPT !.init = s.init]
  BY DEF Dispose
<1>3. Sound(ended, aborted) /\ ended.running = NoRun
  <2>1. CASE exec.running = NoRun
    BY <1>1, <2>1
  <2>2. CASE exec.running # NoRun
    BY <1>1, <2>2, FinishRunSound DEF Kinds
  <2> QED
    BY <2>1, <2>2
<1> HIDE DEF ended
<1>4. Sound(r, aborted) /\ r.running = NoRun /\ r.queue = <<>>
  <2>1. Sound(r, aborted)
    BY <1>1, <1>3, RejectAllQueuedSound
  <2> QED
    BY <1>3, <2>1 DEF RejectAllQueued, Settle, Sound, Executors
<1> HIDE DEF r
<1>5. r \in Executors /\ s.running = NoRun /\ s.queue = <<>>
  BY <1>4 DEF Sound, Executors
<1>6. CASE exec.init = "loading"
  BY <1>2, <1>4, <1>5, <1>6 DEF InitFails, WakeWaiters, Teardown, Executors
<1>7. CASE exec.init # "loading"
  BY <1>2, <1>4, <1>5, <1>7 DEF Teardown, Executors
<1> QED
  BY <1>6, <1>7

\* What may still happen to a disposed executor: calls are refused, and continuations find nothing.
LEMMA DownStays ==
  ASSUME IInv, Down, exec.status = "disposed", [Next]_vars
  PROVE  exec'.status = "disposed" /\ exec'.running = NoRun /\ exec'.queue = <<>>
<1>1. /\ exec \in Executors /\ Sound(exec, aborted) /\ aborted \in SUBSET Calls
      /\ exec.running = NoRun /\ exec.queue = <<>>
      /\ exec.worker = 0 /\ exec.init # "loading"
  BY DEF IInv, Sound, Down, Attached
<1>2. ASSUME NEW c \in Calls, Execute(c)
      PROVE  exec'.status = "disposed" /\ exec'.running = NoRun /\ exec'.queue = <<>>
  <2> DEFINE r == [exec EXCEPT !.outcome[c] = "pending"]
  <2>1. /\ r \in Executors /\ Frame(exec, r) /\ r.running = exec.running /\ r.queue = exec.queue
        /\ r.outcome[c] = "pending"
    <3>1. exec.outcome[c] = "idle"
      BY <1>2 DEF Execute
    <3> QED
      <4>1. aborted \in SUBSET Calls /\ Sound(exec, aborted)
        BY <1>1
      <4>2. /\ r \in Executors /\ Frame(exec, r) /\ r.running = exec.running /\ r.queue = exec.queue
            /\ \A d \in Calls : r.outcome[d] = IF d = c THEN "pending" ELSE exec.outcome[d]
        BY <3>1, <4>1, Taking
      <4> QED
        BY <4>2
  <2>2. exec' \in ExecuteCall(r, c)
    BY <1>2 DEF Execute
  <2> HIDE DEF r
  <2>3. exec' = Settle(r, {c}, "runtime")
    BY <2>1, <2>2 DEF ExecuteCall, Frame
  <2>4. Frame(r, exec') /\ exec'.running = r.running /\ exec'.queue = r.queue
    <3>1. {c} \in SUBSET Calls /\ (\A d \in {c} : r.outcome[d] = "pending") /\ "runtime" \in Kinds
      BY <2>1 DEF Kinds
    <3> QED
      BY <2>1, <2>3, <3>1, SettleEffect
  <2> QED
    BY <1>1, <2>1, <2>4 DEF Frame
<1>3. ASSUME NEW c \in Calls, Abort(c) PROVE exec' = exec
  <2>1. ToSet(exec.queue) = {}
    BY <1>1 DEF ToSet
  <2>2. exec.outcome[c] # "pending"
    BY <1>1, <2>1 DEF Sound, Held, Running
  <2> QED
    BY <1>3, <2>2 DEF Abort
<1>4. ~Dispose /\ ~Timers /\ \A m : ~OnMessage(m)
  BY <1>1 DEF Dispose, Timers, InitTimeout, HardTimeout, CancelAckTimeout, OnMessage
<1>5. CASE InitRejects
  BY <1>1, <1>5 DEF InitRejects, WakeWaiters, Executors
<1>6. CASE Continue
  <2> DEFINE s == [exec EXCEPT !.jobs = Tail(@)]
             j == Head(exec.jobs)
  <2>1. /\ s.status = "disposed" /\ s.running = NoRun /\ s.queue = <<>>
        /\ RejectAllQueued(s, "runtime").status = "disposed"
        /\ RejectAllQueued(s, "runtime").running = NoRun /\ RejectAllQueued(s, "runtime").queue = <<>>
    BY <1>1 DEF Executors, RejectAllQueued, Settle
  <2>2. exec' \in IF j.waiter.role = "owner" THEN OwnerContinues(s, j.waiter.call, j.ok)
                  ELSE DrainContinues(s, j.ok)
    BY <1>6 DEF Continue
  <2> HIDE DEF s, j
  <2>3. exec' \in {s, RejectAllQueued(s, "runtime")}
    BY <2>1, <2>2 DEF OwnerContinues, DrainContinues, Drain
  <2> QED
    BY <2>1, <2>3
<1>7. CASE UNCHANGED vars
  BY <1>1, <1>7 DEF vars
<1> QED
  BY <1>1, <1>2, <1>3, <1>4, <1>5, <1>6, <1>7 DEF Next, Continuations

LEMMA DownSound == IInv /\ Down /\ [Next]_vars => Down'
<1> SUFFICES ASSUME IInv, Down, [Next]_vars PROVE Down'
  OBVIOUS
<1>1. CASE exec.status = "disposed"
  BY <1>1, DownStays DEF Down
<1>2. CASE exec.status # "disposed" /\ Dispose
  BY <1>2, DisposeEmpties DEF Down
<1>3. CASE exec.status # "disposed" /\ ~Dispose
  <2>1. Stands(exec, exec')
    BY <1>3, NextStands
  <2> QED
    BY <1>3, <2>1 DEF Down, Stands
<1> QED
  BY <1>1, <1>2, <1>3

\* A disposed executor is not resurrected by a late initialisation, timer, message or continuation:
\* it keeps its status, holds no call and has no worker (dispose() in web-worker-sandbox.ts).
THEOREM DisposedIsFinal == Spec => DisposedStaysDown
<1>1. Init => Down
  BY DEF Init, Down
<1>2. IInv /\ Down /\ [Next]_vars => Down'
  BY DownSound
<1>3. /\ IInv /\ IInv' /\ Down /\ [Next]_vars
      => [exec.status = "disposed" =>
            exec'.status = "disposed" /\ exec'.live = {} /\ exec'.running = NoRun
                /\ exec'.queue = <<>>]_vars
  <2> SUFFICES ASSUME IInv, IInv', Down, [Next]_vars, exec.status = "disposed"
               PROVE  exec'.status = "disposed" /\ exec'.live = {} /\ exec'.running = NoRun
                          /\ exec'.queue = <<>>
    OBVIOUS
  <2>1. exec'.status = "disposed" /\ exec'.running = NoRun /\ exec'.queue = <<>>
    BY DownStays
  <2>2. exec'.live = {}
    BY <2>1 DEF IInv, Sound, Attached
  <2> QED
    BY <2>1, <2>2
<1> QED
  BY <1>1, <1>2, <1>3, Invariance, PTL DEF Spec, DisposedStaysDown

-----------------------------------------------------------------------------
(* The executor composed with the package's worker.                        *)

\* What is between the page and the worker.
Wires == busy \in Requests \cup {NoRun} /\ replies \in Seq(Responses)

SystemIInv == IInv /\ Wires

LEMMA PageSound ==
  ASSUME SystemIInv, NEW ACTION A, A => Next, Page(A)
  PROVE  SystemIInv' /\ Obeys
<1>1. IInv' /\ Obeys
  BY NextSound DEF Page, SystemIInv
<1>2. Wires'
  <2>1. <<>> \in Seq(Responses)
    OBVIOUS
  <2>2. CASE UNCHANGED <<busy, replies>>
    BY <2>2 DEF SystemIInv, Wires
  <2>3. CASE busy' = NoRun /\ replies' = <<>>
    BY <2>1, <2>3 DEF Wires
  <2> QED
    BY <2>2, <2>3 DEF Page
<1> QED
  BY <1>1, <1>2 DEF SystemIInv

LEMMA DeliverSound ==
  ASSUME SystemIInv, Deliver
  PROVE  SystemIInv' /\ Obeys
<1>1. Head(replies) \in Responses /\ Tail(replies) \in Seq(Responses)
  BY HeadTailProperties DEF SystemIInv, Wires, Deliver
<1>2. IInv' /\ Obeys
  BY <1>1, OnMessageStep DEF Deliver, SystemIInv
<1>3. Wires'
  <2>1. <<>> \in Seq(Responses)
    OBVIOUS
  <2>2. CASE replies' = Tail(replies) /\ UNCHANGED busy
    BY <1>1, <2>2 DEF SystemIInv, Wires
  <2>3. CASE busy' = NoRun /\ replies' = <<>>
    BY <2>1, <2>3 DEF Wires
  <2> QED
    BY <2>2, <2>3 DEF Deliver
<1> QED
  BY <1>2, <1>3 DEF SystemIInv

LEMMA WorkerReceivesSound ==
  ASSUME SystemIInv, WorkerReceives
  PROVE  SystemIInv' /\ Obeys
<1> DEFINE o == Tail(exec.outbox)
<1>1. /\ IInv /\ exec \in Executors /\ exec.outbox \in Seq(Requests) /\ exec.outbox # <<>>
      /\ busy' = Head(exec.outbox) /\ exec' = [exec EXCEPT !.outbox = o]
      /\ UNCHANGED <<aborted, replies>>
  BY DEF SystemIInv, IInv, Sound, Executors, WorkerReceives
<1>2. o \in Seq(Requests) /\ busy' \in Requests
  BY <1>1, HeadTailProperties
<1> HIDE DEF o
<1>3. /\ exec' \in Executors /\ Frame(exec, exec') /\ exec'.running = exec.running
      /\ exec'.queue = exec.queue /\ exec'.outcome = exec.outcome
  BY <1>1, <1>2 DEF Executors, Frame
<1>4. Attached(exec') /\ Awaiting(exec') = Awaiting(exec)
  BY <1>1, <1>3, FrameKeeps DEF IInv, Sound
<1>5. Sound(exec', aborted)
  BY <1>1, <1>3, <1>4 DEF IInv, Sound, Held, Owners, AbortsSeen, Running, Frame
<1>6. IInv' /\ Obeys
  BY <1>1, <1>3, <1>5, QuietStep DEF Frame, Stands
<1> QED
  BY <1>1, <1>2, <1>6 DEF SystemIInv, Wires

\* The worker answers what it was asked.
LEMMA ReplySound ==
  ASSUME SystemIInv, HandleInit \/ HandleExecute \/ HandleCancel
  PROVE  SystemIInv' /\ Obeys
<1>1. UNCHANGED <<exec, aborted>> /\ busy' = NoRun
  BY DEF HandleInit, HandleExecute, HandleCancel, Reply
<1>2. IInv' /\ Obeys
  <2>1. Sound(exec', aborted) /\ exec'.outcome = exec.outcome /\ Stands(exec, exec')
    BY <1>1 DEF SystemIInv, IInv, Stands
  <2> QED
    BY <1>1, <2>1, QuietStep DEF SystemIInv
<1>3. replies' \in Seq(Responses)
  <2>1. CASE HandleInit
    <3>1. PICK ok \in BOOLEAN : Reply([type |-> "init-result", ok |-> ok])
      BY <2>1 DEF HandleInit
    <3>2. [type |-> "init-result", ok |-> ok] \in Responses
      BY DEF Responses
    <3> QED
      BY <3>1, <3>2, AppendProperties DEF Reply, SystemIInv, Wires
  <2>2. CASE HandleExecute
    <3>1. PICK kind \in Kinds \ {"cancelled"} :
            Reply([type |-> "execute-result", call |-> busy.call, kind |-> kind])
      BY <2>2 DEF HandleExecute
    <3>2. busy.call \in Calls
      BY <2>2 DEF HandleExecute, SystemIInv, Wires, Requests
    <3>3. [type |-> "execute-result", call |-> busy.call, kind |-> kind] \in Responses
      BY <3>2 DEF Responses
    <3> QED
      BY <3>1, <3>3, AppendProperties DEF Reply, SystemIInv, Wires
  <2>3. CASE HandleCancel
    BY <2>3 DEF HandleCancel, SystemIInv, Wires
  <2> QED
    BY <2>1, <2>2, <2>3
<1> QED
  BY <1>1, <1>2, <1>3 DEF SystemIInv, Wires

LEMMA SystemNextSound == SystemIInv /\ [SystemNext]_systemVars => SystemIInv' /\ Obeys
<1> SUFFICES ASSUME SystemIInv, [SystemNext]_systemVars PROVE SystemIInv' /\ Obeys
  OBVIOUS
<1>1. CASE Page(\E c \in Calls : Execute(c) \/ Abort(c))
  <2>1. (\E c \in Calls : Execute(c) \/ Abort(c)) => Next
    BY DEF Next
  <2> QED
    BY <1>1, <2>1, PageSound
<1>2. CASE Page(Dispose)
  BY <1>2, PageSound DEF Next
<1>3. CASE Page(Continuations)
  BY <1>3, PageSound DEF Next
<1>4. CASE Page(Timers)
  BY <1>4, PageSound DEF Next
<1>5. CASE Crash
  <2>1. [type |-> "error"] \in Responses
    BY DEF Responses
  <2>2. OnMessage([type |-> "error"]) => Next
    BY <2>1 DEF Next
  <2> QED
    BY <1>5, <2>2, PageSound DEF Crash
<1>6. CASE ForeignWorker
  <2>1. (\E m \in Responses : OnMessage(m)) => Next
    BY DEF Next
  <2> QED
    BY <1>6, <2>1, PageSound DEF ForeignWorker
<1>7. CASE UNCHANGED systemVars
  <2>1. [Next]_vars /\ UNCHANGED <<busy, replies>>
    BY <1>7 DEF systemVars, vars
  <2> QED
    BY <2>1, NextSound DEF SystemIInv, Wires
<1> QED
  BY <1>1, <1>2, <1>3, <1>4, <1>5, <1>6, <1>7, DeliverSound, WorkerReceivesSound, ReplySound
     DEF SystemNext, WorkerStep

LEMMA SystemInitSound == SystemInit => SystemIInv /\ Contract!Init
<1>1. <<>> \in Seq(Responses)
  OBVIOUS
<1> QED
  BY <1>1, InitSound DEF SystemInit, SystemIInv, Wires

\* The same invariant in the composed system, with what is between the page and the worker.
THEOREM SystemInvariance == SystemSpec => []SystemIInv
<1>1. SystemInit => SystemIInv
  BY SystemInitSound
<1>2. SystemIInv /\ [SystemNext]_systemVars => SystemIInv'
  BY SystemNextSound
<1> QED
  BY <1>1, <1>2, PTL DEF SystemSpec

\* In the composed system no call is lost or held twice: a call is pending exactly while it has the
\* running slot or one place in the queue, and no handler settles it again (cancel, result, timer,
\* crash and dispose() of web-worker-sandbox.ts race for each).
THEOREM CallsAreHeld == SystemSpec => []PendingIsHeld
<1>1. SystemIInv => PendingIsHeld
  BY IInvIsEnough DEF SystemIInv
<1> QED
  BY <1>1, SystemInvariance, PTL

\* In the composed system no worker leaks: the one whose handlers are attached is the only one
\* alive, and only while the executor initialises or is ready.
THEOREM WorkersDoNotLeak == SystemSpec => []OneWorker
<1>1. SystemIInv => OneWorker
  BY IInvIsEnough DEF SystemIInv
<1> QED
  BY <1>1, SystemInvariance, PTL

\* The executor and its worker, the package's own or one that may answer anything, implement the
\* contract of SandboxExecutor.
THEOREM SystemImplementsExecutionContract == SystemSpec => ImplementsContract
<1>1. SystemInit => Contract!Init
  BY SystemInitSound
<1>2. SystemIInv /\ [SystemNext]_systemVars => [Contract!Next]_(Contract!vars)
  BY SystemNextSound DEF Obeys
<1> QED
  BY <1>1, <1>2, SystemInvariance, PTL DEF SystemSpec, ImplementsContract, Contract!Spec

-----------------------------------------------------------------------------
(* The worker serves the running slot.                                     *)

\* Where one of S stands in a list.
Hits(list, S) == {i \in DOMAIN list : list[i] \in S}

ResultsOf(c) == {m \in Responses : m.type = "execute-result" /\ m.call = c}

\* The worker's share of call c, on its way there and on its way back.
Sent(s, c) == Hits(s.outbox, {ExecuteOf(c)})
Answered(answers, c) == Hits(answers, ResultsOf(c))

NoShare(s, b, answers, c) ==
    Sent(s, c) = {} /\ b # ExecuteOf(c) /\ Answered(answers, c) = {}

Single(S) == \E i : S = {i}

OneShare(s, b, answers, c) ==
    \/ Single(Sent(s, c)) /\ b # ExecuteOf(c) /\ Answered(answers, c) = {}
    \/ Sent(s, c) = {} /\ b = ExecuteOf(c) /\ Answered(answers, c) = {}
    \/ Sent(s, c) = {} /\ b # ExecuteOf(c) /\ Single(Answered(answers, c))

PostedRun(s) == s.running # NoRun /\ s.running.posted
Posting(s, c) == PostedRun(s) /\ s.running.call = c

\* A request is posted to a worker that is ready, whose generation is the newest; it has its one
\* share there, and no other request has any.
Serves(s, b, answers) ==
    /\ s.worker <= s.generation
    /\ PostedRun(s) => s.status = "ready"
    /\ \A i \in DOMAIN answers : answers[i].type \in {"init-result", "execute-result"}
    /\ \A c \in Calls : IF Posting(s, c) THEN OneShare(s, b, answers, c)
                                         ELSE NoShare(s, b, answers, c)

ServiceIInv ==
    /\ SystemIInv
    /\ genuine \in BOOLEAN
    /\ ~genuine => busy = NoRun /\ replies = <<>>
    /\ genuine => Serves(exec, busy, replies)

-----------------------------------------------------------------------------
(* Places in a list.                                                       *)

LEMMA HitsAppend ==
  ASSUME NEW T, NEW list \in Seq(T), NEW x \in T, NEW S
  PROVE  /\ x \notin S => Hits(Append(list, x), S) = Hits(list, S)
         /\ x \in S /\ Hits(list, S) = {} => Hits(Append(list, x), S) = {Len(list) + 1}
<1> DEFINE more == Append(list, x)
<1>1. /\ Len(list) \in Nat /\ DOMAIN list = 1..Len(list) /\ DOMAIN more = 1..(Len(list) + 1)
      /\ \A i \in 1..Len(list) : more[i] = list[i]
      /\ more[Len(list) + 1] = x
  OBVIOUS
<1> HIDE DEF more
<1>2. ASSUME x \notin S PROVE Hits(more, S) = Hits(list, S)
  BY <1>1, <1>2 DEF Hits
<1>3. ASSUME x \in S, Hits(list, S) = {} PROVE Hits(more, S) = {Len(list) + 1}
  BY <1>1, <1>3 DEF Hits
<1> QED
  BY <1>2, <1>3 DEF more

LEMMA HitsTail ==
  ASSUME NEW T, NEW list \in Seq(T), list # <<>>, NEW S
  PROVE  /\ Hits(list, S) = {} => Hits(Tail(list), S) = {}
         /\ Head(list) \notin S => \A i : Hits(list, S) = {i} => Hits(Tail(list), S) = {i - 1}
         /\ Head(list) \in S => 1 \in Hits(list, S)
         /\ Head(list) \in S => \A i : Hits(list, S) = {i} => Hits(Tail(list), S) = {}
<1> DEFINE rest == Tail(list)
<1>1. /\ Len(list) \in Nat \ {0} /\ DOMAIN list = 1..Len(list) /\ DOMAIN rest = 1..(Len(list) - 1)
      /\ \A i \in 1..(Len(list) - 1) : rest[i] = list[i + 1]
      /\ Head(list) = list[1]
  OBVIOUS
<1> HIDE DEF rest
<1>2. \A i : i \in Hits(rest, S) <=> i \in 1..(Len(list) - 1) /\ list[i + 1] \in S
  BY <1>1 DEF Hits
<1>3. \A i : i \in Hits(list, S) <=> i \in 1..Len(list) /\ list[i] \in S
  BY <1>1 DEF Hits
<1>4. \A i \in Hits(rest, S) : i + 1 \in Hits(list, S) /\ i + 1 # 1
  BY <1>1, <1>2, <1>3
<1>5. \A i \in Hits(list, S) : i = 1 \/ i - 1 \in Hits(rest, S)
  BY <1>1, <1>2, <1>3
<1>6. Head(list) \in S <=> 1 \in Hits(list, S)
  BY <1>1, <1>3
<1>7. ASSUME NEW i, Hits(list, S) = {i}
      PROVE  /\ Head(list) \notin S => Hits(rest, S) = {i - 1}
             /\ Head(list) \in S => Hits(rest, S) = {}
  <2>1. i \in 1..Len(list)
    BY <1>3, <1>7
  <2>2. CASE Head(list) \notin S
    <3>1. i - 1 \in Hits(rest, S)
      BY <1>5, <1>6, <1>7, <2>2
    <3>2. \A j \in Hits(rest, S) : j = i - 1
      BY <1>2, <1>4, <1>7, <2>1
    <3> QED
      BY <2>2, <3>1, <3>2
  <2>3. CASE Head(list) \in S
    BY <1>4, <1>6, <1>7, <2>3
  <2> QED
    BY <2>2, <2>3
<1> QED
  BY <1>4, <1>6, <1>7 DEF rest

-----------------------------------------------------------------------------
(* What a step of the page means to the worker.                            *)

\* What holds of the page while the worker serves it.
Wired(s) ==
    /\ s \in Executors
    /\ s.status \in {"initializing", "ready"} <=> s.worker # 0
    /\ s.status = "initializing" <=> s.init = "loading"
    /\ s.worker <= s.generation
    /\ PostedRun(s) => s.status = "ready"
    /\ ~PostedRun(s) => \A c \in Calls : Sent(s, c) = {}

CancelOf(c) == [type |-> "cancel", call |-> c]

\* The worker lives on: its request stays and may be cancelled, or it gets one, or none.
Steady(s, t) ==
    /\ t.generation = s.generation /\ t.worker = s.worker
    /\ PostedRun(t) => t.status = "ready"
    /\ \/ /\ PostedRun(s) /\ PostedRun(t) /\ t.running.call = s.running.call
          /\ s.running.cancelling => t.running = s.running
          /\ \/ t.outbox = s.outbox
             \/ t.outbox = Append(s.outbox, CancelOf(s.running.call))
       \/ ~PostedRun(s) /\ ~PostedRun(t) /\ \A c \in Calls : Sent(t, c) = {}
       \/ ~PostedRun(s) /\ PostedRun(t) /\ t.outbox = Append(s.outbox, ExecuteOf(t.running.call))

\* The worker ends, and a new one has no request yet.
Restarted(s, t) ==
    /\ t.generation # s.generation \/ t.worker # s.worker
    /\ t.worker = 0 \/ t.worker > s.generation
    /\ t.worker <= t.generation
    /\ ~PostedRun(t)
    /\ \A c \in Calls : Sent(t, c) = {}

Effect(s, t) == Steady(s, t) \/ Restarted(s, t)

\* What concerns the worker stays, a run that is not posted aside.
Untouched(s, u) ==
    /\ u \in Executors
    /\ u.status = s.status /\ u.generation = s.generation /\ u.worker = s.worker
    /\ u.init = s.init /\ u.outbox = s.outbox
    /\ u.running = s.running \/ (~PostedRun(s) /\ ~PostedRun(u))

LEMMA UntouchedWired ==
  ASSUME NEW s, Wired(s), NEW u, Untouched(s, u)
  PROVE  /\ Wired(u)
         /\ Effect(s, u)
         /\ \A t : Effect(u, t) => Effect(s, t)
<1>1. PostedRun(u) <=> PostedRun(s)
  BY DEF Untouched, PostedRun
<1>2. Wired(u)
  BY <1>1 DEF Wired, Untouched, Sent
<1>3. Effect(s, u)
  BY <1>1 DEF Wired, Untouched, Effect, Steady, Sent
<1>4. ASSUME NEW t, Effect(u, t) PROVE Effect(s, t)
  <2>1. CASE Steady(u, t)
    BY <1>1, <2>1 DEF Untouched, Effect, Steady, PostedRun
  <2>2. CASE Restarted(u, t)
    BY <2>2 DEF Untouched, Effect, Restarted
  <2> QED
    BY <1>4, <2>1, <2>2 DEF Effect
<1> QED
  BY <1>2, <1>3, <1>4

\* After the step, something that does not concern the worker changes.
LEMMA EffectThenUntouched ==
  ASSUME NEW s, NEW u, Effect(s, u), NEW t, t.status = u.status, t.generation = u.generation,
         t.worker = u.worker, t.outbox = u.outbox, t.running = u.running
  PROVE  Effect(s, t)
<1>1. PostedRun(t) <=> PostedRun(u)
  BY DEF PostedRun
<1>2. CASE Steady(s, u)
  BY <1>1, <1>2 DEF Effect, Steady, Sent
<1>3. CASE Restarted(s, u)
  BY <1>1, <1>3 DEF Effect, Restarted, Sent
<1> QED
  BY <1>2, <1>3 DEF Effect

LEMMA SettleShape ==
  ASSUME NEW s \in Executors, NEW C \in SUBSET Calls, NEW kind \in Kinds
  PROVE  LET t == Settle(s, C, kind) IN
         /\ Untouched(s, t) /\ t.running = s.running /\ t.queue = s.queue
<1> DEFINE o == [c \in Calls |-> IF c \in C /\ s.outcome[c] = "pending" THEN kind ELSE s.outcome[c]]
           a == s.again \cup {c \in C : s.outcome[c] # "pending"}
<1>1. o \in [Calls -> {"idle", "pending"} \cup Kinds] /\ a \in SUBSET Calls
  BY DEF Executors
<1>2. Settle(s, C, kind) = [s EXCEPT !.outcome = o, !.again = a]
  BY DEF Settle
<1> HIDE DEF o, a
<1> DEFINE u == [s EXCEPT !.outcome = o]
           t == Settle(s, C, kind)
<1>3. u \in Executors
  BY <1>1 DEF Executors
<1>4. /\ u.status = s.status /\ u.generation = s.generation /\ u.worker = s.worker /\ u.init = s.init
      /\ u.outbox = s.outbox /\ u.running = s.running /\ u.queue = s.queue
  BY DEF Executors
<1>5. t = [u EXCEPT !.again = a]
  BY <1>2
<1> HIDE DEF u, t
<1>6. t \in Executors
  BY <1>1, <1>3, <1>5 DEF Executors
<1>7. /\ t.status = u.status /\ t.generation = u.generation /\ t.worker = u.worker /\ t.init = u.init
      /\ t.outbox = u.outbox /\ t.running = u.running /\ t.queue = u.queue
  BY <1>3, <1>5 DEF Executors
<1>8. Untouched(s, t) /\ t.running = s.running /\ t.queue = s.queue
  BY <1>4, <1>6, <1>7 DEF Untouched
<1> QED
  BY <1>8 DEF t

LEMMA FinishRunShape ==
  ASSUME NEW s \in Executors, s.running # NoRun, NEW kind \in Kinds
  PROVE  LET t == FinishRun(s, kind) IN
         /\ t \in Executors /\ t.running = NoRun
         /\ t.status = s.status /\ t.generation = s.generation /\ t.worker = s.worker
         /\ t.init = s.init /\ t.outbox = s.outbox
<1> DEFINE u == Settle(s, {s.running.call}, kind)
<1>1. {s.running.call} \in SUBSET Calls
  BY DEF Executors, Runs
<1>2. Untouched(s, u) /\ u.running = s.running
  BY <1>1, SettleShape
<1>3. FinishRun(s, kind) = [u EXCEPT !.running = NoRun]
  BY DEF FinishRun
<1> HIDE DEF u
<1> QED
  BY <1>2, <1>3 DEF Executors, Untouched

LEMMA QueueShape ==
  ASSUME NEW s \in Executors, NEW q \in Seq(Calls)
  PROVE  LET t == [s EXCEPT !.queue = q] IN Untouched(s, t) /\ t.running = s.running /\ t.queue = q
<1> DEFINE t == [s EXCEPT !.queue = q]
<1>1. t \in Executors
  BY DEF Executors
<1>2. /\ t.status = s.status /\ t.generation = s.generation /\ t.worker = s.worker /\ t.init = s.init
      /\ t.outbox = s.outbox /\ t.running = s.running /\ t.queue = q
  BY DEF Executors
<1> HIDE DEF t
<1>3. Untouched(s, t) /\ t.running = s.running /\ t.queue = q
  BY <1>1, <1>2 DEF Untouched
<1> QED
  BY <1>3 DEF t

\* The init message is no execute message.
LEMMA InitHasNoShare ==
  ASSUME NEW s, s.outbox = <<[type |-> "init"]>> \/ s.outbox = <<>>
  PROVE  \A c \in Calls : Sent(s, c) = {}
<1>1. \A c \in Calls : [type |-> "init"] # ExecuteOf(c)
  <2> SUFFICES ASSUME NEW c \in Calls PROVE [type |-> "init"] # ExecuteOf(c)
    OBVIOUS
  <2>1. [type |-> "init"].type = "init" /\ ExecuteOf(c).type = "execute"
    BY DEF ExecuteOf
  <2> QED
    BY <2>1
<1>2. CASE s.outbox = <<>>
  BY <1>2 DEF Sent, Hits
<1>3. CASE s.outbox = <<[type |-> "init"]>>
  <2> DEFINE m == [type |-> "init"]
  <2> HIDE DEF m
  <2>1. DOMAIN <<m>> = {1} /\ <<m>>[1] = m
    OBVIOUS
  <2>2. s.outbox = <<m>> /\ \A c \in Calls : m # ExecuteOf(c)
    BY <1>1, <1>3 DEF m
  <2> QED
    BY <2>1, <2>2 DEF Sent, Hits
<1> QED
  BY <1>2, <1>3

\* ensureInitialized: nothing, a new worker, or none although one was wanted.
LEMMA EnsureEffect ==
  ASSUME NEW s, Wired(s), ~PostedRun(s), s.status \notin {"ready", "disposed"},
         NEW t \in EnsureInitialized(s)
  PROVE  Effect(s, t) /\ t \in Executors
<1>1. s \in Executors /\ s.generation \in Nat /\ s.worker \in Nat
  BY DEF Wired, Executors
<1>2. CASE s.init # "none"
  BY <1>2 DEF EnsureInitialized, Wired, Effect, Steady
<1>3. CASE s.init = "none"
  <2> DEFINE g == s.generation + 1
             l == s.live \cup {g}
             o == <<[type |-> "init"]>>
             u == [s EXCEPT !.generation = g, !.status = "initializing", !.worker = g,
                            !.live = l, !.init = "loading", !.outbox = o]
             v == [s EXCEPT !.generation = g, !.status = "empty", !.init = "rejecting"]
  <2>1. t = u \/ t = v
    BY <1>3 DEF EnsureInitialized
  <2>2. s.worker = 0
    BY <1>1, <1>3 DEF Wired, Executors, Statuses
  <2>3. /\ g \in Nat /\ g > s.generation /\ g # 0 /\ l \in SUBSET Nat /\ o \in Seq(Requests)
    BY <1>1 DEF Executors, Requests
  <2>4. \A c \in Calls : Sent(s, c) = {}
    BY DEF Wired
  <2>5. CASE t = u
    <3> HIDE DEF g, l, o
    <3>1. /\ u.generation = g /\ u.worker = g /\ u.outbox = o /\ u.running = s.running
      BY <1>1 DEF Executors
    <3>2. u \in Executors
      <4> DEFINE w == [s EXCEPT !.generation = g, !.status = "initializing", !.worker = g]
      <4>1. w \in Executors
        BY <1>1, <2>3 DEF Executors, Statuses
      <4>2. u = [w EXCEPT !.live = l, !.init = "loading", !.outbox = o]
        OBVIOUS
      <4> HIDE DEF w, u
      <4> QED
        BY <2>3, <4>1, <4>2 DEF Executors
    <3> HIDE DEF u
    <3>3. ~PostedRun(u)
      BY <3>1 DEF PostedRun
    <3>4. \A c \in Calls : Sent(u, c) = {}
      BY <3>1, InitHasNoShare DEF o
    <3>5. Restarted(s, u)
      BY <1>1, <2>3, <3>1, <3>3, <3>4 DEF Restarted
    <3> QED
      BY <2>5, <3>2, <3>5 DEF Effect
  <2>6. CASE t = v
    <3> HIDE DEF g
    <3>1. /\ v.generation = g /\ v.worker = 0 /\ v.outbox = s.outbox /\ v.running = s.running
      BY <1>1, <2>2 DEF Executors
    <3>2. v \in Executors
      BY <1>1, <2>3 DEF Executors, Statuses
    <3> HIDE DEF v
    <3>3. ~PostedRun(v) /\ \A c \in Calls : Sent(v, c) = {}
      BY <2>4, <3>1 DEF PostedRun, Sent
    <3>4. Restarted(s, v)
      BY <1>1, <2>3, <3>1, <3>3 DEF Restarted
    <3> QED
      BY <2>6, <3>2, <3>4 DEF Effect
  <2> QED
    BY <2>1, <2>5, <2>6
<1> QED
  BY <1>2, <1>3

\* Somebody waits for the worker.
LEMMA WaitEffect ==
  ASSUME NEW s, NEW u \in Executors, Effect(s, u), NEW x
  PROVE  Effect(s, [u EXCEPT !.waiters = Append(@, x)])
<1> DEFINE t == [u EXCEPT !.waiters = Append(@, x)]
<1>1. /\ t.status = u.status /\ t.generation = u.generation /\ t.worker = u.worker
      /\ t.outbox = u.outbox /\ t.running = u.running
  BY DEF Executors
<1> HIDE DEF t
<1>2. Effect(s, t)
  BY <1>1, EffectThenUntouched
<1> QED
  BY <1>2 DEF t

\* A request is posted.
LEMMA PostedEffectOn ==
  ASSUME NEW s, Wired(s), ~PostedRun(s), s.status = "ready", NEW c \in Calls
  PROVE  Effect(s, Posted(s, c))
<1> DEFINE t == Posted(s, c)
<1>1. s \in Executors
  BY DEF Wired
<1>2. /\ Frame(s, t) /\ t.running \in Runs /\ t.running.call = c /\ t.running.posted = TRUE
  BY <1>1, PostedEffect
<1>3. t.outbox = Append(s.outbox, ExecuteOf(c))
  BY <1>1 DEF Posted, ExecuteOf, Executors
<1> HIDE DEF t
<1>4. t.running # NoRun
  BY <1>2, RunShape
<1>5. PostedRun(t)
  BY <1>2, <1>4 DEF PostedRun
<1>6. Steady(s, t)
  BY <1>2, <1>3, <1>5 DEF Steady, Frame
<1> QED
  BY <1>6 DEF Effect, t


\* drainQueue on a ready worker: the first queued call that can be sent is, and nothing else concerns
\* the worker.
LEMMA StartNextEffect ==
  ASSUME NEW s, Wired(s), ~PostedRun(s), s.status = "ready", NEW t \in StartNext(s)
  PROVE  Effect(s, t)
<1> DEFINE q == s.queue
<1>0. s \in Executors /\ q \in Seq(Calls) /\ Len(q) \in Nat /\ "runtime" \in Kinds
  BY DEF Wired, Executors, Kinds
<1>1. PICK k \in 0..Len(q) :
        t = LET u == Settle(s, ToSet(SubSeq(q, 1, k)), "runtime") IN
            IF k = Len(q) THEN [u EXCEPT !.queue = <<>>]
            ELSE Posted([u EXCEPT !.queue = SubSeq(q, k + 2, Len(q))], q[k + 1])
  BY Zenon DEF StartNext
<1> DEFINE gone == ToSet(SubSeq(q, 1, k))
           u == Settle(s, gone, "runtime")
           none == <<>>
           rest == SubSeq(q, k + 2, Len(q))
           c == q[k + 1]
           x == [u EXCEPT !.queue = none]
           v == [u EXCEPT !.queue = rest]
<1>2. t = IF k = Len(q) THEN x ELSE Posted(v, c)
  BY <1>1, Zenon
<1>3. gone \in SUBSET Calls
  <2>1. ToSet(q) \subseteq Calls
    BY <1>0 DEF ToSet
  <2>2. gone = {q[i] : i \in 1..k}
    <3>1. k \in Nat /\ k <= Len(q) /\ 1 \in Nat /\ 1 >= 1
      BY <1>0
    <3> QED
      BY <1>0, <3>1, Stretch
  <2>3. \A i \in 1..k : q[i] \in Calls
    BY <1>0
  <2> QED
    BY <2>2, <2>3
<1>4. none \in Seq(Calls) /\ rest \in Seq(Calls)
  BY <1>0
<1>5. k # Len(q) => c \in Calls
  BY <1>0
<1> HIDE DEF gone, none, rest, c
<1>6. Untouched(s, u)
  BY <1>0, <1>3, SettleShape
<1> HIDE DEF u
<1>7. Wired(u) /\ u \in Executors /\ u.status = "ready" /\ \A y : Effect(u, y) => Effect(s, y)
  BY <1>6, UntouchedWired DEF Untouched
<1>8. ~PostedRun(u)
  BY <1>6 DEF Untouched, PostedRun
<1>9. Untouched(u, x) /\ Untouched(u, v) /\ v.running = u.running
  BY <1>4, <1>7, QueueShape
<1> HIDE DEF x, v
<1>10. Effect(u, x)
  BY <1>7, <1>9, UntouchedWired
<1>11. k # Len(q) => Effect(u, Posted(v, c))
  <2>1. Wired(v) /\ v.status = "ready" /\ ~PostedRun(v) /\ \A y : Effect(v, y) => Effect(u, y)
    BY <1>7, <1>8, <1>9, UntouchedWired DEF Untouched, PostedRun
  <2> QED
    BY <1>5, <2>1, PostedEffectOn
<1> QED
  BY <1>2, <1>7, <1>10, <1>11

\* drainQueue
LEMMA DrainEffect ==
  ASSUME NEW s, Wired(s), NEW t \in Drain(s)
  PROVE  /\ Effect(s, t)
         /\ s.running # NoRun => t = s
         /\ s.status # "ready" => t.running = s.running
<1>0. Effect(s, s) /\ s \in Executors
  <2>1. Untouched(s, s)
    BY DEF Wired, Untouched
  <2> QED
    BY <2>1, UntouchedWired DEF Wired
<1>1. CASE s.status = "disposed" \/ s.running # NoRun \/ s.queue = <<>>
  BY <1>0, <1>1 DEF Drain
<1>2. CASE ~(s.status = "disposed" \/ s.running # NoRun \/ s.queue = <<>>) /\ s.status = "ready"
  <2>1. t \in StartNext(s) /\ ~PostedRun(s)
    BY <1>2 DEF Drain, PostedRun
  <2> QED
    BY <1>2, <2>1, StartNextEffect
<1>3. CASE ~(s.status = "disposed" \/ s.running # NoRun \/ s.queue = <<>>) /\ s.status # "ready"
  <2>1. PICK u \in EnsureInitialized(s) : t = [u EXCEPT !.waiters = Append(@, Drainer)]
    BY <1>3, Zenon DEF Drain
  <2>2. Effect(s, u) /\ u \in Executors
    BY <1>3, EnsureEffect DEF PostedRun
  <2>3. u.running = s.running
    BY <1>0 DEF EnsureInitialized, Executors
  <2>4. t.running = u.running
    BY <2>1, <2>2 DEF Executors
  <2> QED
    BY <1>3, <2>1, <2>2, <2>3, <2>4, WaitEffect
<1> QED
  BY <1>1, <1>2, <1>3

\* The slot is freed of a request the worker does not know, and the next one may start.
LEMMA FreedEffect ==
  ASSUME NEW s, Wired(s), s.running # NoRun, ~PostedRun(s), NEW kind \in Kinds,
         NEW t \in {FinishRun(s, kind)} \cup Drain(FinishRun(s, kind))
  PROVE  Effect(s, t)
<1> DEFINE u == FinishRun(s, kind)
<1>1. Untouched(s, u)
  BY FinishRunShape DEF Wired, Untouched, PostedRun
<1> HIDE DEF u
<1>2. Wired(u) /\ Effect(s, u) /\ \A x : Effect(u, x) => Effect(s, x)
  BY <1>1, UntouchedWired
<1>3. t = u \/ Effect(u, t)
  BY <1>2, DrainEffect DEF u
<1> QED
  BY <1>2, <1>3

\* postExecuteMessage
LEMMA PostEffect ==
  ASSUME NEW s, Wired(s), s.running # NoRun, ~PostedRun(s), s.status = "ready", NEW c \in Calls,
         NEW t \in Post(s, c)
  PROVE  Effect(s, t)
<1>1. "runtime" \in Kinds
  BY DEF Kinds
<1> QED
  BY <1>1, PostedEffectOn, FreedEffect DEF Post

\* rejectAllQueued
LEMMA RejectedEffect ==
  ASSUME NEW s \in Executors
  PROVE  LET t == RejectAllQueued(s, "runtime") IN Untouched(s, t) /\ t.running = s.running
<1> DEFINE C == ToSet(s.queue)
           u == Settle(s, C, "runtime")
           none == <<>>
           t == [u EXCEPT !.queue = none]
<1>1. C \in SUBSET Calls /\ "runtime" \in Kinds
  BY DEF Executors, ToSet, Kinds
<1>2. none \in Seq(Calls)
  OBVIOUS
<1>3. RejectAllQueued(s, "runtime") = t
  BY DEF RejectAllQueued
<1> HIDE DEF C, none
<1>4. Untouched(s, u) /\ u.running = s.running
  BY <1>1, SettleShape
<1> HIDE DEF u
<1>5. Untouched(u, t) /\ t.running = u.running
  BY <1>2, <1>4, QueueShape DEF Untouched
<1> HIDE DEF t
<1>6. Untouched(s, t) /\ t.running = s.running
  BY <1>4, <1>5 DEF Untouched
<1> QED
  BY <1>3, <1>6


\* A worker that was detached is gone with its messages.
LEMMA TeardownShape ==
  ASSUME NEW s \in Executors, NEW status \in {"empty", "disposed"}
  PROVE  LET t == [Teardown(s) EXCEPT !.status = status] IN
         /\ t \in Executors /\ t.status = status /\ t.generation = s.generation /\ t.worker = 0
         /\ t.init = "none" /\ t.outbox = <<>> /\ t.running = s.running
<1> DEFINE l == s.live \ {s.worker}
           o == <<>>
           u == [s EXCEPT !.live = l, !.worker = 0]
           t == [u EXCEPT !.outbox = o, !.init = "none", !.status = status]
<1>1. l \in SUBSET Nat /\ o \in Seq(Requests)
  BY DEF Executors
<1>2. [Teardown(s) EXCEPT !.status = status] = t
  BY DEF Teardown
<1> HIDE DEF l, o
<1>3. u \in Executors /\ u.generation = s.generation /\ u.worker = 0 /\ u.running = s.running
  BY <1>1 DEF Executors
<1> HIDE DEF u
<1>4. t \in Executors
  BY <1>1, <1>3 DEF Executors, Statuses
<1>5. /\ t.status = status /\ t.generation = u.generation /\ t.worker = u.worker
      /\ t.init = "none" /\ t.outbox = o /\ t.running = u.running
  BY <1>3 DEF Executors
<1> HIDE DEF t
<1> QED
  BY <1>2, <1>3, <1>4, <1>5 DEF o

\* The worker has ended; what follows may start another one.
LEMMA DeadEffect ==
  ASSUME NEW s, Wired(s), NEW u, u.generation = s.generation, u.worker = 0,
         \A c \in Calls : Sent(u, c) = {}, ~PostedRun(u)
  PROVE  /\ Effect(s, u)
         /\ s.worker # 0 => Restarted(s, u)
         /\ \A t : s.worker # 0 /\ Effect(u, t) /\ ~PostedRun(t) => Restarted(s, t)
<1>1. s \in Executors /\ s.generation \in Nat /\ s.worker \in Nat /\ s.worker <= s.generation
  BY DEF Wired, Executors
<1>2. s.worker # 0 => Restarted(s, u)
  BY <1>1 DEF Restarted
<1>3. s.worker = 0 => ~PostedRun(s)
  BY DEF Wired
<1>4. s.worker = 0 => Steady(s, u)
  BY <1>3 DEF Steady
<1>5. ASSUME NEW t, s.worker # 0, Effect(u, t), ~PostedRun(t) PROVE Restarted(s, t)
  <2>1. CASE Steady(u, t)
    BY <1>1, <1>5, <2>1 DEF Steady, Restarted
  <2>2. CASE Restarted(u, t)
    BY <1>1, <1>5, <2>2 DEF Restarted
  <2> QED
    BY <1>5, <2>1, <2>2 DEF Effect
<1> QED
  BY <1>2, <1>4, <1>5 DEF Effect

\* failGeneration on an attached worker ends it, and nothing is posted to a worker that follows.
LEMMA FailGenerationEffect ==
  ASSUME NEW s, Wired(s), s.worker # 0, NEW kind \in Kinds, NEW t \in FailGeneration(s, kind)
  PROVE  Restarted(s, t)
<1> DEFINE u == IF s.running = NoRun THEN s ELSE FinishRun(s, kind)
           v == [Teardown(u) EXCEPT !.status = "empty"]
<1>1. t \in Drain(v)
  BY Zenon DEF FailGeneration
<1>2. u \in Executors /\ u.running = NoRun /\ u.generation = s.generation
  BY FinishRunShape DEF Wired
<1> HIDE DEF u
<1>3. /\ v \in Executors /\ v.status = "empty" /\ v.generation = s.generation /\ v.worker = 0
      /\ v.init = "none" /\ v.outbox = <<>> /\ v.running = NoRun
  BY <1>2, TeardownShape
<1> HIDE DEF v
<1>4. ~PostedRun(v) /\ \A c \in Calls : Sent(v, c) = {}
  BY <1>3, InitHasNoShare DEF PostedRun
<1>5. Wired(v)
  BY <1>3, <1>4 DEF Wired, Executors
<1>6. Effect(v, t) /\ t.running = NoRun
  BY <1>1, <1>3, <1>5, DrainEffect
<1>7. ~PostedRun(t)
  BY <1>6 DEF PostedRun
<1> QED
  BY <1>3, <1>4, <1>6, <1>7, DeadEffect

\* The init promise settles: nothing of it concerns the worker.
LEMMA WakeShape ==
  ASSUME NEW s \in Executors, NEW ok
  PROVE  LET t == WakeWaiters(s, ok) IN
         /\ t.status = s.status /\ t.generation = s.generation /\ t.worker = s.worker
         /\ t.outbox = s.outbox /\ t.running = s.running
BY DEF WakeWaiters, Executors

LEMMA InitFailsEffect ==
  ASSUME NEW s, Wired(s), NEW u \in Executors, u.generation = s.generation, ~PostedRun(u)
  PROVE  Effect(s, InitFails(u))
<1> DEFINE status == IF u.status = "disposed" THEN "disposed" ELSE "empty"
           v == [Teardown(u) EXCEPT !.status = status]
           t == WakeWaiters(v, FALSE)
<1>1. InitFails(u) = t
  BY DEF InitFails, Teardown, Executors
<1>2. status \in {"empty", "disposed"}
  OBVIOUS
<1> HIDE DEF status
<1>3. /\ v \in Executors /\ v.generation = s.generation /\ v.worker = 0 /\ v.outbox = <<>>
      /\ v.running = u.running
  BY <1>2, TeardownShape
<1> HIDE DEF v
<1>4. /\ t.generation = v.generation /\ t.worker = v.worker /\ t.outbox = v.outbox /\ t.running = v.running
  BY <1>3, WakeShape
<1> HIDE DEF t
<1>5. ~PostedRun(t) /\ \A c \in Calls : Sent(t, c) = {}
  BY <1>3, <1>4, InitHasNoShare DEF PostedRun
<1> QED
  BY <1>1, <1>3, <1>4, <1>5, DeadEffect

\* The handler of an initialising worker.
LEMMA InitMessageEffect ==
  ASSUME NEW s, Wired(s), s.status = "initializing", NEW m, NEW t \in InitMessage(s, m)
  PROVE  Effect(s, t)
<1>1. s \in Executors /\ ~PostedRun(s) /\ Untouched(s, s)
  BY DEF Wired, Untouched
<1>2. CASE t = s
  BY <1>1, <1>2, UntouchedWired
<1>3. CASE t = InitFails(s)
  BY <1>1, <1>3, InitFailsEffect
<1>4. CASE t = InitSucceeds(s)
  <2> DEFINE u == [s EXCEPT !.status = "ready"]
  <2>1. /\ u \in Executors /\ u.generation = s.generation /\ u.worker = s.worker
        /\ u.outbox = s.outbox /\ u.running = s.running
    BY <1>1 DEF Executors, Statuses
  <2>2. t = WakeWaiters(u, TRUE)
    BY <1>4 DEF InitSucceeds
  <2> HIDE DEF u
  <2>3. /\ t.generation = s.generation /\ t.worker = s.worker /\ t.outbox = s.outbox
        /\ t.running = s.running
    BY <2>1, <2>2, WakeShape
  <2>4. ~PostedRun(t) /\ \A c \in Calls : Sent(t, c) = {}
    BY <1>1, <2>3 DEF PostedRun, Wired, Sent
  <2> QED
    BY <1>1, <2>3, <2>4 DEF Effect, Steady
<1> QED
  BY <1>2, <1>3, <1>4 DEF InitMessage


\* startRequest
LEMMA StartRequestEffect ==
  ASSUME NEW s, Wired(s), s.running = NoRun, s.status \notin {"initializing", "disposed"},
         NEW c \in Calls, NEW t \in StartRequest(s, c)
  PROVE  Effect(s, t)
<1> DEFINE run == [call |-> c, posted |-> FALSE, cancelling |-> FALSE]
           u == [s EXCEPT !.running = run]
<1>1. run \in Runs /\ run.posted = FALSE
  BY DEF Runs
<1>2. t \in IF s.status = "ready" THEN Post(u, c)
            ELSE { [v EXCEPT !.waiters = Append(@, Owner(c))] : v \in EnsureInitialized(u) }
  BY Zenon DEF StartRequest
<1> HIDE DEF run
<1>3. /\ u \in Executors /\ u.status = s.status /\ u.generation = s.generation
      /\ u.worker = s.worker /\ u.init = s.init /\ u.outbox = s.outbox /\ u.running = run
  BY <1>1 DEF Wired, Executors
<1> HIDE DEF u
<1>4. ~PostedRun(u) /\ ~PostedRun(s) /\ u.running # NoRun
  BY <1>1, <1>3, RunShape DEF PostedRun
<1>5. Untouched(s, u)
  BY <1>3, <1>4 DEF Untouched
<1>6. Wired(u) /\ \A x : Effect(u, x) => Effect(s, x)
  BY <1>5, UntouchedWired
<1>7. CASE s.status = "ready"
  BY <1>2, <1>3, <1>4, <1>6, <1>7, PostEffect
<1>8. CASE s.status # "ready"
  <2>1. PICK v \in EnsureInitialized(u) : t = [v EXCEPT !.waiters = Append(@, Owner(c))]
    BY <1>2, <1>8, Zenon
  <2>2. Effect(u, v) /\ v \in Executors
    BY <1>3, <1>4, <1>6, <1>8, EnsureEffect
  <2> QED
    BY <1>6, <2>1, <2>2, WaitEffect
<1> QED
  BY <1>7, <1>8

\* execute()
LEMMA ExecuteCallEffect ==
  ASSUME NEW s, Wired(s), NEW c \in Calls, NEW t \in ExecuteCall(s, c)
  PROVE  Effect(s, t)
<1>0. s \in Executors /\ {c} \in SUBSET Calls /\ "runtime" \in Kinds /\ "cancelled" \in Kinds
  BY DEF Wired, Kinds
<1>1. CASE t = Settle(s, {c}, "runtime")
  BY <1>0, <1>1, SettleShape, UntouchedWired
<1>2. CASE t = Settle(s, {c}, "cancelled")
  BY <1>0, <1>2, SettleShape, UntouchedWired
<1>3. CASE s.status \notin {"disposed", "initializing"} /\ s.running = NoRun /\ t \in StartRequest(s, c)
  BY <1>3, StartRequestEffect
<1>4. CASE t = [s EXCEPT !.queue = Append(@, c)]
  <2> DEFINE q == Append(s.queue, c)
  <2>1. q \in Seq(Calls) /\ t = [s EXCEPT !.queue = q]
    BY <1>0, <1>4 DEF Executors
  <2> HIDE DEF q
  <2> QED
    BY <1>0, <2>1, QueueShape, UntouchedWired
<1> QED
  BY <1>1, <1>2, <1>3, <1>4 DEF ExecuteCall

LEMMA ExecuteEffect ==
  ASSUME Wired(exec), NEW c \in Calls, Execute(c)
  PROVE  Effect(exec, exec')
<1> DEFINE o == [exec.outcome EXCEPT ![c] = "pending"]
           s == [exec EXCEPT !.outcome = o]
<1>1. exec \in Executors /\ o \in [Calls -> {"idle", "pending"} \cup Kinds]
  BY DEF Wired, Executors
<1>2. exec' \in ExecuteCall(s, c)
  BY DEF Execute
<1> HIDE DEF o
<1>3. /\ s \in Executors /\ s.status = exec.status /\ s.generation = exec.generation
      /\ s.worker = exec.worker /\ s.init = exec.init /\ s.outbox = exec.outbox
      /\ s.running = exec.running
  BY <1>1 DEF Executors
<1> HIDE DEF s
<1>4. Wired(s) /\ \A t : Effect(s, t) => Effect(exec, t)
  BY <1>3, UntouchedWired DEF Untouched
<1> QED
  BY <1>2, <1>4, ExecuteCallEffect

\* The abort of a request that was posted.
LEMMA InitiateCancelEffect ==
  ASSUME NEW s, Wired(s), PostedRun(s), NEW t \in InitiateCancel(s, s.running.call)
  PROVE  Effect(s, t)
<1> DEFINE c == s.running.call
           run == [s.running EXCEPT !.cancelling = TRUE]
           u == [s EXCEPT !.running = run]
           o == Append(s.outbox, CancelOf(c))
<1>1. /\ s \in Executors /\ s.status = "ready" /\ s.worker # 0 /\ s.running \in Runs /\ c \in Calls
      /\ s.running.posted = TRUE
  BY RunShape DEF Wired, PostedRun, Executors
<1>2. /\ run \in Runs /\ run.call = c /\ run.posted = TRUE
      /\ s.running.cancelling => run = s.running
  BY <1>1 DEF Runs
<1>3. t \in FailGeneration(u, "cancelled") \/ t = [u EXCEPT !.outbox = o]
  <2>1. u.outbox = s.outbox
    BY <1>1 DEF Executors
  <2>2. t \in FailGeneration(u, "cancelled") \/ t = [u EXCEPT !.outbox = Append(@, CancelOf(c))]
    BY Zenon DEF InitiateCancel, CancelOf
  <2> HIDE DEF u
  <2> QED
    BY <2>1, <2>2
<1> HIDE DEF run, o, c
<1>4. /\ u \in Executors /\ u.status = s.status /\ u.generation = s.generation
      /\ u.worker = s.worker /\ u.init = s.init /\ u.outbox = s.outbox /\ u.running = run
  BY <1>1, <1>2 DEF Executors
<1> HIDE DEF u
<1>5. PostedRun(u)
  BY <1>2, <1>4, RunShape DEF PostedRun
<1>6. Wired(u)
  BY <1>4, <1>5 DEF Wired
<1>7. CASE t \in FailGeneration(u, "cancelled")
  <2>1. "cancelled" \in Kinds
    BY DEF Kinds
  <2>2. Restarted(u, t)
    BY <1>1, <1>4, <1>6, <1>7, <2>1, FailGenerationEffect
  <2> QED
    BY <1>4, <2>2 DEF Effect, Restarted
<1>8. CASE t = [u EXCEPT !.outbox = o]
  <2>1. /\ t.status = u.status /\ t.generation = u.generation /\ t.worker = u.worker
        /\ t.running = u.running /\ t.outbox = o
    BY <1>4, <1>8 DEF Executors
  <2>2. PostedRun(t)
    BY <1>5, <2>1 DEF PostedRun
  <2>3. Steady(s, t)
    BY <1>1, <1>2, <1>4, <2>1, <2>2 DEF Steady, o, c
  <2> QED
    BY <2>3 DEF Effect
<1> QED
  BY <1>3, <1>7, <1>8

LEMMA AbortEffect ==
  ASSUME Wired(exec), NEW c \in Calls, Abort(c)
  PROVE  Effect(exec, exec')
<1> DEFINE s == exec
<1>0. s \in Executors /\ {c} \in SUBSET Calls /\ "cancelled" \in Kinds /\ Untouched(s, s)
  BY DEF Wired, Kinds, Untouched
<1>1. CASE exec' = s
  BY <1>0, <1>1, UntouchedWired
<1>2. CASE s.running # NoRun /\ s.running.call = c /\ exec' \in AbortPending(s, c)
  <2>1. CASE s.status = "ready" /\ s.running.posted
    <3>1. PostedRun(s) /\ exec' \in InitiateCancel(s, s.running.call)
      BY <1>2, <2>1 DEF AbortPending, PostedRun
    <3> QED
      BY <3>1, InitiateCancelEffect
  <2>2. CASE ~(s.status = "ready" /\ s.running.posted)
    <3>1. ~PostedRun(s)
      BY <2>2 DEF Wired, PostedRun
    <3>2. exec' \in Drain(FinishRun(s, "cancelled"))
      BY <1>2, <2>2 DEF AbortPending
    <3> QED
      BY <1>0, <1>2, <3>1, <3>2, FreedEffect
  <2> QED
    BY <2>1, <2>2
<1>3. CASE ~(s.running # NoRun /\ s.running.call = c) /\ exec' \in AbortPending(s, c)
  <2> DEFINE u == Settle(s, {c}, "cancelled")
             i == CHOOSE j \in DOMAIN s.queue : s.queue[j] = c
  <2>1. exec' = s \/ exec' = [u EXCEPT !.queue = RemoveAt(@, i)]
    BY <1>3, Zenon DEF AbortPending
  <2>2. Untouched(s, u)
    BY <1>0, SettleShape
  <2> HIDE DEF u, i
  <2>3. CASE exec' = [u EXCEPT !.queue = RemoveAt(@, i)]
    <3>1. u \in Executors /\ Effect(s, u)
      BY <2>2, UntouchedWired DEF Untouched
    <3>2. /\ exec'.status = u.status /\ exec'.generation = u.generation /\ exec'.worker = u.worker
          /\ exec'.outbox = u.outbox /\ exec'.running = u.running
      BY <2>3, <3>1 DEF Executors
    <3> QED
      BY <3>1, <3>2, EffectThenUntouched
  <2> QED
    BY <1>1, <2>1, <2>3
<1> QED
  BY <1>1, <1>2, <1>3 DEF Abort

LEMMA DisposeEffect ==
  ASSUME Wired(exec), Dispose
  PROVE  Effect(exec, exec')
<1> DEFINE u == IF exec.running = NoRun THEN exec ELSE FinishRun(exec, "runtime")
           v == RejectAllQueued(u, "runtime")
           s == [v EXCEPT !.status = "disposed"]
<1>1. exec' = IF exec.init = "loading" THEN InitFails(s) ELSE [Teardown(s) EXCEPT !.init = s.init]
  BY Zenon DEF Dispose
<1>2. u \in Executors /\ u.running = NoRun /\ u.generation = exec.generation
  <2>1. "runtime" \in Kinds
    BY DEF Kinds
  <2> QED
    BY <2>1, FinishRunShape DEF Wired
<1> HIDE DEF u
<1>3. v \in Executors /\ v.running = NoRun /\ v.generation = exec.generation
  BY <1>2, RejectedEffect DEF Untouched
<1> HIDE DEF v
<1>4. s \in Executors /\ s.running = NoRun /\ s.generation = exec.generation
  BY <1>3 DEF Executors, Statuses
<1> HIDE DEF s
<1>5. CASE exec.init = "loading"
  BY <1>1, <1>4, <1>5, InitFailsEffect DEF PostedRun
<1>6. CASE exec.init # "loading"
  <2>1. /\ exec'.generation = exec.generation /\ exec'.worker = 0 /\ exec'.outbox = <<>>
        /\ exec'.running = NoRun
    BY <1>1, <1>4, <1>6 DEF Teardown, Executors
  <2>2. ~PostedRun(exec') /\ \A c \in Calls : Sent(exec', c) = {}
    BY <2>1, InitHasNoShare DEF PostedRun
  <2> QED
    BY <2>1, <2>2, DeadEffect
<1> QED
  BY <1>5, <1>6

LEMMA ContinuationsEffect ==
  ASSUME IInv, Wired(exec), Continuations
  PROVE  Effect(exec, exec')
<1>0. exec \in Executors /\ Effect(exec, exec) /\ "runtime" \in Kinds
  <2>1. Untouched(exec, exec)
    BY DEF Wired, Untouched
  <2> QED
    BY <2>1, UntouchedWired DEF Wired, Kinds
<1>1. CASE InitRejects
  <2>1. exec' = WakeWaiters(exec, FALSE)
    BY <1>1 DEF InitRejects
  <2>2. /\ exec'.status = exec.status /\ exec'.generation = exec.generation
        /\ exec'.worker = exec.worker /\ exec'.outbox = exec.outbox /\ exec'.running = exec.running
    BY <1>0, <2>1, WakeShape
  <2> QED
    BY <1>0, <2>2, EffectThenUntouched
<1>2. CASE Continue
  <2> DEFINE j == Head(exec.jobs)
             s == [exec EXCEPT !.jobs = Tail(@)]
  <2>1. /\ exec.jobs # <<>>
        /\ exec' \in IF j.waiter.role = "owner" THEN OwnerContinues(s, j.waiter.call, j.ok)
                     ELSE DrainContinues(s, j.ok)
    BY <1>2 DEF Continue
  <2>2. /\ Sound(s, aborted) /\ j \in Jobs
        /\ \A c \in Calls : j.waiter = Owner(c) => (Running(s, c) => ~s.running.posted)
    BY <2>1, JobTakenSound DEF IInv
  <2>3. /\ s.status = exec.status /\ s.generation = exec.generation /\ s.worker = exec.worker
        /\ s.init = exec.init /\ s.outbox = exec.outbox /\ s.running = exec.running
    BY <1>0 DEF Executors
  <2> HIDE DEF s, j
  <2>4. Untouched(exec, s) /\ s \in Executors
    BY <2>2, <2>3 DEF Untouched, Sound
  <2>5. Wired(s) /\ Effect(s, s) /\ \A t : Effect(s, t) => Effect(exec, t)
    <3>1. Wired(s) /\ \A t : Effect(s, t) => Effect(exec, t)
      BY <2>4, UntouchedWired
    <3>2. Untouched(s, s)
      BY <2>4 DEF Untouched
    <3> QED
      BY <3>1, <3>2, UntouchedWired
  <2>6. Effect(s, RejectAllQueued(s, "runtime"))
    BY <2>4, <2>5, RejectedEffect, UntouchedWired
  <2>7. CASE j.waiter.role # "owner"
    <3>1. exec' \in Drain(s) \/ exec' = RejectAllQueued(s, "runtime")
      BY <2>1, <2>7 DEF DrainContinues
    <3> QED
      BY <2>5, <2>6, <3>1, DrainEffect
  <2>8. CASE j.waiter.role = "owner"
    <3> DEFINE c == j.waiter.call
               u == FinishRun(s, "runtime")
    <3>1. c \in Calls /\ j.waiter = Owner(c)
      BY <2>2, <2>8 DEF Jobs, Waiters, Drainer, Owner
    <3>2. exec' \in OwnerContinues(s, c, j.ok)
      BY <2>1, <2>8
    <3> HIDE DEF c
    <3>3. CASE ~(s.running # NoRun /\ s.running.call = c)
      BY <2>5, <3>2, <3>3 DEF OwnerContinues
    <3>4. CASE s.running # NoRun /\ s.running.call = c
      <4>1. ~PostedRun(s)
        BY <2>2, <3>1, <3>4 DEF Running, PostedRun
      <4>2. Effect(s, u)
        BY <1>0, <2>5, <3>4, <4>1, FreedEffect
      <4>3. u \in Executors
        BY <1>0, <2>4, <3>4, FinishRunShape
      <4>4. \/ exec' = RejectAllQueued(u, "runtime") \/ exec' = u
            \/ (s.status = "ready" /\ exec' \in Post(s, c))
        BY <3>2, <3>4 DEF OwnerContinues
      <4> HIDE DEF u
      <4>5. CASE exec' = RejectAllQueued(u, "runtime")
        <5>1. Untouched(u, exec') /\ exec'.running = u.running
          BY <4>3, <4>5, RejectedEffect
        <5>2. Effect(s, exec')
          BY <4>2, <5>1, EffectThenUntouched DEF Untouched
        <5> QED
          BY <2>5, <5>2
      <4>6. CASE s.status = "ready" /\ exec' \in Post(s, c)
        BY <2>5, <3>1, <3>4, <4>1, <4>6, PostEffect
      <4> QED
        BY <2>5, <4>2, <4>4, <4>5, <4>6
    <3> QED
      BY <3>3, <3>4
  <2> QED
    BY <2>7, <2>8
<1> QED
  BY <1>1, <1>2 DEF Continuations

LEMMA TimersEffect ==
  ASSUME IInv, Wired(exec), Timers
  PROVE  Effect(exec, exec')
<1>1. CASE InitTimeout
  <2>1. exec.init = "loading" /\ exec' = InitFails(exec)
    BY <1>1 DEF InitTimeout
  <2>2. exec \in Executors /\ ~PostedRun(exec)
    BY <2>1 DEF Wired
  <2> QED
    BY <2>1, <2>2, InitFailsEffect
<1>2. CASE HardTimeout \/ CancelAckTimeout
  <2>1. PostedRun(exec) /\ exec.running \in Runs
    BY <1>2, NoRunAssumption DEF HardTimeout, CancelAckTimeout, PostedRun, IInv, Sound, AbortsSeen, Executors
  <2>2. exec.worker # 0
    BY <2>1 DEF Wired
  <2>3. exec' \in FailGeneration(exec, "cancelled") \/ exec' \in FailGeneration(exec, "deadline")
    BY <1>2 DEF HardTimeout, CancelAckTimeout
  <2>4. "cancelled" \in Kinds /\ "deadline" \in Kinds
    BY DEF Kinds
  <2> QED
    BY <2>2, <2>3, <2>4, FailGenerationEffect DEF Effect
<1> QED
  BY <1>1, <1>2 DEF Timers

\* A worker error ends the worker.
LEMMA ErrorEffect ==
  ASSUME Wired(exec), OnMessage([type |-> "error"])
  PROVE  Effect(exec, exec')
<1> DEFINE m == [type |-> "error"]
<1>1. m.type = "error" /\ "runtime" \in Kinds
  BY DEF Kinds
<1>2. /\ exec.worker # 0
      /\ exec' \in IF exec.status = "initializing" THEN InitMessage(exec, m) ELSE ReadyMessage(exec, m)
  BY DEF OnMessage
<1> HIDE DEF m
<1>3. CASE exec.status = "initializing"
  BY <1>2, <1>3, InitMessageEffect
<1>4. CASE exec.status # "initializing"
  BY <1>1, <1>2, <1>4, FailGenerationEffect DEF ReadyMessage, Effect
<1> QED
  BY <1>3, <1>4


-----------------------------------------------------------------------------
(* The worker serves the slot before and after each step.                  *)

LEMMA ServesWired ==
  ASSUME IInv, Serves(exec, busy, replies)
  PROVE  Wired(exec)
<1>1. exec \in Executors /\ Attached(exec)
  BY DEF IInv, Sound
<1>2. ~PostedRun(exec) => \A c \in Calls : Sent(exec, c) = {}
  BY DEF Serves, Posting, NoShare
<1> QED
  BY <1>1, <1>2 DEF Wired, Attached, Serves

\* The messages of the page: a cancel is nobody's share, an execute message is the share of its call.
LEMMA CancelSent ==
  ASSUME NEW s \in Executors, NEW d \in Calls, NEW t, t.outbox = Append(s.outbox, CancelOf(d)),
         NEW c \in Calls
  PROVE  Sent(t, c) = Sent(s, c)
<1> DEFINE m == CancelOf(d)
           S == {ExecuteOf(c)}
<1>1. m \in Requests /\ s.outbox \in Seq(Requests)
  BY DEF Requests, CancelOf, Executors
<1>2. m \notin S
  <2>1. m.type = "cancel" /\ ExecuteOf(c).type = "execute"
    BY DEF ExecuteOf, CancelOf
  <2> QED
    BY <2>1
<1>3. t.outbox = Append(s.outbox, m) /\ Sent(s, c) = Hits(s.outbox, S) /\ Sent(t, c) = Hits(t.outbox, S)
  BY DEF Sent
<1> HIDE DEF m, S
<1>4. Hits(Append(s.outbox, m), S) = Hits(s.outbox, S)
  BY <1>1, <1>2, HitsAppend
<1> QED
  BY <1>3, <1>4

LEMMA ExecuteSent ==
  ASSUME NEW s \in Executors, NEW d \in Calls, NEW t, t.outbox = Append(s.outbox, ExecuteOf(d)),
         Sent(s, d) = {}, NEW c \in Calls
  PROVE  IF c = d THEN Single(Sent(t, c)) ELSE Sent(t, c) = Sent(s, c)
<1> DEFINE x == ExecuteOf(d)
           S == {ExecuteOf(c)}
<1>1. x \in Requests /\ s.outbox \in Seq(Requests)
  BY DEF Requests, ExecuteOf, Executors
<1>2. c # d => x \notin S
  <2>1. x.call = d /\ ExecuteOf(c).call = c
    BY DEF ExecuteOf
  <2> QED
    BY <2>1
<1>3. c = d => x \in S
  OBVIOUS
<1>4. t.outbox = Append(s.outbox, x) /\ Sent(s, c) = Hits(s.outbox, S) /\ Sent(t, c) = Hits(t.outbox, S)
  BY DEF Sent
<1> HIDE DEF x, S
<1>5. CASE c # d
  <2>1. Hits(Append(s.outbox, x), S) = Hits(s.outbox, S)
    BY <1>1, <1>2, <1>5, HitsAppend
  <2> QED
    BY <1>4, <1>5, <2>1
<1>6. CASE c = d
  <2>1. Hits(s.outbox, S) = {}
    BY <1>4, <1>6
  <2>2. Hits(Append(s.outbox, x), S) = {Len(s.outbox) + 1}
    BY <1>1, <1>3, <1>6, <2>1, HitsAppend
  <2> QED
    BY <1>4, <1>6, <2>2 DEF Single
<1> QED
  BY <1>5, <1>6

\* A worker that lives on serves the slot as before.
LEMMA SteadyServes ==
  ASSUME NEW s, Wired(s), NEW b, NEW answers, Serves(s, b, answers), NEW t \in Executors, Steady(s, t)
  PROVE  Serves(t, b, answers)
<1>0. s \in Executors
  BY DEF Wired
<1>1. CASE /\ PostedRun(s) /\ PostedRun(t) /\ t.running.call = s.running.call
           /\ t.outbox = s.outbox \/ t.outbox = Append(s.outbox, CancelOf(s.running.call))
  <2> DEFINE d == s.running.call
  <2>1. d \in Calls
    BY <1>0, <1>1, RunShape DEF PostedRun, Executors
  <2>2. t.outbox = s.outbox \/ t.outbox = Append(s.outbox, CancelOf(d))
    BY <1>1
  <2> HIDE DEF d
  <2>3. ASSUME NEW c \in Calls PROVE Sent(t, c) = Sent(s, c)
    <3>1. CASE t.outbox = s.outbox
      BY <3>1 DEF Sent
    <3>2. CASE t.outbox = Append(s.outbox, CancelOf(d))
      BY <1>0, <2>1, <3>2, CancelSent
    <3> QED
      BY <2>2, <3>1, <3>2
  <2>4. \A c \in Calls : Posting(t, c) <=> Posting(s, c)
    BY <1>1 DEF Posting
  <2> QED
    BY <2>3, <2>4 DEF Serves, Steady, NoShare, OneShare
<1>2. CASE ~PostedRun(s) /\ ~PostedRun(t) /\ \A c \in Calls : Sent(t, c) = {}
  BY <1>2 DEF Serves, Steady, Posting, NoShare
<1>3. CASE ~PostedRun(s) /\ PostedRun(t) /\ t.outbox = Append(s.outbox, ExecuteOf(t.running.call))
  <2> DEFINE d == t.running.call
  <2>1. d \in Calls
    BY <1>3, RunShape DEF PostedRun, Executors
  <2>2. \A c \in Calls : NoShare(s, b, answers, c)
    BY <1>3 DEF Serves, Posting
  <2>3. t.outbox = Append(s.outbox, ExecuteOf(d))
    BY <1>3
  <2>4. \A c : Posting(t, c) <=> c = d
    BY <1>3 DEF Posting
  <2> HIDE DEF d
  <2>5. ASSUME NEW c \in Calls
        PROVE  IF Posting(t, c) THEN OneShare(t, b, answers, c) ELSE NoShare(t, b, answers, c)
    <3>1. IF c = d THEN Single(Sent(t, c)) ELSE Sent(t, c) = Sent(s, c)
      <4>1. Sent(s, d) = {}
        BY <2>1, <2>2 DEF NoShare
      <4> QED
        BY <1>0, <2>1, <2>3, <4>1, ExecuteSent
    <3> QED
      BY <2>2, <2>4, <3>1 DEF NoShare, OneShare
  <2> QED
    BY <2>5 DEF Serves, Steady
<1> QED
  BY <1>1, <1>2, <1>3 DEF Steady

\* A new worker has no share of anything.
LEMMA RestartedServes ==
  ASSUME NEW s, NEW t, Restarted(s, t)
  PROVE  Serves(t, NoRun, <<>>)
<1>1. \A c \in Calls : ExecuteOf(c) \in Requests
  BY DEF ExecuteOf, Requests
<1>2. \A c \in Calls : NoRun # ExecuteOf(c) /\ Answered(<<>>, c) = {}
  BY <1>1, NoMessageAssumption DEF Answered, Hits
<1> QED
  BY <1>2 DEF Restarted, Serves, Posting, NoShare

\* What the page does means nothing to the worker, or its end.
LEMMA EffectServes ==
  ASSUME NEW s, Wired(s), NEW b, NEW answers, Serves(s, b, answers), NEW t \in Executors, Effect(s, t)
  PROVE  IF t.generation = s.generation /\ t.worker = s.worker
         THEN Serves(t, b, answers) ELSE Serves(t, NoRun, <<>>)
<1>1. CASE Steady(s, t)
  BY <1>1, SteadyServes DEF Steady
<1>2. CASE Restarted(s, t)
  BY <1>2, RestartedServes DEF Restarted
<1> QED
  BY <1>1, <1>2 DEF Effect

LEMMA PageServes ==
  ASSUME ServiceIInv, SystemIInv', UNCHANGED genuine, genuine => Effect(exec, exec'),
         IF exec'.generation = exec.generation /\ exec'.worker = exec.worker
         THEN UNCHANGED <<busy, replies>>
         ELSE busy' = NoRun /\ replies' = <<>>
  PROVE  ServiceIInv'
<1>1. CASE genuine
  <2>1. Wired(exec) /\ Serves(exec, busy, replies) /\ exec' \in Executors
    BY <1>1, ServesWired DEF ServiceIInv, SystemIInv, IInv, Sound
  <2>2. Serves(exec', busy', replies')
    BY <1>1, <2>1, EffectServes
  <2> QED
    BY <1>1, <2>2 DEF ServiceIInv
<1>2. CASE ~genuine
  BY <1>2 DEF ServiceIInv
<1> QED
  BY <1>1, <1>2

\* The worker takes a message up.
LEMMA ReceiveServes ==
  ASSUME ServiceIInv, SystemIInv', WorkerReceives
  PROVE  ServiceIInv'
<1> DEFINE o == Tail(exec.outbox)
<1>1. /\ exec \in Executors /\ exec.outbox \in Seq(Requests) /\ exec.outbox # <<>>
      /\ genuine /\ Serves(exec, busy, replies) /\ busy = NoRun
      /\ busy' = Head(exec.outbox) /\ exec' = [exec EXCEPT !.outbox = o]
      /\ UNCHANGED <<genuine, replies>>
  BY DEF ServiceIInv, SystemIInv, IInv, Sound, Executors, WorkerReceives
<1> HIDE DEF o
<1>2. /\ exec'.outbox = o /\ exec'.status = exec.status /\ exec'.generation = exec.generation
      /\ exec'.worker = exec.worker /\ exec'.running = exec.running
  BY <1>1 DEF Executors
<1>3. ASSUME NEW c \in Calls
      PROVE  IF Posting(exec', c) THEN OneShare(exec', busy', replies', c)
                                  ELSE NoShare(exec', busy', replies', c)
  <2> DEFINE S == {ExecuteOf(c)}
  <2>1. Posting(exec', c) <=> Posting(exec, c)
    BY <1>2 DEF Posting, PostedRun
  <2>2. /\ Hits(exec.outbox, S) = {} => Hits(o, S) = {}
        /\ busy' \notin S => \A i : Hits(exec.outbox, S) = {i} => Hits(o, S) = {i - 1}
        /\ busy' \in S => 1 \in Hits(exec.outbox, S)
        /\ busy' \in S => \A i : Hits(exec.outbox, S) = {i} => Hits(o, S) = {}
    BY <1>1, HitsTail DEF o
  <2>3. Sent(exec', c) = Hits(o, S) /\ Sent(exec, c) = Hits(exec.outbox, S)
    BY <1>2 DEF Sent
  <2>4. busy' \in S <=> busy' = ExecuteOf(c)
    OBVIOUS
  <2> HIDE DEF S
  <2>5. busy # ExecuteOf(c)
    <3>1. ExecuteOf(c) \in Requests
      BY DEF ExecuteOf, Requests
    <3> QED
      BY <1>1, <3>1, NoMessageAssumption
  <2>6. Posting(exec, c) => OneShare(exec, busy, replies, c)
    BY <1>1 DEF Serves
  <2>7. ~Posting(exec, c) => NoShare(exec, busy, replies, c)
    BY <1>1 DEF Serves
  <2>8. Answered(replies', c) = Answered(replies, c)
    BY <1>1
  <2>9. NoShare(exec, busy, replies, c) => NoShare(exec', busy', replies', c)
    BY <2>2, <2>3, <2>4, <2>8 DEF NoShare
  <2>10. OneShare(exec, busy, replies, c) => OneShare(exec', busy', replies', c)
    BY <2>2, <2>3, <2>4, <2>5, <2>8 DEF OneShare, Single
  <2> QED
    BY <2>1, <2>6, <2>7, <2>9, <2>10
<1>4. Serves(exec', busy', replies')
  BY <1>1, <1>2, <1>3 DEF Serves, PostedRun
<1> QED
  BY <1>1, <1>4 DEF ServiceIInv


\* The worker answers, or drops a cancel: the share of an execute message becomes an answer.
LEMMA ReplyServes ==
  ASSUME ServiceIInv, SystemIInv', HandleInit \/ HandleExecute \/ HandleCancel
  PROVE  ServiceIInv'
<1>1. /\ UNCHANGED <<exec, genuine>> /\ busy # NoRun /\ busy' = NoRun /\ genuine
      /\ busy \in Requests /\ replies \in Seq(Responses) /\ Serves(exec, busy, replies)
  BY DEF HandleInit, HandleExecute, HandleCancel, Reply, ServiceIInv, SystemIInv, Wires
<1>2. \A c \in Calls : NoRun # ExecuteOf(c) /\ ExecuteOf(c).type = "execute" /\ ExecuteOf(c).call = c
  <2>1. \A c \in Calls : ExecuteOf(c) \in Requests
    BY DEF ExecuteOf, Requests
  <2> QED
    BY <2>1, NoMessageAssumption DEF ExecuteOf
<1>3. \A i \in DOMAIN replies : replies[i].type \in {"init-result", "execute-result"}
  BY <1>1 DEF Serves
<1>4. ASSUME NEW c \in Calls
      PROVE  /\ Posting(exec, c) => OneShare(exec, busy, replies, c)
             /\ ~Posting(exec, c) => NoShare(exec, busy, replies, c)
  BY <1>1 DEF Serves
<1>5. ASSUME \A i \in DOMAIN replies' : replies'[i].type \in {"init-result", "execute-result"},
             \A c \in Calls : IF Posting(exec, c) THEN OneShare(exec, NoRun, replies', c)
                                                  ELSE NoShare(exec, NoRun, replies', c)
      PROVE  ServiceIInv'
  BY <1>1, <1>5 DEF Serves, ServiceIInv
<1>6. CASE HandleInit
  <2>1. PICK ok \in BOOLEAN : Reply([type |-> "init-result", ok |-> ok])
    BY <1>6 DEF HandleInit
  <2> DEFINE m == [type |-> "init-result", ok |-> ok]
  <2>2. m \in Responses /\ m.type = "init-result" /\ replies' = Append(replies, m)
    BY <2>1 DEF Responses, Reply
  <2> HIDE DEF m
  <2>3. ASSUME NEW c \in Calls PROVE busy # ExecuteOf(c) /\ Answered(replies', c) = Answered(replies, c)
    <3>1. busy # ExecuteOf(c)
      BY <1>2, <1>6 DEF HandleInit
    <3>2. m \notin ResultsOf(c)
      BY <2>2 DEF ResultsOf
    <3> QED
      BY <1>1, <2>2, <3>1, <3>2, HitsAppend DEF Answered
  <2>4. \A i \in DOMAIN replies' : replies'[i].type \in {"init-result", "execute-result"}
    BY <1>1, <1>3, <2>2
  <2> QED
    BY <1>2, <1>4, <1>5, <2>3, <2>4 DEF NoShare, OneShare
<1>7. CASE HandleExecute
  <2> DEFINE d == busy.call
  <2>1. PICK kind \in Kinds \ {"cancelled"} :
          Reply([type |-> "execute-result", call |-> d, kind |-> kind])
    BY <1>7 DEF HandleExecute
  <2> DEFINE m == [type |-> "execute-result", call |-> d, kind |-> kind]
  <2>2. busy.type = "execute" /\ d \in Calls
    BY <1>1, <1>7 DEF HandleExecute, Requests
  <2>3. busy = ExecuteOf(d)
    BY <1>1, <2>2 DEF Requests, ExecuteOf
  <2>4. m \in Responses /\ m.type = "execute-result" /\ m.call = d /\ replies' = Append(replies, m)
    BY <2>1, <2>2 DEF Responses, Reply
  <2> HIDE DEF m, d
  <2>5. ASSUME NEW c \in Calls, c # d
        PROVE  busy # ExecuteOf(c) /\ Answered(replies', c) = Answered(replies, c)
    <3>1. busy # ExecuteOf(c)
      BY <1>2, <2>2, <2>3, <2>5
    <3>2. m \notin ResultsOf(c)
      BY <2>4, <2>5 DEF ResultsOf
    <3> QED
      BY <1>1, <2>4, <3>1, <3>2, HitsAppend DEF Answered
  <2>6. /\ Posting(exec, d) /\ Sent(exec, d) = {} /\ Answered(replies, d) = {}
    BY <1>4, <2>2, <2>3 DEF NoShare, OneShare
  <2>7. Single(Answered(replies', d))
    <3>1. m \in ResultsOf(d) /\ Hits(replies, ResultsOf(d)) = {}
      BY <2>4, <2>6 DEF ResultsOf, Answered
    <3>2. Hits(Append(replies, m), ResultsOf(d)) = {Len(replies) + 1}
      BY <1>1, <2>4, <3>1, HitsAppend
    <3> QED
      BY <2>4, <3>2 DEF Answered, Single
  <2>8. \A i \in DOMAIN replies' : replies'[i].type \in {"init-result", "execute-result"}
    BY <1>1, <1>3, <2>4
  <2>9. ASSUME NEW c \in Calls
        PROVE  IF Posting(exec, c) THEN OneShare(exec, NoRun, replies', c)
                                   ELSE NoShare(exec, NoRun, replies', c)
    <3>1. CASE c = d
      BY <1>2, <2>6, <2>7, <3>1 DEF OneShare
    <3>2. CASE c # d
      BY <1>2, <1>4, <2>5, <3>2 DEF NoShare, OneShare
    <3> QED
      BY <3>1, <3>2
  <2> QED
    BY <1>5, <2>8, <2>9
<1>8. CASE HandleCancel
  <2>1. replies' = replies /\ \A c \in Calls : busy # ExecuteOf(c)
    BY <1>2, <1>8 DEF HandleCancel
  <2> QED
    BY <1>2, <1>3, <1>4, <1>5, <2>1 DEF NoShare, OneShare
<1> QED
  BY <1>6, <1>7, <1>8

\* The page takes an answer that is for the slot, or about the initialisation.
LEMMA TailAnswers ==
  ASSUME replies \in Seq(Responses), replies # <<>>,
         \A i \in DOMAIN replies : replies[i].type \in {"init-result", "execute-result"}
  PROVE  /\ Head(replies) \in Responses /\ Head(replies).type \in {"init-result", "execute-result"}
         /\ \A i \in DOMAIN Tail(replies) : Tail(replies)[i].type \in {"init-result", "execute-result"}
         /\ \A c \in Calls :
               /\ Answered(replies, c) = {} => Answered(Tail(replies), c) = {}
               /\ Head(replies) \notin ResultsOf(c) /\ Single(Answered(replies, c))
                     => Single(Answered(Tail(replies), c))
               /\ Head(replies) \in ResultsOf(c)
                     => Answered(replies, c) # {}
               /\ Head(replies) \in ResultsOf(c) /\ Single(Answered(replies, c))
                     => Answered(Tail(replies), c) = {}
<1>1. Head(replies) \in Responses /\ Head(replies).type \in {"init-result", "execute-result"}
  <2>1. 1 \in DOMAIN replies /\ Head(replies) = replies[1] /\ replies[1] \in Responses
    OBVIOUS
  <2> QED
    BY <2>1
<1>2. \A i \in DOMAIN Tail(replies) : Tail(replies)[i].type \in {"init-result", "execute-result"}
  <2>1. \A i \in DOMAIN Tail(replies) : Tail(replies)[i] = replies[i + 1] /\ i + 1 \in DOMAIN replies
    OBVIOUS
  <2> QED
    BY <2>1
<1>3. ASSUME NEW c \in Calls
      PROVE  /\ Answered(replies, c) = {} => Answered(Tail(replies), c) = {}
             /\ Head(replies) \notin ResultsOf(c) /\ Single(Answered(replies, c))
                   => Single(Answered(Tail(replies), c))
             /\ Head(replies) \in ResultsOf(c) => Answered(replies, c) # {}
             /\ Head(replies) \in ResultsOf(c) /\ Single(Answered(replies, c))
                   => Answered(Tail(replies), c) = {}
  <2> DEFINE S == ResultsOf(c)
             rest == Tail(replies)
             m == Head(replies)
  <2>1. /\ Hits(replies, S) = {} => Hits(rest, S) = {}
        /\ m \notin S => \A i : Hits(replies, S) = {i} => Hits(rest, S) = {i - 1}
        /\ m \in S => 1 \in Hits(replies, S)
        /\ m \in S => \A i : Hits(replies, S) = {i} => Hits(rest, S) = {}
    BY HitsTail
  <2> HIDE DEF S, rest, m
  <2>2. /\ Hits(replies, S) = {} => Hits(rest, S) = {}
        /\ m \notin S /\ Single(Hits(replies, S)) => Single(Hits(rest, S))
        /\ m \in S => Hits(replies, S) # {}
        /\ m \in S /\ Single(Hits(replies, S)) => Hits(rest, S) = {}
    BY <2>1 DEF Single
  <2> QED
    BY <2>2 DEF S, rest, m, Answered
<1> QED
  BY <1>1, <1>2, <1>3

LEMMA DeliverServes ==
  ASSUME ServiceIInv, SystemIInv', Deliver
  PROVE  ServiceIInv'
<1> DEFINE m == Head(replies)
           rest == Tail(replies)
<1>1. /\ replies # <<>> /\ UNCHANGED genuine /\ exec.worker # 0
      /\ exec' \in IF exec.status = "initializing" THEN InitMessage(exec, m) ELSE ReadyMessage(exec, m)
      /\ IF exec'.generation = exec.generation /\ exec'.worker = exec.worker
         THEN replies' = rest /\ UNCHANGED busy
         ELSE busy' = NoRun /\ replies' = <<>>
  BY DEF Deliver, OnMessage
<1>2. /\ genuine /\ Serves(exec, busy, replies) /\ replies \in Seq(Responses) /\ Wired(exec)
      /\ exec \in Executors /\ exec' \in Executors
  <2>1. genuine /\ Serves(exec, busy, replies) /\ replies \in Seq(Responses)
    BY <1>1 DEF ServiceIInv, SystemIInv, Wires
  <2> QED
    BY <2>1, ServesWired DEF ServiceIInv, SystemIInv, IInv, Sound
<1>3. \A i \in DOMAIN replies : replies[i].type \in {"init-result", "execute-result"}
  BY <1>2 DEF Serves
<1>4. /\ m \in Responses /\ m.type \in {"init-result", "execute-result"}
      /\ \A i \in DOMAIN rest : rest[i].type \in {"init-result", "execute-result"}
      /\ \A c \in Calls :
            /\ Answered(replies, c) = {} => Answered(rest, c) = {}
            /\ m \notin ResultsOf(c) /\ Single(Answered(replies, c)) => Single(Answered(rest, c))
            /\ m \in ResultsOf(c) => Answered(replies, c) # {}
            /\ m \in ResultsOf(c) /\ Single(Answered(replies, c)) => Answered(rest, c) = {}
  BY <1>1, <1>2, <1>3, TailAnswers
<1>5. \A c \in Calls :
          /\ Posting(exec, c) => OneShare(exec, busy, replies, c)
          /\ ~Posting(exec, c) => NoShare(exec, busy, replies, c)
  BY <1>2 DEF Serves
<1>6. ASSUME NEW s, Wired(s), Serves(s, busy, rest), Effect(s, exec'),
             s.generation = exec.generation, s.worker = exec.worker
      PROVE  ServiceIInv'
  <2>1. IF exec'.generation = s.generation /\ exec'.worker = s.worker
        THEN Serves(exec', busy, rest) ELSE Serves(exec', NoRun, <<>>)
    BY <1>2, <1>6, EffectServes
  <2>2. Serves(exec', busy', replies')
    BY <1>1, <1>6, <2>1
  <2> QED
    BY <1>1, <1>2, <2>2 DEF ServiceIInv
<1> HIDE DEF m, rest
<1>7. CASE m.type = "init-result"
  <2>1. \A c \in Calls : m \notin ResultsOf(c)
    BY <1>7 DEF ResultsOf
  <2>2. \A c \in Calls : IF Posting(exec, c) THEN OneShare(exec, busy, rest, c)
                                            ELSE NoShare(exec, busy, rest, c)
    BY <1>4, <1>5, <2>1 DEF NoShare, OneShare
  <2>3. Serves(exec, busy, rest)
    BY <1>2, <1>4, <2>2 DEF Serves
  <2>4. Effect(exec, exec')
    <3>1. CASE exec.status = "initializing"
      BY <1>1, <1>2, <3>1, InitMessageEffect
    <3>2. CASE exec.status # "initializing"
      <4>1. exec' = exec
        BY <1>1, <1>7, <3>2 DEF ReadyMessage
      <4>2. Untouched(exec, exec)
        BY <1>2 DEF Untouched
      <4> QED
        BY <1>2, <4>1, <4>2, UntouchedWired
    <3> QED
      BY <3>1, <3>2
  <2> QED
    BY <1>2, <1>6, <2>3, <2>4
<1>8. CASE m.type = "execute-result"
  <2> DEFINE d == m.call
             kind == IF exec.running.cancelling THEN "cancelled" ELSE m.kind
             u == FinishRun(exec, kind)
  <2>1. d \in Calls /\ m \in ResultsOf(d) /\ m.kind \in Kinds /\ kind \in Kinds
    BY <1>4, <1>8 DEF Responses, ResultsOf, Kinds
  <2>2. Answered(replies, d) # {}
    BY <1>4, <2>1
  <2>3. Posting(exec, d) /\ OneShare(exec, busy, replies, d)
    BY <1>5, <2>1, <2>2 DEF NoShare
  <2>4. exec.status = "ready" /\ exec.running # NoRun /\ exec.running.call = d
    BY <1>2, <2>3 DEF Serves, Posting, PostedRun
  <2>5. exec' \in Drain(u)
    <3>1. exec' \in HandleExecuteResult(exec, m)
      BY <1>1, <1>8, <2>4 DEF ReadyMessage
    <3> QED
      BY <2>4, <3>1 DEF HandleExecuteResult
  <2> HIDE DEF kind
  <2>6. /\ u \in Executors /\ u.running = NoRun /\ u.status = exec.status
        /\ u.generation = exec.generation /\ u.worker = exec.worker
        /\ u.init = exec.init /\ u.outbox = exec.outbox
    BY <1>2, <2>1, <2>4, FinishRunShape
  <2> HIDE DEF u, d
  <2>7. ASSUME NEW c \in Calls PROVE NoShare(u, busy, rest, c)
    <3>1. Sent(u, c) = Sent(exec, c)
      BY <2>6 DEF Sent
    <3>2. CASE c = d
      <4>1. Sent(exec, d) = {} /\ busy # ExecuteOf(d) /\ Single(Answered(replies, d))
        BY <2>2, <2>3 DEF OneShare
      <4> QED
        BY <1>4, <2>1, <3>1, <3>2, <4>1 DEF NoShare
    <3>3. CASE c # d
      <4>1. ~Posting(exec, c)
        BY <2>4, <3>3 DEF Posting
      <4> QED
        BY <1>4, <1>5, <3>1, <4>1 DEF NoShare
    <3> QED
      BY <3>2, <3>3
  <2>8. ~PostedRun(u)
    BY <2>6 DEF PostedRun
  <2>9. Wired(u) /\ Serves(u, busy, rest)
    <3>1. Wired(u)
      BY <1>2, <2>6, <2>7, <2>8 DEF Wired, NoShare
    <3>2. Serves(u, busy, rest)
      BY <1>2, <1>4, <2>6, <2>7, <2>8 DEF Serves, Posting
    <3> QED
      BY <3>1, <3>2
  <2>10. Effect(u, exec')
    BY <2>5, <2>9, DrainEffect
  <2> QED
    BY <1>6, <2>6, <2>9, <2>10
<1> QED
  BY <1>4, <1>7, <1>8


-----------------------------------------------------------------------------
(* The service of the worker in every behaviour.                           *)

LEMMA ServiceInitSound == SystemInit => ServiceIInv
<1> SUFFICES ASSUME SystemInit PROVE ServiceIInv
  OBVIOUS
<1>1. SystemIInv /\ genuine \in BOOLEAN /\ busy = NoRun /\ replies = <<>>
  BY SystemInitSound DEF SystemInit
<1>2. /\ exec.worker = 0 /\ exec.generation = 0 /\ exec.running = NoRun /\ exec.outbox = <<>>
  BY DEF SystemInit, Init
<1>3. ~PostedRun(exec) /\ \A c \in Calls : Sent(exec, c) = {}
  BY <1>2, InitHasNoShare DEF PostedRun
<1>4. \A c \in Calls : NoRun # ExecuteOf(c) /\ Answered(<<>>, c) = {}
  <2>1. \A c \in Calls : ExecuteOf(c) \in Requests
    BY DEF ExecuteOf, Requests
  <2> QED
    BY <2>1, NoMessageAssumption DEF Answered, Hits
<1>5. Serves(exec, busy, replies)
  BY <1>1, <1>2, <1>3, <1>4 DEF Serves, Posting, NoShare
<1> QED
  BY <1>1, <1>5 DEF ServiceIInv

\* A step of the page other than the receipt of an answer.
PageStep ==
    \/ Page(\E c \in Calls : Execute(c) \/ Abort(c))
    \/ Page(Dispose) \/ Page(Continuations) \/ Page(Timers)
    \/ Crash \/ ForeignWorker

LEMMA PageStepEffect ==
  ASSUME ServiceIInv, PageStep
  PROVE  /\ genuine => Effect(exec, exec')
         /\ UNCHANGED genuine
         /\ IF exec'.generation = exec.generation /\ exec'.worker = exec.worker
            THEN UNCHANGED <<busy, replies>>
            ELSE busy' = NoRun /\ replies' = <<>>
<1>1. genuine => IInv /\ Wired(exec)
  BY ServesWired DEF ServiceIInv, SystemIInv
<1>2. CASE Page(\E c \in Calls : Execute(c) \/ Abort(c))
  BY <1>1, <1>2, ExecuteEffect, AbortEffect DEF Page
<1>3. CASE Page(Dispose)
  BY <1>1, <1>3, DisposeEffect DEF Page
<1>4. CASE Page(Continuations)
  BY <1>1, <1>4, ContinuationsEffect DEF Page
<1>5. CASE Page(Timers)
  BY <1>1, <1>5, TimersEffect DEF Page
<1>6. CASE Crash
  BY <1>1, <1>6, ErrorEffect DEF Page, Crash
<1>7. CASE ForeignWorker
  BY <1>7 DEF Page, ForeignWorker
<1> QED
  BY <1>2, <1>3, <1>4, <1>5, <1>6, <1>7 DEF PageStep

LEMMA ServiceNextSound == ServiceIInv /\ [SystemNext]_systemVars => ServiceIInv'
<1> SUFFICES ASSUME ServiceIInv, [SystemNext]_systemVars PROVE ServiceIInv'
  OBVIOUS
<1>1. SystemIInv'
  BY SystemNextSound DEF ServiceIInv
<1>2. CASE PageStep
  BY <1>1, <1>2, PageStepEffect, PageServes
<1>3. CASE UNCHANGED systemVars
  BY <1>1, <1>3 DEF systemVars, ServiceIInv, Serves, PostedRun, Posting, OneShare, NoShare, Sent
<1> QED
  BY <1>1, <1>2, <1>3, ReceiveServes, ReplyServes, DeliverServes DEF SystemNext, WorkerStep, PageStep

\* The invariant of the composition: the request that was posted is under way exactly once, its
\* worker is ready and of the newest generation, and nothing else is under way.
THEOREM ServiceInvariance == SystemSpec => []ServiceIInv
<1> QED
  BY ServiceInitSound, ServiceNextSound, PTL DEF SystemSpec

\* The shares the property counts are those of the invariant.
LEMMA SharesCounted ==
  ASSUME replies \in Seq(Responses), NEW c \in Calls
  PROVE  /\ NoShare(exec, busy, replies, c) => SharesOf(c) = {}
         /\ OneShare(exec, busy, replies, c) => \E x : SharesOf(c) = {x}
<1> DEFINE handled == IF busy = ExecuteOf(c) THEN {<<"busy", 0>>} ELSE {}
           out == Sent(exec, c)
           in == Answered(replies, c)
<1>1. SharesOf(c) = {<<"sent", i>> : i \in out} \cup handled \cup {<<"answered", i>> : i \in in}
  <2>1. {i \in DOMAIN exec.outbox : exec.outbox[i] = ExecuteOf(c)} = out
    BY DEF Sent, Hits
  <2>2. {i \in DOMAIN replies : replies[i].type = "execute-result" /\ replies[i].call = c} = in
    <3>1. \A i \in DOMAIN replies : replies[i] \in Responses
      OBVIOUS
    <3> QED
      BY <3>1 DEF Answered, Hits, ResultsOf
  <2> HIDE DEF out, in, handled
  <2> QED
    BY <2>1, <2>2 DEF SharesOf, handled
<1>2. NoShare(exec, busy, replies, c) => out = {} /\ handled = {} /\ in = {}
  BY DEF NoShare
<1>3. OneShare(exec, busy, replies, c) =>
          \/ Single(out) /\ handled = {} /\ in = {}
          \/ out = {} /\ handled = {<<"busy", 0>>} /\ in = {}
          \/ out = {} /\ handled = {} /\ Single(in)
  BY DEF OneShare
<1> HIDE DEF handled, out, in
<1>4. ASSUME NEW i, out = {i}, handled = {}, in = {} PROVE SharesOf(c) = {<<"sent", i>>}
  BY <1>1, <1>4
<1>5. ASSUME out = {}, handled = {<<"busy", 0>>}, in = {} PROVE SharesOf(c) = {<<"busy", 0>>}
  BY <1>1, <1>5
<1>6. ASSUME NEW i, out = {}, handled = {}, in = {i} PROVE SharesOf(c) = {<<"answered", i>>}
  BY <1>1, <1>6
<1>7. NoShare(exec, busy, replies, c) => SharesOf(c) = {}
  BY <1>1, <1>2
<1> QED
  BY <1>3, <1>4, <1>5, <1>6, <1>7 DEF Single

\* The worker works for the running slot and for nothing else: the request that was posted to it is
\* under way exactly once (in the outbox, in the worker, or in an answer), and no work of a request
\* that has left the slot survives, whatever the page does meanwhile (postExecuteMessage,
\* teardownWorker and handleExecuteResult of web-worker-sandbox.ts; onmessage of
\* quickjs-worker.ts).
THEOREM SlotIsServed == SystemSpec => []WorkerServesSlot
<1>1. ServiceIInv => WorkerServesSlot
  <2> SUFFICES ASSUME ServiceIInv PROVE WorkerServesSlot
    OBVIOUS
  <2>1. SystemTypeOK
    BY DEF ServiceIInv, SystemIInv, IInv, Sound, Wires, SystemTypeOK, TypeOK
  <2>2. ASSUME genuine, NEW c \in Calls
        PROVE  Cardinality(SharesOf(c)) =
                 (IF exec.running # NoRun /\ exec.running.posted /\ exec.running.call = c
                  THEN 1 ELSE 0)
    <3>1. replies \in Seq(Responses) /\ Serves(exec, busy, replies)
      BY <2>2 DEF ServiceIInv, SystemIInv, Wires
    <3>2. CASE Posting(exec, c)
      <4>1. OneShare(exec, busy, replies, c)
        BY <3>1, <3>2 DEF Serves
      <4>2. PICK x : SharesOf(c) = {x}
        BY <3>1, <4>1, SharesCounted
      <4>3. Cardinality(SharesOf(c)) = 1
        BY <4>2, FS_Singleton
      <4> QED
        BY <3>2, <4>3 DEF Posting, PostedRun
    <3>3. CASE ~Posting(exec, c)
      <4>1. NoShare(exec, busy, replies, c)
        BY <3>1, <3>3 DEF Serves
      <4>2. SharesOf(c) = {}
        BY <3>1, <4>1, SharesCounted
      <4>3. Cardinality(SharesOf(c)) = 0
        BY <4>2, FS_EmptySet
      <4> QED
        BY <3>3, <4>3 DEF Posting, PostedRun
    <3> QED
      BY <3>2, <3>3
  <2> QED
    BY <2>1, <2>2 DEF WorkerServesSlot
<1> QED
  BY <1>1, ServiceInvariance, PTL

\* A cancelled function is stopped by the end of its worker or has ended by itself: the slot is not
\* handed over while the package's worker may still run it, although that worker is told to cancel
\* and could acknowledge (initiateCancel, handleCancelResult, CancelAckTimeout).
THEOREM CancelsStopTheWorker == SystemSpec => CancelStopsWorker
<1> DEFINE Stops ==
      (genuine /\ exec.running # NoRun /\ exec.running.cancelling /\ exec'.running # exec.running)
        => exec'.worker # exec.worker
           \/ (replies # <<>> /\ Head(replies).type = "execute-result"
                 /\ Head(replies).call = exec.running.call)
<1>1. ServiceIInv /\ [SystemNext]_systemVars => Stops
  <2> SUFFICES ASSUME ServiceIInv, [SystemNext]_systemVars, genuine, exec.running # NoRun,
                      exec.running.cancelling, exec'.running # exec.running
               PROVE  exec'.worker # exec.worker
                      \/ (replies # <<>> /\ Head(replies).type = "execute-result"
                            /\ Head(replies).call = exec.running.call)
    OBVIOUS
  <2>1. /\ IInv /\ exec \in Executors /\ Wired(exec) /\ PostedRun(exec)
        /\ exec.generation \in Nat /\ exec.worker \in Nat
        /\ Serves(exec, busy, replies) /\ replies \in Seq(Responses)
    <3>1. IInv /\ Serves(exec, busy, replies) /\ replies \in Seq(Responses) /\ exec \in Executors
      BY DEF ServiceIInv, SystemIInv, IInv, Sound, Wires
    <3> QED
      BY <3>1, ServesWired DEF IInv, Sound, AbortsSeen, PostedRun, Executors
  <2>2. exec.worker # 0 /\ exec.worker <= exec.generation /\ exec.status = "ready"
    BY <2>1 DEF Wired
  <2>3. CASE PageStep
    <3>1. Effect(exec, exec')
      BY <2>3, PageStepEffect
    <3>2. ~Steady(exec, exec')
      BY <2>1 DEF Steady
    <3> QED
      BY <2>1, <2>2, <3>1, <3>2 DEF Effect, Restarted
  <2>4. CASE WorkerReceives
    BY <2>1, <2>4 DEF WorkerReceives, Executors
  <2>5. CASE HandleInit \/ HandleExecute \/ HandleCancel \/ UNCHANGED systemVars
    BY <2>5 DEF HandleInit, HandleExecute, HandleCancel, Reply, systemVars
  <2>6. CASE Deliver
    <3> DEFINE m == Head(replies)
    <3>1. /\ replies # <<>> /\ exec' \in ReadyMessage(exec, m)
      BY <2>2, <2>6 DEF Deliver, OnMessage
    <3>2. m \in Responses /\ m.type \in {"init-result", "execute-result"}
      BY <2>1, <3>1, TailAnswers DEF Serves
    <3>3. CASE m.type = "init-result"
      BY <3>1, <3>3 DEF ReadyMessage
    <3>4. CASE m.type = "execute-result"
      <4>1. m.call \in Calls /\ m \in ResultsOf(m.call)
        BY <3>2, <3>4 DEF Responses, ResultsOf
      <4>2. Answered(replies, m.call) # {}
        BY <2>1, <3>1, <4>1, TailAnswers DEF Serves
      <4>3. Posting(exec, m.call)
        BY <2>1, <4>1, <4>2 DEF Serves, NoShare
      <4> QED
        BY <3>1, <3>4, <4>3 DEF Posting
    <3> QED
      BY <3>2, <3>3, <3>4
  <2> QED
    BY <2>3, <2>4, <2>5, <2>6 DEF SystemNext, WorkerStep, PageStep
<1> QED
  BY <1>1, ServiceInvariance, PTL DEF SystemSpec, CancelStopsWorker

-----------------------------------------------------------------------------
(* The slot is driven: a timer or a continuation is there for it.          *)

\* An initialisation that is awaited is under way; a ready worker has none.
Promised(s) ==
    /\ s.waiters # <<>> => s.init # "none"
    /\ s.status = "ready" => s.init = "none"

Driven(s) ==
    /\ Promised(s)
    /\ s.running # NoRun =>
         IF s.running.posted THEN s.status = "ready" ELSE s.running.call \in OwnersOf(Awaiting(s))

\* A handler that leaves the worker and who waits for it alone, and may free the slot.
LEMMA FrameDriven ==
  ASSUME NEW s, NEW t, Frame(s, t), Promised(s),
         t.running = NoRun \/ (t.running = s.running /\ Driven(s))
  PROVE  Driven(t)
BY FrameKeeps DEF Frame, Promised, Driven

LEMMA FinishRunDriven ==
  ASSUME NEW A \in SUBSET Calls, NEW s, Sound(s, A), Promised(s), s.running # NoRun, NEW kind \in Kinds
  PROVE  Driven(FinishRun(s, kind)) /\ Frame(s, FinishRun(s, kind)) /\ FinishRun(s, kind).running = NoRun
<1> DEFINE t == FinishRun(s, kind)
<1>1. Frame(s, t) /\ t.running = NoRun
  BY FinishRunSound
<1> HIDE DEF t
<1>2. Driven(t)
  BY <1>1, FrameDriven
<1> QED
  BY <1>1, <1>2 DEF t

LEMMA PostedDriven ==
  ASSUME NEW s \in Executors, Promised(s), s.status = "ready", NEW c \in Calls
  PROVE  Driven(Posted(s, c))
<1> DEFINE t == Posted(s, c)
<1>1. Frame(s, t) /\ t.running.posted = TRUE
  BY PostedEffect
<1> HIDE DEF t
<1>2. Driven(t)
  BY <1>1 DEF Frame, Promised, Driven
<1> QED
  BY <1>2 DEF t

\* drainQueue on a ready worker: the slot goes to a request that has been sent, or to none.
LEMMA StartNextDriven ==
  ASSUME NEW A \in SUBSET Calls, NEW s, Sound(s, A), Promised(s), s.running = NoRun,
         s.status = "ready", NEW t \in StartNext(s)
  PROVE  Driven(t)
<1> DEFINE q == s.queue
<1>0. s \in Executors /\ q \in Seq(Calls) /\ Len(q) \in Nat /\ "runtime" \in Kinds
  BY DEF Sound, Executors, Kinds
<1>1. PICK k \in 0..Len(q) :
        t = LET u == Settle(s, ToSet(SubSeq(q, 1, k)), "runtime") IN
            IF k = Len(q) THEN [u EXCEPT !.queue = <<>>]
            ELSE Posted([u EXCEPT !.queue = SubSeq(q, k + 2, Len(q))], q[k + 1])
  BY Zenon DEF StartNext
<1> DEFINE gone == ToSet(SubSeq(q, 1, k))
           u == Settle(s, gone, "runtime")
           none == <<>>
           rest == SubSeq(q, k + 2, Len(q))
           c == q[k + 1]
           x == [u EXCEPT !.queue = none]
           v == [u EXCEPT !.queue = rest]
<1>2. t = IF k = Len(q) THEN x ELSE Posted(v, c)
  BY <1>1, Zenon
<1>3. gone \in SUBSET Calls /\ \A d \in gone : s.outcome[d] = "pending"
  <2>1. ToSet(q) \subseteq Calls /\ \A d \in ToSet(q) : s.outcome[d] = "pending"
    BY <1>0 DEF ToSet, Sound, Held
  <2>2. gone = {q[i] : i \in 1..k}
    <3>1. k \in Nat /\ k <= Len(q) /\ 1 \in Nat /\ 1 >= 1
      BY <1>0
    <3> QED
      BY <1>0, <3>1, Stretch
  <2>3. \A i \in 1..k : q[i] \in ToSet(q)
    BY <1>0 DEF ToSet
  <2> QED
    BY <2>1, <2>2, <2>3
<1>4. none \in Seq(Calls) /\ rest \in Seq(Calls)
  BY <1>0
<1>5. k # Len(q) => c \in Calls
  BY <1>0
<1> HIDE DEF gone, none, rest, c
<1>6. u \in Executors /\ Frame(s, u) /\ u.running = NoRun
  <2>1. "runtime" \in Kinds /\ gone \in SUBSET Calls /\ \A d \in gone : s.outcome[d] = "pending"
    BY <1>0, <1>3
  <2> QED
    BY <1>0, <2>1, SettleEffect
<1> HIDE DEF u
<1>7. /\ x \in Executors /\ Frame(s, x) /\ x.running = NoRun
      /\ v \in Executors /\ Frame(s, v)
  BY <1>4, <1>6 DEF Executors, Frame
<1> HIDE DEF x, v
<1>8. Driven(x)
  BY <1>7, FrameDriven
<1>9. k # Len(q) => Driven(Posted(v, c))
  <2>1. Promised(v) /\ v.status = "ready"
    BY <1>7 DEF Frame, Promised
  <2> QED
    BY <1>5, <1>7, <2>1, PostedDriven
<1> QED
  BY <1>2, <1>8, <1>9

\* Somebody awaits an initialisation that is under way.
LEMMA WaitDriven ==
  ASSUME NEW v \in Executors, v.init # "none", v.status # "ready", NEW x \in Waiters,
         v.running = NoRun \/ (v.running \in Runs /\ ~v.running.posted /\ x = Owner(v.running.call))
  PROVE  Driven([v EXCEPT !.waiters = Append(@, x)])
<1> DEFINE list == Append(v.waiters, x)
           t == [v EXCEPT !.waiters = list]
<1>1. t.jobs = v.jobs /\ t.waiters = list /\ t.status = v.status /\ t.init = v.init /\ t.running = v.running
  BY DEF Executors
<1> HIDE DEF t
<1>2. Awaiting(t) = Append(Awaiting(v), x)
  BY <1>1, AwaitingJoined DEF list
<1>3. OwnersOf(Awaiting(t)) = OwnersOf(Awaiting(v)) \cup {c \in Calls : x = Owner(c)}
  BY <1>2, AwaitingShape, Joined
<1>4. v.running # NoRun => v.running.call \in OwnersOf(Awaiting(t))
  BY <1>3, RunShape
<1>5. Driven(t)
  BY <1>1, <1>4 DEF Driven, Promised
<1> QED
  BY <1>5 DEF t, list

\* ensureInitialized leaves a promise that is under way.
LEMMA EnsureDriven ==
  ASSUME NEW A \in SUBSET Calls, NEW s, Sound(s, A), s.status \notin {"ready", "disposed"},
         NEW t \in EnsureInitialized(s)
  PROVE  t \in Executors /\ t.init # "none" /\ t.status # "ready" /\ t.running = s.running
<1>1. t \in Executors /\ t.running = s.running
  BY EnsureInitializedSound DEF Sound
<1>2. t.init # "none" /\ t.status # "ready"
  BY DEF EnsureInitialized, Sound, Executors
<1> QED
  BY <1>1, <1>2

LEMMA DrainDriven ==
  ASSUME NEW A \in SUBSET Calls, NEW s, Sound(s, A), Driven(s), NEW t \in Drain(s)
  PROVE  Driven(t)
<1>1. CASE s.status = "disposed" \/ s.running # NoRun \/ s.queue = <<>>
  BY <1>1 DEF Drain
<1>2. CASE ~(s.status = "disposed" \/ s.running # NoRun \/ s.queue = <<>>) /\ s.status = "ready"
  <2>1. t \in StartNext(s)
    BY <1>2 DEF Drain
  <2> QED
    BY <1>2, <2>1, StartNextDriven DEF Driven
<1>3. CASE ~(s.status = "disposed" \/ s.running # NoRun \/ s.queue = <<>>) /\ s.status # "ready"
  <2>1. PICK v \in EnsureInitialized(s) : t = [v EXCEPT !.waiters = Append(@, Drainer)]
    BY <1>3, Zenon DEF Drain
  <2>2. v \in Executors /\ v.init # "none" /\ v.status # "ready" /\ v.running = NoRun
    BY <1>3, EnsureDriven
  <2> QED
    BY <2>1, <2>2, WaiterShape, WaitDriven
<1> QED
  BY <1>1, <1>2, <1>3

\* The slot is freed and the next request may start.
LEMMA FreedDriven ==
  ASSUME NEW A \in SUBSET Calls, NEW s, Sound(s, A), Promised(s), s.running # NoRun, NEW kind \in Kinds,
         NEW t \in Drain(FinishRun(s, kind))
  PROVE  Driven(t)
<1>1. Sound(FinishRun(s, kind), A) /\ Driven(FinishRun(s, kind))
  BY FinishRunSound, FinishRunDriven
<1> QED
  BY <1>1, DrainDriven

LEMMA PostDriven ==
  ASSUME NEW A \in SUBSET Calls, NEW s, Sound(s, A), Promised(s), s.status = "ready",
         s.running # NoRun, NEW c \in Calls, NEW t \in Post(s, c)
  PROVE  Driven(t)
<1>1. s \in Executors /\ "runtime" \in Kinds
  BY DEF Sound, Kinds
<1> QED
  BY <1>1, PostedDriven, FreedDriven DEF Post

\* Who waits behind the first one.
LEMMA OwnersBehind ==
  ASSUME NEW list \in Seq(Waiters), list # <<>>, NEW c \in OwnersOf(list), Head(list) # Owner(c)
  PROVE  c \in OwnersOf(Tail(list))
<1>1. PICK i \in DOMAIN list : list[i] = Owner(c)
  BY DEF OwnersOf
<1>2. /\ Len(list) \in Nat /\ DOMAIN list = 1..Len(list) /\ Head(list) = list[1]
      /\ Tail(list) \in Seq(Waiters) /\ Len(Tail(list)) = Len(list) - 1
      /\ \A k \in 1..Len(Tail(list)) : Tail(list)[k] = list[k + 1]
  BY LenProperties, HeadTailProperties
<1>3. i - 1 \in 1..Len(Tail(list))
  BY <1>1, <1>2
<1>4. Tail(list)[i - 1] = Owner(c) /\ DOMAIN Tail(list) = 1..Len(Tail(list))
  BY <1>1, <1>2, <1>3, LenProperties
<1> QED
  BY <1>3, <1>4 DEF OwnersOf

\* failGeneration on a ready worker: nobody waits, and the queue is given a new generation.
LEMMA FailGenerationDriven ==
  ASSUME NEW A \in SUBSET Calls, NEW s, Sound(s, A), Promised(s), s.status = "ready", NEW kind \in Kinds,
         NEW t \in FailGeneration(s, kind)
  PROVE  Driven(t)
<1> DEFINE u == IF s.running = NoRun THEN s ELSE FinishRun(s, kind)
           v == [Teardown(u) EXCEPT !.status = "empty"]
<1>1. t \in Drain(v)
  BY Zenon DEF FailGeneration
<1>2. Sound(u, A) /\ u.running = NoRun /\ u.waiters = s.waiters
  BY FinishRunSound DEF Frame
<1> HIDE DEF u
<1>3. u.waiters = <<>>
  BY <1>2 DEF Promised
<1>4. Sound(v, A) /\ v.running = NoRun /\ v.status = "empty" /\ v.init = "none"
  BY <1>2, TeardownSound
<1>5. v.waiters = u.waiters
  BY <1>2 DEF Teardown, Sound, Executors
<1> HIDE DEF v
<1>6. Driven(v)
  BY <1>3, <1>4, <1>5 DEF Driven, Promised
<1> QED
  BY <1>1, <1>4, <1>6, DrainDriven

\* The init promise settles: whoever awaited it is due.
LEMMA WakeDriven ==
  ASSUME NEW s \in Executors, NEW ok \in BOOLEAN,
         s.running # NoRun => ~s.running.posted /\ s.running.call \in OwnersOf(Awaiting(s))
  PROVE  Driven(WakeWaiters(s, ok))
<1> DEFINE jobs == s.jobs \o Woken(s.waiters, ok)
           none == <<>>
           t == [s EXCEPT !.jobs = jobs, !.waiters = none, !.init = "none"]
<1>1. WakeWaiters(s, ok) = t
  BY DEF WakeWaiters, Woken
<1>2. t.jobs = jobs /\ t.waiters = none /\ t.init = "none" /\ t.running = s.running
  BY DEF Executors
<1> HIDE DEF t
<1>3. Awaiting(t) = Awaiting(s)
  BY <1>2, AwaitingWoken
<1>4. Driven(t)
  BY <1>2, <1>3 DEF Driven, Promised
<1> QED
  BY <1>1, <1>4

LEMMA InitFailsDriven ==
  ASSUME NEW s \in Executors,
         s.running # NoRun => ~s.running.posted /\ s.running.call \in OwnersOf(Awaiting(s))
  PROVE  Driven(InitFails(s))
<1> DEFINE status == IF s.status = "disposed" THEN "disposed" ELSE "empty"
           u == [Teardown(s) EXCEPT !.status = status]
<1>1. InitFails(s) = WakeWaiters(u, FALSE)
  BY DEF InitFails, Teardown, Executors
<1>2. u \in Executors
  BY TeardownShape
<1>3. u.running = s.running /\ u.jobs = s.jobs /\ u.waiters = s.waiters
  BY DEF Teardown, Executors
<1> HIDE DEF u
<1>4. Driven(WakeWaiters(u, FALSE))
  BY <1>2, <1>3, WakeDriven DEF Awaiting
<1> QED
  BY <1>1, <1>4

LEMMA InitMessageDriven ==
  ASSUME NEW s \in Executors, Driven(s), s.status = "initializing", NEW m, NEW t \in InitMessage(s, m)
  PROVE  Driven(t)
<1>1. s.running # NoRun => ~s.running.posted /\ s.running.call \in OwnersOf(Awaiting(s))
  BY DEF Driven
<1>2. Driven(InitSucceeds(s))
  <2> DEFINE u == [s EXCEPT !.status = "ready"]
  <2>1. u \in Executors /\ u.running = s.running /\ u.jobs = s.jobs /\ u.waiters = s.waiters
    BY DEF Executors, Statuses
  <2> HIDE DEF u
  <2>2. Driven(WakeWaiters(u, TRUE))
    BY <1>1, <2>1, WakeDriven DEF Awaiting
  <2> QED
    BY <2>2 DEF InitSucceeds, u
<1> QED
  BY <1>1, <1>2, InitFailsDriven DEF InitMessage

LEMMA RejectedDriven ==
  ASSUME NEW A \in SUBSET Calls, NEW s, Sound(s, A), Driven(s)
  PROVE  Driven(RejectAllQueued(s, "runtime"))
<1> DEFINE t == RejectAllQueued(s, "runtime")
<1>1. Frame(s, t) /\ t.running = s.running
  BY RejectAllQueuedSound
<1> HIDE DEF t
<1>2. Driven(t)
  BY <1>1, FrameDriven DEF Driven
<1> QED
  BY <1>2 DEF t

\* A continuation runs: if it is the owner of the slot, it sends its request or gives the slot up; if
\* not, the owner still waits.
LEMMA ContinueDriven ==
  ASSUME IInv, Driven(exec), Continue
  PROVE  Driven(exec')
<1> DEFINE j == Head(exec.jobs)
           s == [exec EXCEPT !.jobs = Tail(@)]
<1>1. /\ aborted \in SUBSET Calls /\ Sound(exec, aborted) /\ exec \in Executors /\ exec.jobs # <<>>
      /\ exec' \in IF j.waiter.role = "owner" THEN OwnerContinues(s, j.waiter.call, j.ok)
                   ELSE DrainContinues(s, j.ok)
  BY DEF IInv, Sound, Continue
<1>2. /\ Sound(s, aborted)
      /\ \A c \in Calls : j.waiter = Owner(c) =>
            c \notin OwnersOf(Awaiting(s)) /\ (Running(s, c) => ~s.running.posted)
  BY <1>1, JobTakenSound
<1>3. /\ s.jobs = Tail(exec.jobs) /\ s.waiters = exec.waiters /\ s.init = exec.init
      /\ s.status = exec.status /\ s.running = exec.running
  BY <1>1 DEF Executors
<1> HIDE DEF s
<1>4. j \in Jobs /\ Awaiting(exec) # <<>> /\ Head(Awaiting(exec)) = j.waiter /\ Awaiting(s) = Tail(Awaiting(exec))
  BY <1>1, <1>3, AwaitingTaken
<1> HIDE DEF j
<1>5. Promised(s)
  BY <1>3 DEF Driven, Promised
<1>6. ASSUME \A c \in Calls : j.waiter = Owner(c) => ~Running(s, c)
      PROVE  Driven(s)
  <2>1. ASSUME s.running # NoRun, ~s.running.posted
        PROVE  s.running.call \in OwnersOf(Awaiting(s))
    <3>1. s.running.call \in OwnersOf(Awaiting(exec))
      BY <1>3, <2>1 DEF Driven
    <3>2. s.running.call \in Calls /\ j.waiter # Owner(s.running.call)
      BY <1>6, <2>1, <3>1 DEF Running, OwnersOf
    <3>3. Awaiting(exec) \in Seq(Waiters)
      BY <1>1, AwaitingShape
    <3> QED
      BY <1>4, <3>1, <3>2, <3>3, OwnersBehind
  <2> QED
    BY <1>3, <1>5, <2>1 DEF Driven
<1>7. j.waiter \in Waiters /\ j.ok \in BOOLEAN
  BY <1>4 DEF Jobs
<1>8. CASE j.waiter.role = "owner"
  <2>1. PICK c \in Calls : j.waiter = Owner(c) /\ j.waiter.call = c
    BY <1>7, <1>8, WaiterShape
  <2>2. exec' \in OwnerContinues(s, c, j.ok)
    BY <1>1, <1>8, <2>1
  <2>3. CASE ~Running(s, c)
    <3>1. Driven(s)
      BY <1>6, <2>1, <2>3, WaiterShape
    <3> QED
      BY <2>2, <2>3, <3>1 DEF OwnerContinues, Running
  <2>4. CASE Running(s, c)
    <3> DEFINE u == FinishRun(s, "runtime")
    <3>1. Sound(u, aborted) /\ Driven(u)
      BY <1>1, <1>2, <1>5, <2>4, FinishRunSound, FinishRunDriven DEF Running, Kinds
    <3> HIDE DEF u
    <3>2. Driven(RejectAllQueued(u, "runtime"))
      BY <1>1, <3>1, RejectedDriven
    <3>3. s.status = "ready" /\ exec' \in Post(s, c) => Driven(exec')
      BY <1>1, <1>2, <1>5, <2>4, PostDriven DEF Running
    <3> QED
      BY <2>2, <2>4, <3>1, <3>2, <3>3 DEF OwnerContinues, Running, u
  <2> QED
    BY <2>3, <2>4
<1>9. CASE j.waiter.role # "owner"
  <2>1. \A c \in Calls : j.waiter # Owner(c)
    BY <1>7, <1>9, WaiterShape
  <2>2. Driven(s)
    BY <1>6, <2>1
  <2>3. exec' \in DrainContinues(s, j.ok)
    BY <1>1, <1>9
  <2> QED
    BY <1>1, <1>2, <2>2, <2>3, DrainDriven, RejectedDriven DEF DrainContinues
<1> QED
  BY <1>8, <1>9

\* What a worker that has initialised sends: the next request is started on it or on a successor.
LEMMA ReadyMessageDriven ==
  ASSUME NEW A \in SUBSET Calls, NEW s, Sound(s, A), Driven(s), s.status = "ready",
         NEW m \in Responses, NEW t \in ReadyMessage(s, m)
  PROVE  Driven(t)
<1>1. Promised(s)
  BY DEF Driven
<1>2. ASSUME NEW kind \in Kinds, t \in FailGeneration(s, kind) PROVE Driven(t)
  BY <1>1, <1>2, FailGenerationDriven
<1>3. ASSUME NEW kind \in Kinds, s.running # NoRun, t \in Drain(FinishRun(s, kind)) PROVE Driven(t)
  BY <1>1, <1>3, FreedDriven
<1>4. "runtime" \in Kinds /\ "cancelled" \in Kinds
  BY DEF Kinds
<1>5. CASE m.type = "execute-result" /\ t \in HandleExecuteResult(s, m)
  <2>1. m.kind \in Kinds
    BY <1>5 DEF Responses
  <2> DEFINE kind == IF s.running.cancelling THEN "cancelled" ELSE m.kind
  <2>2. kind \in Kinds
    BY <1>4, <2>1
  <2>3. \/ t = s
        \/ t \in FailGeneration(s, "runtime")
        \/ s.running # NoRun /\ t \in Drain(FinishRun(s, kind))
    BY <1>5 DEF HandleExecuteResult
  <2> HIDE DEF kind
  <2> QED
    BY <1>2, <1>3, <1>4, <2>2, <2>3
<1>6. CASE t \in HandleCancelResult(s, m)
  <2>1. \/ t = s
        \/ t \in FailGeneration(s, "runtime")
        \/ t \in FailGeneration(s, "cancelled")
        \/ s.running # NoRun /\ t \in Drain(FinishRun(s, "cancelled"))
    BY <1>6 DEF HandleCancelResult
  <2> QED
    BY <1>2, <1>3, <1>4, <2>1
<1>7. t = s \/ t \in FailGeneration(s, "runtime")
      \/ (m.type = "execute-result" /\ t \in HandleExecuteResult(s, m)) \/ t \in HandleCancelResult(s, m)
  BY DEF ReadyMessage
<1> QED
  BY <1>2, <1>4, <1>5, <1>6, <1>7

\* The abort listener of a call that has been sent.
LEMMA InitiateCancelDriven ==
  ASSUME NEW A \in SUBSET Calls, NEW s, Sound(s, A), Promised(s), s.status = "ready",
         NEW c \in Calls, Running(s, c), s.running.posted, NEW t \in InitiateCancel(s, c)
  PROVE  Driven(t)
<1> DEFINE B == A \cup {c}
           u == [s EXCEPT !.running.cancelling = TRUE]
           o == Append(u.outbox, [type |-> "cancel", call |-> c])
           v == [u EXCEPT !.outbox = o]
<1>1. Sound(u, B) /\ B \in SUBSET Calls /\ Frame(s, u) /\ u.running \in Runs /\ u.running.posted = TRUE
  BY CancellingSound
<1>2. t \in FailGeneration(u, "cancelled") \/ t = v
  BY DEF InitiateCancel
<1> HIDE DEF u, o
<1>3. Promised(u) /\ u.status = "ready" /\ "cancelled" \in Kinds
  BY <1>1 DEF Frame, Promised, Kinds
<1>4. Driven(v)
  <2>1. v.waiters = u.waiters /\ v.init = u.init /\ v.status = u.status /\ v.running = u.running
    BY <1>1 DEF Sound, Executors
  <2> HIDE DEF v
  <2> QED
    BY <1>1, <1>3, <2>1 DEF Driven, Promised
<1> HIDE DEF v
<1> QED
  BY <1>1, <1>2, <1>3, <1>4, FailGenerationDriven

\* The abort listener: it frees the slot of a call that has not been sent, and takes a call out of
\* the queue.
LEMMA AbortPendingDriven ==
  ASSUME NEW A \in SUBSET Calls, NEW s, Sound(s, A), Driven(s), NEW c \in Calls,
         s.outcome[c] = "pending", NEW t \in AbortPending(s, c)
  PROVE  Driven(t)
<1>1. s \in Executors /\ Promised(s) /\ "cancelled" \in Kinds
  BY DEF Sound, Driven, Kinds
<1>2. CASE Running(s, c) /\ s.status = "ready" /\ s.running.posted
  BY <1>1, <1>2, InitiateCancelDriven DEF AbortPending, Running
<1>3. CASE Running(s, c) /\ ~(s.status = "ready" /\ s.running.posted)
  <2>1. s.running # NoRun /\ t \in Drain(FinishRun(s, "cancelled"))
    BY <1>3 DEF AbortPending, Running
  <2> QED
    BY <1>1, <2>1, FreedDriven
<1>4. CASE ~Running(s, c)
  <2> DEFINE u == Settle(s, {c}, "cancelled")
             q == RemoveAt(u.queue, CHOOSE i \in DOMAIN s.queue : s.queue[i] = c)
             v == [u EXCEPT !.queue = q]
  <2>1. t = s \/ t = v
    BY <1>4, Zenon DEF AbortPending, Running
  <2>2. u \in Executors /\ Frame(s, u) /\ u.running = s.running
    <3>1. {c} \in SUBSET Calls /\ \A d \in {c} : s.outcome[d] = "pending"
      OBVIOUS
    <3> QED
      BY <1>1, <3>1, SettleEffect
  <2> HIDE DEF u, q
  <2>3. Frame(s, v) /\ v.running = s.running
    BY <2>2 DEF Executors, Frame
  <2> HIDE DEF v
  <2> QED
    BY <1>1, <2>1, <2>3, FrameDriven
<1> QED
  BY <1>2, <1>3, <1>4

\* execute(): a call that takes the slot is sent, or waits for the worker.
LEMMA ExecuteCallDriven ==
  ASSUME NEW A \in SUBSET Calls, A = aborted, NEW s, Sound(s, A), Driven(s), NEW c \in Calls,
         s.outcome[c] = "idle", NEW t \in ExecuteCall([s EXCEPT !.outcome[c] = "pending"], c)
  PROVE  Driven(t)
<1> DEFINE r == [s EXCEPT !.outcome[c] = "pending"]
<1>1. TakenUp(s, r, c)
  BY Taking DEF TakenUp
<1>2. Promised(s)
  BY DEF Driven
<1>3. ASSUME NEW kind \in Kinds, t = Settle(r, {c}, kind) PROVE Driven(t)
  <2> DEFINE u == Settle(r, {c}, kind)
  <2> HIDE DEF r
  <2>1. /\ r \in Executors /\ {c} \in SUBSET Calls
        /\ \A d \in {c} : r.outcome[d] = "pending"
    BY <1>1 DEF TakenUp
  <2>2. Frame(r, u) /\ u.running = r.running
    BY <2>1, SettleEffect
  <2> HIDE DEF u
  <2>3. Frame(s, u) /\ u.running = s.running
    BY <1>1, <2>2 DEF TakenUp, Frame
  <2> QED
    BY <1>2, <1>3, <2>3, FrameDriven DEF u
<1>4. CASE t = [r EXCEPT !.queue = Append(r.queue, c)]
  <2> DEFINE q == Append(r.queue, c)
  <2>1. t = [r EXCEPT !.queue = q]
    BY <1>4
  <2> HIDE DEF r, q
  <2>2. Frame(s, t) /\ t.running = s.running
    BY <1>1, <2>1 DEF TakenUp, Executors, Frame
  <2> QED
    BY <1>2, <2>2, FrameDriven
<1>5. CASE c \notin A /\ r.status # "disposed" /\ r.running = NoRun /\ t \in StartRequest(r, c)
  <2> DEFINE u == Takes(r, c)
  <2>1. t \in IF r.status = "ready" THEN Post(u, c)
              ELSE { [v EXCEPT !.waiters = Append(@, Owner(c))] : v \in EnsureInitialized(u) }
    BY <1>5, Zenon DEF StartRequest, Takes
  <2> HIDE DEF r, u
  <2>2. /\ Sound(u, A) /\ Frame(s, u)
        /\ u.running \in Runs /\ u.running.call = c /\ ~u.running.posted
    <3>1. s.running = NoRun /\ c \notin A
      BY <1>1, <1>5 DEF TakenUp
    <3>2. Sound(u, A) /\ Frame(s, u)
      BY <1>1, <3>1, SlotTaken DEF u
    <3>3. u.running \in Runs /\ u.running.call = c /\ ~u.running.posted
      BY <1>1, TakesShape DEF TakenUp, u
    <3> QED
      BY <3>2, <3>3
  <2>3. u.status = r.status /\ Promised(u) /\ u.running # NoRun
    BY <1>1, <1>2, <2>2, RunShape DEF TakenUp, Frame, Promised
  <2>4. CASE r.status = "ready"
    BY <2>1, <2>2, <2>3, <2>4, PostDriven
  <2>5. CASE r.status # "ready"
    <3>1. PICK v \in EnsureInitialized(u) : t = [v EXCEPT !.waiters = Append(@, Owner(c))]
      BY <2>1, <2>5, Zenon
    <3>2. v \in Executors /\ v.init # "none" /\ v.status # "ready" /\ v.running = u.running
      BY <1>5, <2>2, <2>3, <2>5, EnsureDriven
    <3>3. Owner(c) \in Waiters
      BY WaiterShape
    <3>4. v.running \in Runs /\ ~v.running.posted /\ Owner(c) = Owner(v.running.call)
      BY <2>2, <3>2
    <3> QED
      BY <3>1, <3>2, <3>3, <3>4, WaitDriven
  <2> QED
    BY <2>4, <2>5
<1> HIDE DEF r
<1>6. t \in ExecuteCall(r, c)
  BY DEF r
<1>7. \/ \E kind \in Kinds : t = Settle(r, {c}, kind)
      \/ t = [r EXCEPT !.queue = Append(r.queue, c)]
      \/ c \notin A /\ r.status # "disposed" /\ r.running = NoRun /\ t \in StartRequest(r, c)
  BY <1>6 DEF ExecuteCall, Kinds
<1> QED
  BY <1>3, <1>4, <1>5, <1>7

\* dispose(): the slot is empty, and who waits for the worker is woken, or will be.
LEMMA DisposeDriven ==
  ASSUME IInv, Driven(exec), Dispose
  PROVE  Driven(exec')
<1> DEFINE ended == IF exec.running = NoRun THEN exec ELSE FinishRun(exec, "runtime")
           r == RejectAllQueued(ended, "runtime")
           s == [r EXCEPT !.status = "disposed"]
<1>1. aborted \in SUBSET Calls /\ Sound(exec, aborted) /\ Promised(exec)
  BY DEF IInv, Driven
<1>2. exec' = IF exec.init = "loading" THEN InitFails(s) ELSE [Teardown(s) EXCEPT !.init = s.init]
  BY DEF Dispose
<1>3. /\ Sound(ended, aborted) /\ ended.running = NoRun
      /\ ended.init = exec.init /\ ended.waiters = exec.waiters
  <2>1. CASE exec.running = NoRun
    BY <1>1, <2>1
  <2>2. CASE exec.running # NoRun
    BY <1>1, <2>2, FinishRunSound DEF Kinds, Frame
  <2> QED
    BY <2>1, <2>2
<1> HIDE DEF ended
<1>4. r \in Executors /\ r.running = NoRun /\ r.init = exec.init /\ r.waiters = exec.waiters
  BY <1>1, <1>3, RejectAllQueuedSound DEF Frame, Sound
<1> HIDE DEF r
<1>5. /\ s \in Executors /\ s.running = NoRun /\ s.status = "disposed"
      /\ s.init = exec.init /\ s.waiters = exec.waiters
  BY <1>4 DEF Executors, Statuses
<1> HIDE DEF s
<1>6. CASE exec.init = "loading"
  BY <1>2, <1>5, <1>6, InitFailsDriven
<1>7. CASE exec.init # "loading"
  <2>1. /\ exec'.running = s.running /\ exec'.status = s.status /\ exec'.init = s.init
        /\ exec'.waiters = s.waiters
    BY <1>2, <1>5, <1>7 DEF Teardown, Executors
  <2> QED
    BY <1>1, <1>5, <2>1 DEF Driven, Promised
<1> QED
  BY <1>6, <1>7

\* An initialisation that has not succeeded has sent nothing.
LEMMA LoadingUnsent ==
  ASSUME IInv, Driven(exec), exec.init # "none"
  PROVE  exec.running # NoRun => ~exec.running.posted /\ exec.running.call \in OwnersOf(Awaiting(exec))
BY DEF Driven, Promised

LEMMA ContinuationsDriven ==
  ASSUME IInv, Driven(exec), Continuations
  PROVE  Driven(exec')
<1>1. CASE InitRejects
  <2>1. exec \in Executors /\ exec.init = "rejecting" /\ exec' = WakeWaiters(exec, FALSE)
    BY <1>1 DEF IInv, Sound, InitRejects
  <2>2. exec.running # NoRun => ~exec.running.posted /\ exec.running.call \in OwnersOf(Awaiting(exec))
    BY <2>1, LoadingUnsent
  <2> QED
    BY <2>1, <2>2, WakeDriven
<1> QED
  BY <1>1, ContinueDriven DEF Continuations

LEMMA TimersDriven ==
  ASSUME IInv, Driven(exec), Timers
  PROVE  Driven(exec')
<1>1. /\ aborted \in SUBSET Calls /\ Sound(exec, aborted) /\ Promised(exec)
      /\ exec \in Executors
  BY DEF IInv, Sound, Driven
<1>2. CASE InitTimeout
  <2>1. exec.init # "none" /\ exec' = InitFails(exec)
    BY <1>2 DEF InitTimeout
  <2>2. exec.running # NoRun => ~exec.running.posted /\ exec.running.call \in OwnersOf(Awaiting(exec))
    BY <2>1, LoadingUnsent
  <2> QED
    BY <1>1, <2>1, <2>2, InitFailsDriven
<1>3. CASE HardTimeout
  <2> DEFINE kind == IF exec.running.cancelling THEN "cancelled" ELSE "deadline"
  <2>1. kind \in Kinds /\ exec.status = "ready" /\ exec' \in FailGeneration(exec, kind)
    BY <1>3 DEF HardTimeout, Kinds, Driven
  <2> HIDE DEF kind
  <2> QED
    BY <1>1, <2>1, FailGenerationDriven
<1>4. CASE CancelAckTimeout
  <2>1. /\ "cancelled" \in Kinds /\ exec.running # NoRun /\ exec.running.posted
        /\ exec' \in FailGeneration(exec, "cancelled")
    BY <1>1, <1>4 DEF CancelAckTimeout, Kinds, Sound, AbortsSeen
  <2>2. exec.status = "ready"
    BY <2>1 DEF Driven
  <2> QED
    BY <1>1, <2>1, <2>2, FailGenerationDriven
<1> QED
  BY <1>2, <1>3, <1>4 DEF Timers

LEMMA OnMessageDriven ==
  ASSUME IInv, Driven(exec), NEW m \in Responses, OnMessage(m)
  PROVE  Driven(exec')
<1>1. /\ aborted \in SUBSET Calls /\ Sound(exec, aborted) /\ exec \in Executors
      /\ exec.status \in {"initializing", "ready"}
  BY DEF IInv, Sound, Attached, OnMessage
<1>2. CASE exec.status = "initializing"
  <2>1. exec' \in InitMessage(exec, m)
    BY <1>2 DEF OnMessage
  <2> QED
    BY <1>1, <1>2, <2>1, InitMessageDriven
<1>3. CASE exec.status = "ready"
  <2>1. exec' \in ReadyMessage(exec, m)
    BY <1>3 DEF OnMessage
  <2> QED
    BY <1>1, <1>3, <2>1, ReadyMessageDriven
<1> QED
  BY <1>1, <1>2, <1>3

LEMMA NextDriven == IInv /\ Driven(exec) /\ [Next]_vars => Driven(exec')
<1> SUFFICES ASSUME IInv, Driven(exec), [Next]_vars PROVE Driven(exec')
  OBVIOUS
<1>1. aborted \in SUBSET Calls /\ Sound(exec, aborted)
  BY DEF IInv
<1>2. ASSUME NEW c \in Calls, Execute(c) PROVE Driven(exec')
  <2>1. exec.outcome[c] = "idle" /\ exec' \in ExecuteCall([exec EXCEPT !.outcome[c] = "pending"], c)
    BY <1>2 DEF Execute
  <2> QED
    BY <1>1, <2>1, ExecuteCallDriven
<1>3. ASSUME NEW c \in Calls, Abort(c) PROVE Driven(exec')
  <2>1. CASE exec.outcome[c] = "pending"
    <3>1. exec' \in AbortPending(exec, c)
      BY <1>3, <2>1 DEF Abort
    <3> QED
      BY <1>1, <2>1, <3>1, AbortPendingDriven
  <2>2. CASE exec.outcome[c] # "pending"
    <3>1. exec' = exec
      BY <1>3, <2>2 DEF Abort
    <3> QED
      BY <3>1
  <2> QED
    BY <2>1, <2>2
<1>4. ASSUME NEW m \in Responses, OnMessage(m) PROVE Driven(exec')
  BY <1>4, OnMessageDriven
<1>5. CASE UNCHANGED vars
  <2>1. exec' = exec
    BY <1>5 DEF vars
  <2> QED
    BY <2>1
<1> QED
  BY <1>2, <1>3, <1>4, <1>5, DisposeDriven, ContinuationsDriven, TimersDriven DEF Next

ExecDriven == Driven(exec)

LEMMA InitDriven == Init => ExecDriven
BY DEF Init, ExecDriven, Driven, Promised

\* Who is among those that wait is due or awaits the promise.
LEMMA OwnerIsSomewhere ==
  ASSUME NEW s \in Executors, NEW c \in OwnersOf(Awaiting(s))
  PROVE  \/ \E i \in DOMAIN s.jobs : s.jobs[i].waiter = Owner(c)
         \/ \E i \in DOMAIN s.waiters : s.waiters[i] = Owner(c)
<1> DEFINE a == Due(s.jobs)
           b == s.waiters
<1>1. /\ s.jobs \in Seq(Jobs) /\ a \in Seq(Waiters) /\ b \in Seq(Waiters)
      /\ Awaiting(s) = a \o b
  BY AwaitingShape DEF Awaiting
<1>2. Len(a) = Len(s.jobs) /\ \A i \in 1..Len(s.jobs) : a[i] = s.jobs[i].waiter
  BY <1>1, DueShape
<1> HIDE DEF a, b
<1>3. PICK i \in DOMAIN (a \o b) : (a \o b)[i] = Owner(c)
  BY <1>1, Zenon DEF OwnersOf
<1>4. /\ Len(a) \in Nat /\ Len(b) \in Nat /\ DOMAIN b = 1..Len(b) /\ DOMAIN s.jobs = 1..Len(s.jobs)
      /\ DOMAIN (a \o b) = 1..(Len(a) + Len(b))
      /\ \A k \in 1..(Len(a) + Len(b)) : (a \o b)[k] = IF k <= Len(a) THEN a[k] ELSE b[k - Len(a)]
  BY <1>1, ConcatProperties, LenProperties
<1>5. CASE i <= Len(a)
  <2>1. i \in 1..Len(s.jobs) /\ a[i] = Owner(c)
    BY <1>2, <1>3, <1>4, <1>5
  <2> QED
    BY <1>2, <1>4, <2>1
<1>6. CASE ~(i <= Len(a))
  <2>1. i - Len(a) \in 1..Len(b) /\ b[i - Len(a)] = Owner(c)
    BY <1>3, <1>4, <1>6
  <2> QED
    BY <1>4, <2>1 DEF b
<1> QED
  BY <1>5, <1>6

LEMMA DrivenIsEnough == IInv /\ Driven(exec) => SlotIsDriven
<1> SUFFICES ASSUME IInv, Driven(exec) PROVE SlotIsDriven
  OBVIOUS
<1>1. exec \in Executors
  BY DEF IInv, Sound
<1>2. ASSUME exec.running # NoRun, ~exec.running.posted
      PROVE  \/ \E i \in DOMAIN exec.jobs : exec.jobs[i].waiter = Owner(exec.running.call)
             \/ \E i \in DOMAIN exec.waiters : exec.waiters[i] = Owner(exec.running.call)
  <2>1. exec.running.call \in OwnersOf(Awaiting(exec))
    BY <1>2 DEF Driven
  <2> QED
    BY <1>1, <2>1, OwnerIsSomewhere
<1> QED
  BY <1>2 DEF Driven, Promised, SlotIsDriven

\* The safe half of TimersSuffice, for a worker that may answer anything or nothing: a request in the
\* slot has been sent to a ready worker, whose hard-kill timer is armed (postExecuteMessage), or is
\* still awaited by its owner, and the initialisation the owner awaits is loading, with its timer, or
\* about to be rejected, or has settled (ensureInitialized, doInit).
THEOREM SlotStaysDriven == Spec => []SlotIsDriven
<1>1. Init => ExecDriven
  BY InitDriven
<1>2. IInv /\ ExecDriven /\ [Next]_vars => ExecDriven'
  BY NextDriven DEF ExecDriven
<1>3. IInv /\ ExecDriven => SlotIsDriven
  BY DrivenIsEnough DEF ExecDriven
<1> QED
  BY <1>1, <1>2, <1>3, Invariance, PTL DEF Spec

\* A step of the composed system is one of the page, or takes a message on its way to the worker.
LEMMA SystemDriven == SystemIInv /\ Driven(exec) /\ [SystemNext]_systemVars => Driven(exec')
<1> SUFFICES ASSUME SystemIInv, Driven(exec), [SystemNext]_systemVars PROVE Driven(exec')
  OBVIOUS
<1>1. IInv /\ exec \in Executors /\ replies \in Seq(Responses)
  BY DEF SystemIInv, IInv, Sound, Wires
<1>2. CASE PageStep
  <2>1. Next
    <3>1. [type |-> "error"] \in Responses
      BY DEF Responses
    <3> QED
      BY <1>2, <3>1 DEF PageStep, Page, Crash, ForeignWorker, Next
  <2> QED
    BY <1>1, <2>1, NextDriven
<1>3. CASE Deliver
  <2>1. Head(replies) \in Responses /\ OnMessage(Head(replies))
    BY <1>1, <1>3, HeadTailProperties DEF Deliver
  <2> QED
    BY <1>1, <2>1, OnMessageDriven
<1>4. CASE WorkerReceives
  <2> DEFINE o == Tail(exec.outbox)
  <2>1. exec' = [exec EXCEPT !.outbox = o]
    BY <1>4 DEF WorkerReceives
  <2> HIDE DEF o
  <2>2. Frame(exec, exec') /\ exec'.running = exec.running
    BY <1>1, <2>1 DEF Executors, Frame
  <2> QED
    BY <2>2, FrameDriven DEF Driven
<1>5. CASE HandleInit \/ HandleExecute \/ HandleCancel \/ UNCHANGED systemVars
  <2>1. exec' = exec
    BY <1>5 DEF HandleInit, HandleExecute, HandleCancel, Reply, systemVars
  <2> QED
    BY <2>1
<1> QED
  BY <1>2, <1>3, <1>4, <1>5 DEF SystemNext, WorkerStep, PageStep

\* The same of the executor composed with a worker, the package's own or another.
THEOREM SystemSlotStaysDriven == SystemSpec => []SlotIsDriven
<1>1. SystemInit => ExecDriven
  BY InitDriven DEF SystemInit
<1>2. SystemIInv /\ ExecDriven /\ [SystemNext]_systemVars => ExecDriven'
  BY SystemDriven DEF ExecDriven
<1>3. SystemIInv /\ ExecDriven => SlotIsDriven
  BY DrivenIsEnough DEF SystemIInv, ExecDriven
<1> QED
  BY <1>1, <1>2, <1>3, SystemInvariance, PTL DEF SystemSpec
=============================================================================
