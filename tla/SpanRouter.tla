----------------------------- MODULE SpanRouter -----------------------------
(***************************************************************************)
(* The routes of LLM-proto/src/span-router.ts: a suffix of the model is cut *)
(* into spans of contiguous segments, each for another idle worker, which   *)
(* takes as many segments as fit its memory.  Candidates are tried in the   *)
(* order of their rank, with backtracking.                                  *)
(***************************************************************************)
EXTENDS Integers, FiniteSets, SequencesExt, WorkerPool

CONSTANTS
    NumSegments,
    Size,           \* by segment: estimatedVramMB, which also stands for its artifact's bytes
    Id,             \* by worker: its place in the order of identifiers
    NoRoute

Segments == 0..(NumSegments - 1)
Spans == [worker : Workers, first : Segments, last : Segments]

\* A request without segments ends before anything is routed.
ASSUME SegmentsAssumption == NumSegments \in Nat \ {0}
ASSUME SizesAssumption ==
    /\ IsFiniteSet(Workers) /\ Size \in [Segments -> Nat]
    /\ Tier \in [Workers -> Int] /\ Vram \in [Workers -> Nat] /\ Id \in [Workers -> Int]
ASSUME NoRouteAssumption == NoRoute \notin Seq(Spans)

SizeOf(S) == FoldFunctionOnSet(+, 0, Size, S)

\* computeMaximumSpan: segments are added until one does not fit.
computeMaximumSpan(w, start) ==
    CHOOSE n \in 0..(NumSegments - start) :
        /\ SizeOf(start..(start + n - 1)) <= Vram[w]
        /\ n < NumSegments - start => SizeOf(start..(start + n)) > Vram[w]

\* residentPrefixLength of the ledger.
residentPrefixLength(resident, start, max) ==
    CHOOSE n \in 0..max :
        /\ start..(start + n - 1) \subseteq resident
        /\ n < max => start + n \notin resident

\* The keys rankWorkers compares, most important first, smaller first.
RankOf(w, start, resident) ==
    LET max == computeMaximumSpan(w, start)
        span == start..(start + max - 1)
    IN  << -residentPrefixLength(resident, start, max), -SizeOf(span \cap resident),
           SizeOf(span \ resident), Tier[w], -max, -Vram[w], Id[w] >>

Precedes(a, b) == \E i \in DOMAIN a : a[i] < b[i] /\ \A j \in 1..(i - 1) : a[j] = b[j]

\* Idle workers outside `used` that can take the segment at `start`.
Candidates(pool, start, used) ==
    {w \in Workers \ used : pool[w] = "idle" /\ computeMaximumSpan(w, start) > 0}

\* The first of some candidates in the order of rankWorkers.
Best(candidates, ledger, start) ==
    CHOOSE w \in candidates : \A v \in candidates \ {w} :
        ~Precedes(RankOf(v, start, ledger[v]), RankOf(w, start, ledger[w]))

SpanOf(w, start) ==
    [worker |-> w, first |-> start, last |-> start + computeMaximumSpan(w, start) - 1]

\* Mutant: the best candidate is taken without trying another one.
computeRouteGreedy(pool, ledger, startSegment) ==
    LET searchRoute[start \in 0..NumSegments] == [used \in SUBSET Workers |->
          IF start = NumSegments THEN <<>>
          ELSE LET candidates == Candidates(pool, start, used) IN
               IF candidates = {} THEN NoRoute
               ELSE LET span == SpanOf(Best(candidates, ledger, start), start)
                        suffix == searchRoute[span.last + 1][used \cup {span.worker}]
                    IN  IF suffix = NoRoute THEN NoRoute ELSE <<span>> \o suffix]
    IN  searchRoute[startSegment][{}]

\* computeRoute and searchRoute: of the candidates from which the rest can be covered, the first.
computeRoute(pool, ledger, startSegment) ==
    LET searchRoute[start \in 0..NumSegments] == [used \in SUBSET Workers |->
          IF start = NumSegments THEN <<>>
          ELSE LET After(w) == searchRoute[SpanOf(w, start).last + 1][used \cup {w}]
                   viable == {w \in Candidates(pool, start, used) : After(w) # NoRoute}
                   selected == Best(viable, ledger, start)
               IN  IF viable = {} THEN NoRoute ELSE <<SpanOf(selected, start)>> \o After(selected)]
    IN  searchRoute[startSegment][{}]

-----------------------------------------------------------------------------
(* The reference the search is checked against.                            *)

\* Some distinct idle workers can cover the segments from `start` on between them, in whatever
\* pieces: not only in the longest ones the router tries.
Coverable(pool, start) ==
    \E pieces \in [start..(NumSegments - 1) -> {w \in Workers : pool[w] = "idle"}] :
        \A w \in Workers :
            LET own == {s \in DOMAIN pieces : pieces[s] = w}
            IN  /\ SizeOf(own) <= Vram[w]
                /\ \A s, t \in own : s..t \subseteq own

\* The route covers the suffix without gap or overlap, each span on another idle worker with the
\* memory for it.
Covers(pool, route, start) ==
    /\ route \in Seq(Spans) \ {<<>>}
    /\ Head(route).first = start /\ Last(route).last = NumSegments - 1
    /\ \A i \in DOMAIN route :
          /\ route[i].first <= route[i].last
          /\ pool[route[i].worker] = "idle"
          /\ SizeOf(route[i].first..route[i].last) <= Vram[route[i].worker]
          /\ i > 1 => route[i].first = route[i - 1].last + 1
          /\ \A j \in DOMAIN route : route[i].worker = route[j].worker => i = j
=============================================================================
