----------------------------- MODULE CodeFetcher -----------------------------
(***************************************************************************)
(* The code cache of the client (core/packages/client/src/code-fetcher.ts): *)
(* code is kept under its content hash within a byte budget, callers of one *)
(* hash share a request, and the last one to leave aborts it.               *)
(***************************************************************************)
EXTENDS Naturals, FiniteSets, SequencesExt

CONSTANTS
    CodeCallers,    \* calls of fetch()
    Hashes,
    ByteLength,     \* the size of the code of each hash
    MaxCacheBytes,
    NoDownload

ASSUME BudgetAssumption == ByteLength \in [Hashes -> Nat] /\ MaxCacheBytes \in Nat
ASSUME NoDownloadAssumption == NoDownload \notin Hashes \cup CodeCallers

VARIABLES
    codes,          \* hashes in insertion order, the least recently used first
    codeBytes,
    downloads,      \* by hash: the request under way, named by the call that began it, or NoDownload
    codeRequest,    \* the requests
    codeCaller      \* each call: where it is and the request it awaits

codeVars == <<codes, codeBytes, downloads, codeRequest, codeCaller>>

CodeResumable == {"got", "failed", "cancelled"}

CodeInit ==
    /\ codes = <<>> /\ codeBytes = 0
    /\ downloads = [h \in Hashes |-> NoDownload]
    /\ codeRequest = [c \in CodeCallers |->
                         [state |-> "none", hash |-> NoDownload, aborted |-> FALSE]]
    /\ codeCaller = [c \in CodeCallers |-> [stage |-> "idle", request |-> NoDownload]]

CodeWaiters(q) == {c \in CodeCallers : codeCaller[c].request = q /\ codeCaller[c].stage # "done"}

WakeCode(q, stage) ==
    codeCaller' = [c \in CodeCallers |->
                     IF codeCaller[c].request = q /\ codeCaller[c].stage = "await"
                     THEN [codeCaller[c] EXCEPT !.stage = stage] ELSE codeCaller[c]]

\* fetch(): a hit moves to the end of the map, a miss joins or begins a request.
FetchByHash(c, h) ==
    /\ codeCaller[c].stage = "idle"
    /\ UNCHANGED codeBytes
    /\ \/ /\ Contains(codes, h)
          /\ codes' = Append(RemoveFirst(codes, h), h)
          /\ codeCaller' = [codeCaller EXCEPT ![c].stage = "done"]
          /\ UNCHANGED <<downloads, codeRequest>>
       \/ /\ ~Contains(codes, h) /\ downloads[h] # NoDownload
          /\ codeCaller' = [codeCaller EXCEPT ![c] = [stage |-> "await", request |-> downloads[h]]]
          /\ UNCHANGED <<codes, downloads, codeRequest>>
       \/ /\ ~Contains(codes, h) /\ downloads[h] = NoDownload
          /\ codeCaller' = [codeCaller EXCEPT ![c] = [stage |-> "await", request |-> c]]
          /\ downloads' = [downloads EXCEPT ![h] = c]
          /\ codeRequest' = [codeRequest EXCEPT
                               ![c] = [state |-> "sent", hash |-> h, aborted |-> FALSE]]
          /\ UNCHANGED codes

BytesOf(hashes) == FoldFunctionOnSet(+, 0, ByteLength, hashes)

\* Mutant: entries are dropped until the old ones fit, the new one aside.
cacheCodeOverBudget(h) ==
    IF ByteLength[h] > MaxCacheBytes THEN UNCHANGED <<codes, codeBytes>>
    ELSE codes' = Append(codes, h) /\ codeBytes' = codeBytes + ByteLength[h]

\* cacheCode: the code of an entry stored before is replaced, and the oldest entries go until the
\* new one fits.
cacheCode(h) ==
    IF MaxCacheBytes = 0 \/ ByteLength[h] > MaxCacheBytes THEN UNCHANGED <<codes, codeBytes>>
    ELSE LET others == RemoveFirst(codes, h)
             rest == codeBytes - (IF Contains(codes, h) THEN ByteLength[h] ELSE 0)
             Freed(k) == BytesOf(ToSet(SubSeq(others, 1, k)))
             dropped == CHOOSE k \in 0..Len(others) :
                            /\ rest - Freed(k) <= MaxCacheBytes - ByteLength[h] \/ k = Len(others)
                            /\ \A j \in 0..(k - 1) : rest - Freed(j) > MaxCacheBytes - ByteLength[h]
         IN  /\ codes' = Append(SubSeq(others, dropped + 1, Len(others)), h)
             /\ codeBytes' = rest - Freed(dropped) + ByteLength[h]

\* The promise of q settles and its `finally` clears the map.
DownloadSettles(q) ==
    /\ codeRequest' = [codeRequest EXCEPT ![q].state = "done"]
    /\ downloads' = [h \in Hashes |-> IF downloads[h] = q THEN NoDownload ELSE downloads[h]]

\* fetchAndCache: the body has the hash it was asked for and the request was not aborted.
ReceiveCode(q) ==
    /\ codeRequest[q].state = "sent" /\ ~codeRequest[q].aborted
    /\ DownloadSettles(q)
    /\ cacheCode(codeRequest[q].hash)
    /\ WakeCode(q, "got")

\* The network, the status, the integrity check or the abort ends the request.
DownloadFails(q) ==
    /\ codeRequest[q].state = "sent"
    /\ DownloadSettles(q)
    /\ WakeCode(q, IF codeRequest[q].aborted THEN "cancelled" ELSE "failed")
    /\ UNCHANGED <<codes, codeBytes>>

AbortDownload(c) ==
    /\ codeCaller[c].stage = "await"
    /\ codeCaller' = [codeCaller EXCEPT ![c].stage = "cancelled"]
    /\ UNCHANGED <<codes, codeBytes, downloads, codeRequest>>

\* The continuation of fetch() with its `finally`.
ResumeCode(c) ==
    /\ codeCaller[c].stage \in CodeResumable
    /\ codeCaller' = [codeCaller EXCEPT ![c].stage = "done"]
    /\ LET q == codeCaller[c].request
           h == codeRequest[q].hash
       IN  IF CodeWaiters(q) = {c} /\ downloads[h] = q
           THEN /\ downloads' = [downloads EXCEPT ![h] = NoDownload]
                /\ codeRequest' = [codeRequest EXCEPT ![q].aborted = TRUE]
           ELSE UNCHANGED <<downloads, codeRequest>>
    /\ UNCHANGED <<codes, codeBytes>>

CodeNext ==
    \/ \E c \in CodeCallers, h \in Hashes : FetchByHash(c, h)
    \/ \E c \in CodeCallers : AbortDownload(c) \/ ResumeCode(c)
    \/ \E q \in CodeCallers : ReceiveCode(q) \/ DownloadFails(q)

CodeSpec == CodeInit /\ [][CodeNext]_codeVars

-----------------------------------------------------------------------------
(* Properties.                                                             *)

CodeTypeOK ==
    /\ codes \in Seq(Hashes) /\ codeBytes \in Nat
    /\ downloads \in [Hashes -> CodeCallers \cup {NoDownload}]
    /\ codeRequest \in [CodeCallers -> [state : {"none", "sent", "done"},
                                        hash : Hashes \cup {NoDownload}, aborted : BOOLEAN]]
    /\ codeCaller \in [CodeCallers -> [stage : {"idle", "await", "done"} \cup CodeResumable,
                                       request : CodeCallers \cup {NoDownload}]]

\* The byte account is exact and within its limit, after any sequence of hits, stores of codes of
\* every size, evictions and aborted requests.
BudgetKept ==
    /\ codeBytes = BytesOf(ToSet(codes))
    /\ codeBytes <= MaxCacheBytes
    /\ IsInjective(codes)

\* A hash is downloaded by one request at a time, which somebody wants; what is cached is not
\* downloaded again; and a caller that waits is not failed by the abort of another one.
OneRequestPerHash ==
    /\ CodeTypeOK
    /\ \A q \in CodeCallers :
          codeRequest[q].state = "sent" /\ ~codeRequest[q].aborted =>
              downloads[codeRequest[q].hash] = q /\ CodeWaiters(q) # {}
    /\ \A h \in Hashes : downloads[h] # NoDownload =>
          /\ codeRequest[downloads[h]].hash = h
          /\ ~Contains(codes, h)
    /\ \A c \in CodeCallers :
          codeCaller[c].stage = "await" =>
            /\ codeRequest[codeCaller[c].request].state = "sent"
            /\ ~codeRequest[codeCaller[c].request].aborted

\* The cache keeps both promises in whatever order downloads end, fail, join and are left.
CodeCacheSound == BudgetKept /\ OneRequestPerHash
=============================================================================
