--------------------------- MODULE ManifestFetcher ---------------------------
(***************************************************************************)
(* The manifest cache of the client (core/packages/client/src/              *)
(* manifest-fetcher.ts): callers share one request, each may abort on its   *)
(* own, invalidate() forces the next call to the server, and an ETag lets   *)
(* the server answer 304 for the manifest received last.                    *)
(*                                                                         *)
(* A manifest is the version the server had when it answered; 0 is none.    *)
(* What follows an await runs as a step of its own.                         *)
(***************************************************************************)
EXTENDS Naturals, FiniteSets

CONSTANTS
    Callers,        \* calls of fetch()
    MaxVersion,     \* bound: publications on the server
    MaxInvalidations, \* bound: calls of invalidate()
    Nothing

ASSUME BoundsAssumption == MaxVersion \in Nat \ {0} /\ MaxInvalidations \in Nat
ASSUME NothingAssumption == Nothing \notin Callers

VARIABLES
    server,         \* the version the server publishes
    cache, lastManifest, etag,  \* the fetcher's fields; an ETag is named by its version
    inflight,       \* the shared request: the call that began it, or Nothing
    request,        \* the requests, each named by the call that began it
    caller,         \* each call: where it is, the request it awaits, what it returns
    invalidations   \* how often the cache was invalidated and at which server version (history)

fetcherVars == <<server, cache, lastManifest, etag, inflight, request, caller, invalidations>>

Versions == 0..MaxVersion
Responses == [status : {200, 304}, version : Versions, etag : Versions] \cup {Nothing}
Requests == [state : {"none", "sent", "answered", "done"}, conditional : Versions,
             aborted : BOOLEAN, response : Responses]
NoRequest == [state |-> "none", conditional |-> 0, aborted |-> FALSE, response |-> Nothing]
Resumable == {"got", "failed", "cancelled"}
Calls == [stage : {"idle", "await", "done"} \cup Resumable, request : Callers \cup {Nothing},
          value : Versions, since : Versions]

FetcherInit ==
    /\ server = 1
    /\ cache = 0 /\ lastManifest = 0 /\ etag = 0
    /\ inflight = Nothing
    /\ request = [c \in Callers |-> NoRequest]
    /\ caller = [c \in Callers |-> [stage |-> "idle", request |-> Nothing, value |-> 0, since |-> 0]]
    /\ invalidations = [count |-> 0, at |-> 0]

\* entry.waiters: joined calls whose `finally` has not run.
Waiters(q) == {c \in Callers : caller[c].request = q /\ caller[c].stage # "done"}

\* The promise of request q settles: whoever still awaits it will go on.
Wake(q, stage, version) ==
    caller' = [c \in Callers |->
                 IF caller[c].request = q /\ caller[c].stage = "await"
                 THEN [caller[c] EXCEPT !.stage = stage, !.value = version] ELSE caller[c]]

-----------------------------------------------------------------------------

\* A new version goes live on the server.
Publish ==
    /\ server < MaxVersion
    /\ server' = server + 1
    /\ UNCHANGED <<cache, lastManifest, etag, inflight, request, caller, invalidations>>

\* fetch(): served from the cache, or joined to the request under way, or a request begins; it is
\* conditional on the ETag of the last manifest.
Fetch(c) ==
    /\ caller[c].stage = "idle"
    /\ UNCHANGED <<server, cache, lastManifest, etag, invalidations>>
    /\ LET call == [caller[c] EXCEPT !.since = invalidations.at] IN
       \/ /\ cache # 0
          /\ caller' = [caller EXCEPT ![c] = [call EXCEPT !.stage = "done", !.value = cache]]
          /\ UNCHANGED <<inflight, request>>
       \/ /\ cache = 0 /\ inflight # Nothing
          /\ caller' = [caller EXCEPT ![c] = [call EXCEPT !.stage = "await", !.request = inflight]]
          /\ UNCHANGED <<inflight, request>>
       \/ /\ cache = 0 /\ inflight = Nothing
          /\ caller' = [caller EXCEPT ![c] = [call EXCEPT !.stage = "await", !.request = c]]
          /\ inflight' = c
          /\ request' = [request EXCEPT ![c] =
                [NoRequest EXCEPT !.state = "sent",
                                  !.conditional = IF lastManifest # 0 THEN etag ELSE 0]]

\* GET /manifest: 304 if the ETag it was sent is current, or the manifest. The package's server
\* always sends an ETag and never a full answer to a current one; another may do both.
Respond(q) ==
    /\ request[q].state = "sent"
    /\ \E r \in Responses \ {Nothing} :
          /\ r.version = server
          /\ r.status = 304 => request[q].conditional = server /\ r.etag = server
          /\ r.etag \in {0, server}
          /\ request' = [request EXCEPT ![q].state = "answered", ![q].response = r]
    /\ UNCHANGED <<server, cache, lastManifest, etag, inflight, caller, invalidations>>

\* Mutant: a manifest without an ETag leaves the ETag of the one before.
ReceiveKeepsEtag(q) ==
    /\ request[q].state = "answered" /\ ~request[q].aborted
    /\ request' = [request EXCEPT ![q].state = "done"]
    /\ inflight' = IF inflight = q THEN Nothing ELSE inflight
    /\ LET r == request[q].response IN
       /\ cache' = IF r.status = 304 THEN lastManifest ELSE r.version
       /\ lastManifest' = cache'
       /\ etag' = IF r.etag # 0 THEN r.etag ELSE etag
       /\ Wake(q, "got", cache')
    /\ UNCHANGED <<server, invalidations>>

\* Mutant: an aborted request commits what it received.
ReceiveAborted(q) ==
    /\ request[q].state = "answered"
    /\ request' = [request EXCEPT ![q].state = "done"]
    /\ inflight' = IF inflight = q THEN Nothing ELSE inflight
    /\ LET r == request[q].response IN
       /\ cache' = r.version /\ lastManifest' = r.version /\ etag' = r.etag
       /\ Wake(q, "got", r.version)
    /\ UNCHANGED <<server, invalidations>>

\* fetchFromServer once the body is read: nothing is committed for an aborted request.
Receive(q) ==
    /\ request[q].state = "answered"
    /\ request' = [request EXCEPT ![q].state = "done"]
    /\ inflight' = IF inflight = q THEN Nothing ELSE inflight
    /\ LET r == request[q].response IN
       \/ /\ request[q].aborted
          /\ Wake(q, "cancelled", 0)
          /\ UNCHANGED <<cache, lastManifest, etag>>
       \/ /\ ~request[q].aborted /\ r.status = 304
          /\ cache' = request[q].conditional
          /\ Wake(q, "got", request[q].conditional)
          /\ UNCHANGED <<lastManifest, etag>>
       \/ /\ ~request[q].aborted /\ r.status = 200
          /\ cache' = r.version /\ lastManifest' = r.version /\ etag' = r.etag
          /\ Wake(q, "got", r.version)
    /\ UNCHANGED <<server, invalidations>>

\* The request fails: the network, an error status, a malformed body, or the abort itself.
RequestFails(q) ==
    /\ request[q].state \in {"sent", "answered"}
    /\ request' = [request EXCEPT ![q].state = "done"]
    /\ inflight' = IF inflight = q THEN Nothing ELSE inflight
    /\ Wake(q, IF request[q].aborted THEN "cancelled" ELSE "failed", 0)
    /\ UNCHANGED <<server, cache, lastManifest, etag, invalidations>>

\* The caller's signal fires while it waits: its race is lost, its `finally` comes later.
AbortFetch(c) ==
    /\ caller[c].stage = "await"
    /\ caller' = [caller EXCEPT ![c].stage = "cancelled"]
    /\ UNCHANGED <<server, cache, lastManifest, etag, inflight, request, invalidations>>

\* Mutant: any waiter that leaves aborts the request.
ResumeAborts(c) ==
    /\ caller[c].stage \in Resumable
    /\ caller' = [caller EXCEPT ![c].stage = "done"]
    /\ inflight' = IF inflight = caller[c].request THEN Nothing ELSE inflight
    /\ request' = [request EXCEPT ![caller[c].request].aborted = TRUE]
    /\ UNCHANGED <<server, cache, lastManifest, etag, invalidations>>

\* The continuation of fetch() with its `finally`: the last waiter aborts the request.
Resume(c) ==
    /\ caller[c].stage \in Resumable
    /\ caller' = [caller EXCEPT ![c].stage = "done"]
    /\ LET q == caller[c].request IN
       IF Waiters(q) = {c}
       THEN /\ inflight' = IF inflight = q THEN Nothing ELSE inflight
            /\ request' = [request EXCEPT ![q].aborted = TRUE]
       ELSE UNCHANGED <<inflight, request>>
    /\ UNCHANGED <<server, cache, lastManifest, etag, invalidations>>

\* Mutant: the request under way is dropped and may still commit.
InvalidateDropsRequest ==
    /\ invalidations.count < MaxInvalidations
    /\ cache' = 0
    /\ inflight' = Nothing
    /\ invalidations' = [count |-> invalidations.count + 1, at |-> server]
    /\ UNCHANGED <<server, lastManifest, etag, request, caller>>

\* invalidate(): the ETag and the manifest it belongs to are kept.
Invalidate ==
    /\ invalidations.count < MaxInvalidations
    /\ cache' = 0
    /\ inflight' = Nothing
    /\ request' = IF inflight = Nothing THEN request ELSE [request EXCEPT ![inflight].aborted = TRUE]
    /\ invalidations' = [count |-> invalidations.count + 1, at |-> server]
    /\ UNCHANGED <<server, lastManifest, etag, caller>>

FetcherNext ==
    \/ Publish
    \/ Invalidate
    \/ \E c \in Callers : Fetch(c) \/ AbortFetch(c) \/ Resume(c)
    \/ \E q \in Callers : Respond(q) \/ Receive(q) \/ RequestFails(q)

FetcherSpec == FetcherInit /\ [][FetcherNext]_fetcherVars

-----------------------------------------------------------------------------
(* Properties.                                                             *)

FetcherTypeOK ==
    /\ server \in Versions /\ cache \in Versions /\ lastManifest \in Versions /\ etag \in Versions
    /\ inflight \in Callers \cup {Nothing}
    /\ request \in [Callers -> Requests]
    /\ caller \in [Callers -> Calls]
    /\ invalidations \in [count : 0..MaxInvalidations, at : Versions]

\* An ETag is kept with the manifest it belongs to, or a 304 would revive another manifest.
EtagMatchesManifest == etag # 0 => etag = lastManifest

\* invalidate() is obeyed: a call made after it returns a manifest at least as new as the server's
\* at that moment, although requests of before are under way, answered or about to be committed;
\* and what is cached is as new as the last invalidation.
InvalidateRefreshes ==
    /\ cache # 0 => cache >= invalidations.at
    /\ \A c \in Callers : caller[c].value # 0 => caller[c].value >= caller[c].since

\* The manifest the fetcher would revalidate never goes back to an older version, in whatever
\* order requests are answered and aborted.
NeverRegresses == [][lastManifest' >= lastManifest]_fetcherVars

\* At most one request is under way that may commit, and it is the one callers join; nobody awaits
\* a request that was aborted for somebody else, except by invalidate().
RequestIsShared ==
    /\ FetcherTypeOK
    /\ \A q \in Callers :
          request[q].state \in {"sent", "answered"} /\ ~request[q].aborted => inflight = q
    /\ \A c \in Callers :
          caller[c].stage = "await" =>
            /\ request[caller[c].request].state \in {"sent", "answered"}
            /\ request[caller[c].request].aborted => invalidations.count > 0
=============================================================================
