---------------------------- MODULE LeaseManager ----------------------------
(***************************************************************************)
(* Lease policy over the repository's lease bucket (lease-manager.ts).     *)
(*                                                                         *)
(* A lease map sends each request to the lease stored under it.  A lease   *)
(* is the attempt it covers (attempt and lease identifiers are generated   *)
(* together, once per assignment, so one number stands for both; worker,   *)
(* generation and segment are those of the attempt) and its age against    *)
(* expiresAt:  "live" is now < expiresAt, "edge" is now = expiresAt and    *)
(* "past" is now > expiresAt.  The two comparisons the code makes differ   *)
(* at the edge: match still accepts there, recovery already reclaims.      *)
(***************************************************************************)
EXTENDS Naturals

LeaseAges == {"live", "edge", "past"}

NoLease == [id |-> 0, age |-> "past"]

\* The lease of a freshly issued assignment.
issue(id) == [id |-> id, age |-> "live"]

isActive(ls, r) == ls[r].id # 0

\* match: the echoed identity names the active lease, which has not run out.
match(ls, r, id) == id # 0 /\ ls[r].id = id /\ ls[r].age # "past"

\* reclaimByRequest: delete whatever lease the request has.
reclaimByRequest(ls, r) == [ls EXCEPT ![r] = NoLease]

\* reclaim: delete the request's lease only if the identity still owns it.
reclaim(ls, r, id) == IF match(ls, r, id) THEN reclaimByRequest(ls, r) ELSE ls

\* reclaimByWorkerGeneration: delete every lease held by one generation.
reclaimByWorkerGeneration(ls, atts, w, g) ==
  [r \in DOMAIN ls |->
     IF ls[r].id # 0 /\ atts[ls[r].id].worker = w /\ atts[ls[r].id].gen = g
       THEN NoLease
       ELSE ls[r]]

\* One clock step of a lease's age.
Older(lease) == [lease EXCEPT !.age = IF @ = "live" THEN "edge" ELSE "past"]
=============================================================================
