---------------------------- MODULE MCPipelines ----------------------------
(***************************************************************************)
(* TLC instances of the parts around the coordinators of LLM-proto: the    *)
(* pipelines over a worker pool, and the repository that the durable       *)
(* coordinator keeps in a Durable Object.  They share no state, so one run *)
(* checks them side by side: the initial state says which one moves.       *)
(***************************************************************************)
EXTENDS Pipelines, DurableObjectRepository, TLC

CONSTANTS w1, w2, w3, r1, r2

MCTier == w1 :> 1 @@ w2 :> 2 @@ w3 :> 2
MCVram == w1 :> 3 @@ w2 :> 1 @@ w3 :> 2
MCId == w1 :> 1 @@ w2 :> 2 @@ w3 :> 3
MCSize == 0 :> 1 @@ 1 :> 1 @@ 2 :> 2

VARIABLE side   \* the part that moves

PartsInit ==
    /\ side \in {"pipelines", "repository"} /\ Init /\ RepositoryInit
    /\ side = "repository" => strategy = "segments" /\ \A w \in Workers : pool[w] = "absent"

PartsNext ==
    /\ UNCHANGED side
    /\ \/ side = "pipelines" /\ Next /\ UNCHANGED repositoryVars
       \/ side = "repository" /\ RepositoryNext /\ UNCHANGED vars

PartsSpec == PartsInit /\ [][PartsNext]_<<side, vars, repositoryVars>>

\* The configuration names requests and leases alike: each part is symmetric in its own.
PartsSymmetry == Permutations({r1, r2}) \cup Permutations(Handles)
=============================================================================
