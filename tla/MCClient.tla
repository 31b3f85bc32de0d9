------------------------------ MODULE MCClient ------------------------------
(***************************************************************************)
(* TLC instances of the client library: its execution pipeline, its        *)
(* manifest and code caches and its MoonBit executor.  They meet in calls  *)
(* whose outcome each of them leaves open and share no state, so one run   *)
(* checks them side by side: the initial state says which one moves.  Of   *)
(* the three codes, two small ones fit together in the code cache and a    *)
(* large one only alone.                                                   *)
(***************************************************************************)
EXTENDS UnzenClient, ManifestFetcher, CodeFetcher, MoonBitWorkerSandbox, TLC

CONSTANTS h1, h2, h3    \* codes

MCHashes == {h1, h2, h3}
MCByteLength == h1 :> 1 @@ h2 :> 1 @@ h3 :> 2

VARIABLE side           \* the part that moves

ASSUME PipelineAssumption == ConstantsSound

ClientInit ==
    /\ side \in {"pipeline", "manifest", "code", "moonbit"}
    /\ Init /\ FetcherInit /\ CodeInit /\ MoonBitInit
    /\ side # "pipeline" => mode = "production"

ClientNext ==
    /\ UNCHANGED side
    /\ \/ side = "pipeline" /\ Next /\ UNCHANGED <<fetcherVars, codeVars, moonBitVars>>
       \/ side = "manifest" /\ FetcherNext /\ UNCHANGED <<vars, codeVars, moonBitVars>>
       \/ side = "code" /\ CodeNext /\ UNCHANGED <<vars, fetcherVars, moonBitVars>>
       \/ side = "moonbit" /\ MoonBitNext /\ UNCHANGED <<vars, fetcherVars, codeVars>>

ClientSpec ==
    ClientInit /\ [][ClientNext]_<<side, vars, fetcherVars, codeVars, moonBitVars>>

\* The configuration names the two calls of the pipeline and the two modules alike, and the
\* calls of the caches and of the executor: each part is symmetric in its own, so are all at once.
ClientSymmetry == Permutations(Executions) \cup Permutations(Callers)
=============================================================================
