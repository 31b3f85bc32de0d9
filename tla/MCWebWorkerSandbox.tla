------------------------- MODULE MCWebWorkerSandbox -------------------------
(***************************************************************************)
(* TLC instances of the browser executor.                                  *)
(***************************************************************************)
EXTENDS WebWorkerSandbox, TLC

CallSymmetry == Permutations(Calls)
=============================================================================
