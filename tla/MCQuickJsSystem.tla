--------------------------- MODULE MCQuickJsSystem ---------------------------
(***************************************************************************)
(* TLC instances of the browser executor with its QuickJS worker.          *)
(***************************************************************************)
EXTENDS QuickJsSystem, TLC

CallSymmetry == Permutations(Calls)
=============================================================================
