----------------------- MODULE MCContinuousAssurance -----------------------
(***************************************************************************)
(* TLC instances of continuous assurance.                                  *)
(***************************************************************************)
EXTENDS ContinuousAssurance, TLC
=============================================================================
