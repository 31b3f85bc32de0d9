------------------------ MODULE MCDurableCoordinator ------------------------
(***************************************************************************)
(* Instances of DurableCoordinator for TLC.                                *)
(***************************************************************************)
EXTENDS DurableCoordinator, TLC

\* Coordinators, requests and workers are interchangeable.
Symmetry == Permutations(Coordinators) \cup Permutations(Requests) \cup Permutations(Workers)
=============================================================================
