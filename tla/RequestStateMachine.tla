------------------------- MODULE RequestStateMachine -------------------------
(***************************************************************************)
(* The stage graph of a durable request (request-state-machine.ts).        *)
(***************************************************************************)

REQUEST_STAGES == {"accepted", "queued", "leased", "running", "retry-wait",
                   "completed", "failed", "cancelled"}

TERMINAL_STAGES == {"completed", "failed", "cancelled"}

\* The adjacency table: what each stage may move to.
TRANSITIONS ==
  [s \in REQUEST_STAGES |->
     CASE s = "accepted"   -> {"queued"}
       [] s = "queued"     -> {"leased", "failed", "cancelled"}
       [] s = "leased"     -> {"running", "failed", "cancelled"}
       [] s = "running"    -> {"completed", "failed", "retry-wait", "queued", "cancelled"}
       [] s = "retry-wait" -> {"queued", "failed", "cancelled"}
       [] OTHER            -> {}]

\* Mutant: the target is looked up, the stage it leaves is not.
isKnownStage(from, to) == to \in REQUEST_STAGES

isLegalTransition(from, to) == from \in REQUEST_STAGES /\ to \in TRANSITIONS[from]
=============================================================================
