------------------------- MODULE AssuranceContract -------------------------
(***************************************************************************)
(* What continuous assurance promises for a scope.  Every trigger has at   *)
(* most one outcome, decided by an evaluation that was alone in its scope; *)
(* the current run changes with a passing outcome, which was derived from  *)
(* that very run, or when an operator seeds another; and what the runtime  *)
(* reports of a trigger is its outcome.                                    *)
(***************************************************************************)
CONSTANTS Triggers, None

VARIABLES
    current,        \* the run of the current snapshot, or None
    working,        \* the trigger under evaluation, if any, and the run it works from
    outcome,        \* of each trigger, or None
    report          \* the runtime's report of each trigger, or None

vars == <<current, working, outcome, report>>

Init ==
    /\ current = None
    /\ working = {}
    /\ outcome = [t \in Triggers |-> None]
    /\ report = [t \in Triggers |-> None]

Begin(t) ==
    /\ current # None /\ outcome[t] = None /\ working = {}
    /\ working' = {[trigger |-> t, base |-> current]}
    /\ UNCHANGED <<current, outcome, report>>

\* An evaluation ends without an outcome.
GiveUp == working' = {} /\ UNCHANGED <<current, outcome, report>>

Decide(claim) ==
    LET t == claim.trigger
        result == outcome'[t]
    IN  /\ outcome[t] = None /\ result # None
        /\ outcome' = [outcome EXCEPT ![t] = result]
        /\ IF result.status = "pass"
           THEN current = claim.base /\ current' = result.run
           ELSE UNCHANGED current
        /\ working' = {} /\ UNCHANGED report

\* An operator seeds a run.
Seed == current' # None /\ UNCHANGED <<working, outcome, report>>

Report(t) ==
    /\ outcome[t] # None
    /\ report' = [report EXCEPT ![t] = outcome[t]]
    /\ UNCHANGED <<current, working, outcome>>

Next ==
    \/ GiveUp \/ Seed
    \/ \E t \in Triggers : Begin(t) \/ Report(t)
    \/ \E claim \in working : Decide(claim)

Spec == Init /\ [][Next]_vars
=============================================================================
