------------------------ MODULE AssuranceAutomation ------------------------
(***************************************************************************)
(* One evaluation of the continuous assurance automation: is the cycle of  *)
(* the current snapshot due, which actions does it take, may its evidence  *)
(* be committed, and as which snapshot.  Time is counted in cron ticks.    *)
(*                                                                         *)
(* A snapshot is the verified aggregate evidence of a cycle, reduced to    *)
(* what decides the next one.  Its run names the evidence: a cycle's run   *)
(* is the time the cycle was due, an operator's seed has a negative run.   *)
(* Credentials are versions.  The contents of audits, retrievals, health   *)
(* and retained evidence only decide whether an evaluation holds, which    *)
(* the engine leaves open (Hold).                                          *)
(***************************************************************************)
EXTENDS Integers

CONSTANTS
    Cadence, Grace,                             \* of cycles
    RotationCadence, RotationLead,              \* of credentials
    DrillCadence, DrillGrace, DrillLead         \* of disaster recovery exercises

ASSUME PolicyAssumption ==
    /\ {Grace, RotationLead, DrillGrace, DrillLead} \subseteq Nat
    /\ {Cadence, RotationCadence, DrillCadence} \subseteq Nat \ {0}

Snapshots ==
    [run : Int, due : Int, credentials : Nat, rotationDue : Int, drillDue : Int]

Due(base, at) == at >= base.due

Overdue(base, at) ==
    \/ at > base.due + Grace
    \/ at > base.rotationDue
    \/ at > base.drillDue + DrillGrace

Rotation == "credential-key-rotation"
Drill == "dr-failover-exercise"
Health == "operational-health"
Evidence == "evidence-capture"

\* Actions with a lasting effect outside, which the provider performs once for each key.
Effects == {Rotation, Drill}

\* The actions of a cycle are awaited one after the other.  The audit and the retrievals, which
\* only read, go with what follows them, and so do the three actions that keep evidence.
Before ==
    [action \in {Rotation, Drill, Health, Evidence} |->
       CASE action = Rotation -> {}
         [] action = Drill    -> {Rotation}
         [] action = Health   -> {Rotation, Drill}
         [] action = Evidence -> {Rotation, Drill, Health}]

Actions == DOMAIN Before

\* Rotation and drill are part of a cycle when they fall due, or are about to.
ActionsOf(base, at) ==
    {action \in Actions :
       /\ action = Rotation => at >= base.rotationDue - RotationLead
       /\ action = Drill => at >= base.drillDue - DrillLead}

\* What is left to do of an evaluation of base at the given time; nothing unless it is due.
Plan(base, at) ==
    IF Due(base, at) /\ ~Overdue(base, at) THEN ActionsOf(base, at) ELSE {}

\* Every attempt at an action, in whatever evaluation of the cycle, has the same key.
IdempotencyKey(base, at, action) == <<base.due, action>>

-----------------------------------------------------------------------------
(***************************************************************************)
(* An evaluation e has its base and time, the events of the rotation and   *)
(* the drill it took (sets of at most one), and what health reported.      *)
(***************************************************************************)

RotationInOrder(e) ==
    IF e.rotation = {}
    THEN e.observed = e.base.credentials /\ e.completed < e.base.rotationDue
    ELSE \A event \in e.rotation :
           /\ event.previous = e.base.credentials /\ event.new = e.observed
           /\ event.at <= e.base.rotationDue
           /\ e.completed < event.at + RotationCadence

DrillInOrder(e) ==
    IF e.drill = {}
    THEN e.completed <= e.base.drillDue + DrillGrace
    ELSE \A event \in e.drill :
           /\ event.at <= e.base.drillDue + DrillGrace
           /\ e.completed <= event.at + DrillCadence + DrillGrace

\* The steady-state gate over the history with the new cycle.
GatePasses(e) ==
    /\ RotationInOrder(e)
    /\ DrillInOrder(e)
    /\ e.completed <= e.base.due + Cadence + Grace

\* Mutant: the policy keeps the credentials that were rotated away.
NextSnapshotForgetsRotation(e) ==
    [run |-> e.base.due, due |-> e.base.due + Cadence, credentials |-> e.base.credentials,
     rotationDue |-> e.base.rotationDue + (IF e.rotation = {} THEN 0 ELSE RotationCadence),
     drillDue |-> e.base.drillDue + (IF e.drill = {} THEN 0 ELSE DrillCadence)]

\* buildAggregatePayload: the schedule moves on, and what was rotated or exercised with it.
NextSnapshot(e) ==
    [run         |-> e.base.due,
     due         |-> e.base.due + Cadence,
     credentials |-> IF e.rotation = {} THEN e.base.credentials
                     ELSE (CHOOSE event \in e.rotation : TRUE).new,
     rotationDue |-> IF e.rotation = {} THEN e.base.rotationDue
                     ELSE (CHOOSE event \in e.rotation : TRUE).at + RotationCadence,
     drillDue    |-> IF e.drill = {} THEN e.base.drillDue
                     ELSE (CHOOSE event \in e.drill : TRUE).at + DrillCadence]
=============================================================================
