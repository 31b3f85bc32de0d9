SPECIFICATION Spec
CONSTANTS
    None = None
    Triggers = {1, 2}
    Cadence = 1
    Grace = 1
    RotationCadence = 2
    RotationLead = 1
    DrillCadence = 3
    DrillGrace = 1
    DrillLead = 1
    Lease = 2
    MaxTime = 3
    MaxReplays = 1
    MaxSeeds = 2
    MaxCrashes = 1
INVARIANTS ScopeRecoverable RotationKept
PROPERTIES ImplementsContract
CHECK_DEADLOCK FALSE
