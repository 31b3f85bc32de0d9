SPECIFICATION FairSystemSpec
CONSTANTS
    Calls = {c1, c2, c3}
    MaxQueue = 1
    Cooperative = TRUE
    NoRun = NoRun
INVARIANTS PendingIsHeld OneWorker WorkerServesSlot
PROPERTIES CancelStopsWorker TimersSuffice ImplementsContract
CHECK_DEADLOCK FALSE
