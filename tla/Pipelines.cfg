SPECIFICATION PartsSpec
CONSTANTS
    w1 = w1
    w2 = w2
    w3 = w3
    r1 = r1
    r2 = r2
    Workers = {w1, w2, w3}
    Requests = {r1, r2}
    NoWorker = NoWorker
    NumSegments = 3
    MaxRetries = 1
    MaxChanges = 2
    Tier <- MCTier
    Vram <- MCVram
    Id <- MCId
    Size <- MCSize
    NoRoute = NoRoute
    RequestIds = {q1}
    WorkerIds = {p1}
    LeaseIds = {r1, r2}
    Handles = {x1, x2}
    MaxGenerations = 2
    None = None
SYMMETRY PartsSymmetry
CHECK_DEADLOCK FALSE
INVARIANTS RouteComplete ResumesAtCheckpoint BusyIsServed WorkerNotShared
PROPERTIES ImplementsRepository
