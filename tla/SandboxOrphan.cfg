SPECIFICATION FairSpec
CONSTANTS
    Calls = {c1, c2}
    MaxQueue = 1
    Cooperative = TRUE
    NoRun = NoRun
PROPERTIES EveryCallSettles
CHECK_DEADLOCK FALSE
