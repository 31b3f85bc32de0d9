SPECIFICATION FairSpec
CONSTANTS
  Coordinators = {c1, c2}
  Requests = {r1}
  Workers = {w1, w2}
  NumSegments = 3
  MaxRetries = 1
  Digests = {"d1"}
  Faults = {}
  Environment = {"lease-expiry", "claim-expiry", "checkpoint-expiry", "executor-failure", "failover", "crash"}
  MaxAttempts = 6
  MaxGenerations = 1
  MaxPushes = 0
  NoOwner = NoOwner
CHECK_DEADLOCK FALSE
INVARIANTS FailuresWithinBudget CrashRepeatsOneSegment
PROPERTIES CursorMonotone EventuallyTerminal
