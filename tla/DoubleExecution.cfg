SPECIFICATION Spec
CONSTANTS
  Coordinators = {c1, c2}
  Requests = {r1}
  Workers = {w1, w2}
  NumSegments = 2
  MaxRetries = 1
  Digests = {"d1"}
  Faults = {}
  Environment = {"recover", "executor-failure"}
  MaxAttempts = 4
  MaxGenerations = 1
  MaxPushes = 0
  NoOwner = NoOwner
CHECK_DEADLOCK FALSE
INVARIANT NeverDoubleExecutes
