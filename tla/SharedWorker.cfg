SPECIFICATION Spec
CONSTANTS
  Coordinators = {c1}
  Requests = {r1, r2}
  Workers = {w1}
  NumSegments = 2
  MaxRetries = 1
  Digests = {"d1"}
  Faults = {"malformed"}
  Environment = {"cancel", "lease-expiry", "reconnect", "push", "executor-failure"}
  MaxAttempts = 3
  MaxGenerations = 2
  MaxPushes = 1
  NoOwner = NoOwner
CHECK_DEADLOCK FALSE
INVARIANTS WorkerExclusive
