SPECIFICATION Spec
CONSTANTS
  Coordinators = {c1}
  Requests = {r1}
  Workers = {w1}
  NumSegments = 2
  MaxRetries = 1
  Digests = {"d1", "d2"}
  Faults = {"envelope", "foreign", "missing", "malformed", "invalid", "stale"}
  Environment = {"cancel", "caller-abort", "deadline", "lease-expiry", "checkpoint-expiry", "heartbeat-loss", "reconnect", "remove", "push", "executor-failure"}
  MaxAttempts = 3
  MaxGenerations = 2
  MaxPushes = 1
  NoOwner = NoOwner
CHECK_DEADLOCK FALSE
INVARIANTS TypeOK CompletionCommitted CheckpointLineage
