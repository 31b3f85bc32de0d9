SPECIFICATION FairSpec
CONSTANTS
  Coordinators = {c1, c2, c3}
  Requests = {r1}
  Workers = {w1}
  NumSegments = 2
  MaxRetries = 1
  Digests = {"d1"}
  Faults = {}
  Environment = {"recover", "crash", "lease-expiry", "executor-failure", "cancel"}
  MaxAttempts = 4
  MaxGenerations = 1
  MaxPushes = 0
  NoOwner = NoOwner
CHECK_DEADLOCK FALSE
INVARIANT RecoveryExclusive
PROPERTY CancellationAcknowledged
