SPECIFICATION Spec
CONSTANTS
  Coordinators = {c1, c2}
  Requests = {r1}
  Workers = {w1, w2}
  NumSegments = 2
  MaxRetries = 1
  Digests = {"d1"}
  Faults = {"invalid"}
  Environment = {"cancel", "lease-expiry", "claim-expiry", "heartbeat-loss", "executor-failure", "recover", "crash"}
  MaxAttempts = 3
  MaxGenerations = 1
  MaxPushes = 0
  NoOwner = NoOwner
SYMMETRY Symmetry
CHECK_DEADLOCK FALSE
INVARIANTS LeaseGenerationCurrent TerminalReleasesAll CancellationIsFinal
PROPERTIES  KeepsContract
