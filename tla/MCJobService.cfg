SPECIFICATION Spec
CONSTANTS
  w1 = w1
  w2 = w2
  h1 = h1
  h2 = h2
  Workers <- OneWorker
  Handlers <- TwoHandlers
  Jobs <- OneJob
  AsyncModes <- AsyncAndSync
  MaxGates = 2
  MaxRetries = 1
  MaxCrashes = 1
  MaxFaults = 1
SYMMETRY Threads
INVARIANTS
  NoGateSkipped
  RetryBounded
  PausedCanBeDecided
CHECK_DEADLOCK FALSE
