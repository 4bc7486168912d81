SPECIFICATION Spec
CONSTANTS
  w1 = w1
  w2 = w2
  h1 = h1
  h2 = h2
  Workers <- OneWorker
  Handlers <- TwoHandlers
  Jobs <- OneJob
  AsyncModes <- AsyncOnly
  MaxGates = 1
  MaxRetries = 0
  MaxCrashes = 0
  MaxFaults = 0
INVARIANT RejectionStands
CHECK_DEADLOCK FALSE
