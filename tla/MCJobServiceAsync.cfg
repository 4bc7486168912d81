SPECIFICATION FairSpec
CONSTANTS
  w1 = w1
  w2 = w2
  h1 = h1
  h2 = h2
  Workers <- TwoWorkers
  Handlers <- OneHandler
  Jobs <- TwoJobs
  AsyncModes <- AsyncOnly
  MaxGates = 1
  MaxRetries = 1
  MaxCrashes = 0
  MaxFaults = 0
INVARIANTS
  ExclusiveExecution
PROPERTIES
  ImplementsLifecycle
  QueuedIsServed
  RunningSettles
CHECK_DEADLOCK FALSE
