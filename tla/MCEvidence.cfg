SPECIFICATION Spec
CONSTANTS
  r1 = r1
  r2 = r2
  Runs <- TwoRuns
  Cases <- AllCases
  Absent = Absent
  Torn = Torn
  MerkleDepth = 3
  BatchSize = 2
  MaxInclusions = 4
  MaxChanges = 1
  MaxRotations = 1
  MaxFailures = 1
  MaxDeaths = 1
INVARIANTS
  RedactionExact
  FreshVerifies
  
  WitnessesSatisfy
CHECK_DEADLOCK FALSE
