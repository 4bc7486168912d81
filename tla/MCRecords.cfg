SPECIFICATION Spec
CONSTANTS
  s1 = s1
  s2 = s2
  c1 = c1
  a1 = a1
  a2 = a2
  ServerThreads <- TwoServerThreads
  Commands <- OneCommand
  Artifacts <- TwoArtifacts
  NoArtifact = NoArtifact
  MaxOps = 2
  MaxStarts = 1
  MaxDeaths = 1
INVARIANTS
  ChainHolds
  NothingLost
  StoreChainSurvives
  StoredSurvives
  
  BackupComplete
CHECK_DEADLOCK FALSE
SYMMETRY Symmetric
