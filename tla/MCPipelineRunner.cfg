SPECIFICATION FairSpec
CONSTANTS
  N = 3
  Cases <- AllCases
  MaxPauses = 3
INVARIANTS
  GatesHold
  FollowsRoutes
  NothingForgotten
  TreeRunsOnce
  
PROPERTY
  CallReturns
CHECK_DEADLOCK FALSE
