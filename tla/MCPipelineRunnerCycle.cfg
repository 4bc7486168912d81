SPECIFICATION Spec
CONSTANTS
  N = 3
  Cases <- Wired
  MaxPauses = 3
INVARIANT CycleIsReal
CHECK_DEADLOCK FALSE
