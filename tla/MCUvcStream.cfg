SPECIFICATION FairSpec
CONSTANTS
  NumTransfers = 4
  CanUnplug = TRUE
  StartFails = TRUE
INVARIANT StreamInv
PROPERTIES StopReturns CallerEnds
CHECK_DEADLOCK FALSE
