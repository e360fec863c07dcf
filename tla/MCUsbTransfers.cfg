SPECIFICATION UsbFairSpec
CONSTANTS
  t1 = t1
  t2 = t2
  Transfers <- TwoTransfers
  NumUrbs = 2
  CanUnplug = TRUE
  NULL = NULL
INVARIANT UrbsInv
PROPERTY CallsOnce
CHECK_DEADLOCK FALSE
