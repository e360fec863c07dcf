SPECIFICATION FairSpec
CONSTANTS
  o1 = o1
  k1 = k1
  c1 = c1
  None = None
  Opens <- OneOpen
  Checks <- OneCheck
  Calls <- OneCall
  Together <- TwoPostsOrACall
  MaxQueue = 2
  MaxCrashes = 1
  Recovers = TRUE
INVARIANT UploadInv
PROPERTY RowsDrain
CHECK_DEADLOCK FALSE
