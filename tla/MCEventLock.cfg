SPECIFICATION FairSpec
CONSTANTS
  c1 = c1
  Callers <- OneCaller
  Event = Event
  Closer = Closer
  None = None
  MaxChanges = 2
  WriteFails = TRUE
INVARIANT EventLockInv
PROPERTIES TransferReturns ChangeReturns
CHECK_DEADLOCK FALSE
