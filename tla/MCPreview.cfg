SPECIFICATION PreviewFairSpec
CONSTANTS
  MaxFrame = 1
  PoolSize = 1
  Callbacks = {cb}
  None = None
  Mjpeg = TRUE
  CanFail = TRUE
  MaxSeq = 2
  MaxStarts = 2
  MaxAlive = 1
INVARIANTS PipelineInv StoppedIsQuiet
PROPERTY CallbackServed
CHECK_DEADLOCK FALSE
