SPECIFICATION Spec
CONSTANTS
  PacketsPerFrame = 3
  Links <- FourLinks
  MaxFrames = 5
INVARIANT FramesInv
PROPERTY FeedsFrames
CHECK_DEADLOCK FALSE
