SPECIFICATION Spec
CONSTANTS
  u1 = u1
  r1 = r1
  anna = anna
  pavel = pavel
  t1 = t1
  p1 = p1
  None = None
  UTimers <- MCOneUTimer
  RTimers <- MCRTimers
  MaxAlarmTimers = 1
  MaxLockUps = 1
  OtherFrames = FALSE
  DisAlarm = FALSE
  Wardens <- MCOneWarden
  Patrols <- MCPatrols
  Inspectors <- MCNobody
  CheckTimers <- MCTimers
  Posts <- MCPosts
  MaxMatches = 1
  MaxPics = 0
  XungengCanOpen = TRUE
INVARIANTS
  InstrumentInv
  UnlockedByTwo
PROPERTIES
  SettledGrantIsClean
  OpeningsRecorded
