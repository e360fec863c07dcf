SPECIFICATION FairSpec
CONSTANTS
  u1 = u1
  r1 = r1
  anna = anna
  pavel = pavel
  t1 = t1
  p1 = p1
  None = None
  UTimers <- MCOneUTimer
  RTimers <- MCRTimers
  MaxAlarmTimers = 1
  MaxLockUps = 1
  OtherFrames = FALSE
  DisAlarm = FALSE
  Wardens <- MCNobody
  Patrols <- MCPatrols
  Inspectors <- MCNobody
  CheckTimers <- MCNobody
  Posts <- MCPosts
  MaxMatches = 1
  MaxPics = 1
  XungengCanOpen = FALSE
PROPERTY GrantEnds
