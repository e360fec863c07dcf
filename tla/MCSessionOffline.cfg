SPECIFICATION Spec
CONSTANTS
  anna = anna
  boris = boris
  pavel = pavel
  irina = irina
  t1 = t1
  t2 = t2
  p1 = p1
  None = None
  Wardens <- MCWardens
  Patrols <- MCNobody
  Inspectors <- MCNobody
  CheckTimers <- MCOneTimer
  Posts <- MCOnePost
  MaxMatches = 1
  MaxPics = 0
  XungengCanOpen = FALSE
INVARIANT OfflineDataSaved
