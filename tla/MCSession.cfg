SPECIFICATION FairSpec
CONSTANTS
  anna = anna
  boris = boris
  pavel = pavel
  irina = irina
  t1 = t1
  t2 = t2
  p1 = p1
  None = None
  Wardens <- MCWardens
  Patrols <- MCPatrols
  Inspectors <- MCInspectors
  CheckTimers <- MCTimers
  Posts <- MCOnePost
  MaxMatches = 1
  MaxPics = 1
  XungengCanOpen = TRUE
INVARIANTS
  TypeOK
  NotStuck
  TwoMeansUnlocked
PROPERTIES
  GrantedOnce
  OpeningRecorded
  QuietCopyKept
  OperationEnds
