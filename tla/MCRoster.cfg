SPECIFICATION FairSpec
CONSTANTS
  p1 = p1
  p2 = p2
  None = None
  Card = Card
  People <- TwoPeople
  Types <- FirstAndLast
  Lengths <- NoneAndTwo
  Shared <- OneShared
  MaxEvents = 2
INVARIANT RosterInv
PROPERTIES KeepersKept RosterFollows
CHECK_DEADLOCK FALSE
