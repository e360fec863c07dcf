SPECIFICATION FairSpec
CONSTANTS
  u1 = u1
  u2 = u2
  r1 = r1
  None = None
  UTimers <- MCUTimers
  RTimers <- MCOneRTimer
  MaxAlarmTimers = 1
  MaxLockUps = 1
  OtherFrames = TRUE
  DisAlarm = TRUE
INVARIANTS
  TypeOK
  OpeningReported
  OpeningAgrees
  UnlockWatched
  NoForgottenTimer
  CloseRecordOwed
  OpenStateWatched
  DoorFollowsContact
PROPERTIES
 RelockShut
 ComesToRest
