-------------------------- MODULE DoorLock_proofs --------------------------
(* Machine-checked proofs about DoorLock.                                  *)
EXTENDS DoorLock, TLAPS

LEMMA NewOpeningType ==
  ASSUME NEW first \in BOOLEAN
  PROVE  NewOpening(first) \in [event: Events, siren: BOOLEAN, recorded: BOOLEAN,
                                 first: BOOLEAN]
  BY DEF NewOpening, Events

LEMMA TypeStep ==
  ASSUME TypeOK, [Next]_vars
  PROVE  TypeOK'
<1> USE BoundsAssumption, ConfigAssumption, TimersAssumption DEF TypeOK,
        MainSteps, OpenSteps, USteps, RSteps, Events
<1>1. CASE onGetPassEvent
  BY <1>1 DEF onGetPassEvent, AtRest, AllFree
<1>2. CASE \E value \in Frames : FirstFrame(value)
  <2>1. clean' \in BOOLEAN
    BY <1>2, Zenon DEF FirstFrame
  <2>2. opening' \in [event: Events, siren: BOOLEAN, recorded: BOOLEAN, first: BOOLEAN]
    BY <1>2, NewOpeningType DEF FirstFrame
  <2> QED
    BY <1>2, <2>1, <2>2 DEF FirstFrame
<1>3. CASE OpenFrame
  <2>1. clean' \in BOOLEAN
    BY <1>3, Zenon DEF OpenFrame
  <2>2. opening' \in [event: Events, siren: BOOLEAN, recorded: BOOLEAN, first: BOOLEAN]
    BY <1>3, NewOpeningType DEF OpenFrame
  <2> QED
    BY <1>3, <2>1, <2>2 DEF OpenFrame, Frames
<1>4. CASE CloseFrame
  BY <1>4 DEF CloseFrame, StartCloseTimer, Frames
<1>5. CASE OtherFrame
  BY <1>5 DEF OtherFrame, Frames, threads
<1>6. CASE PassDoNext
  BY <1>6 DEF PassDoNext, Lock_doNext, StartUnlockTimer
<1>7. CASE IsLockup
  BY <1>7 DEF IsLockup
<1>8. CASE IsUnlock
  <2>1. opening' \in [event: Events, siren: BOOLEAN, recorded: BOOLEAN, first: BOOLEAN]
    BY <1>8 DEF IsUnlock
  <2>2. owed' \in BOOLEAN
    BY <1>8 DEF IsUnlock
  <2> QED
    BY <1>8, <2>1, <2>2 DEF IsUnlock
<1>9. CASE OpenDoNext
  <2>1. opening' \in [event: Events, siren: BOOLEAN, recorded: BOOLEAN, first: BOOLEAN]
    BY <1>9 DEF OpenDoNext
  <2>2. alarmTimers' \in Nat
    BY <1>9 DEF OpenDoNext, Lock_doNext
  <2>3. alarm' \in BOOLEAN
    BY <1>9, Zenon DEF OpenDoNext, Lock_doNext
  <2> QED
    BY <1>9, <2>1, <2>2, <2>3 DEF OpenDoNext
<1>10. CASE alarmRecord
  BY <1>10 DEF alarmRecord, MustRecord
<1>11. CASE DisposeTimers
  BY <1>11 DEF DisposeTimers, dispose
<1>12. CASE AlarmTimeout
  <2>1. alarmTimers' \in Nat
    BY <1>12 DEF AlarmTimeout
  <2> QED
    BY <1>12, <2>1 DEF AlarmTimeout, threads
<1>13. CASE OutD9Off
  BY <1>13 DEF OutD9Off, threads
<1>14. CASE LockUpDelivered
  BY <1>14 DEF LockUpDelivered, threads
<1>15. CASE \E t \in UTimers : UFire(t)
  BY <1>15 DEF UFire, CleanFire
<1>16. CASE \E t \in UTimers : ULock(t)
  BY <1>16 DEF ULock
<1>17. CASE \E t \in UTimers : UPost(t)
  BY <1>17 DEF UPost
<1>18. CASE \E t \in RTimers : RFire(t)
  BY <1>18 DEF RFire, CleanFire
<1>19. CASE \E t \in RTimers : RLock(t)
  BY <1>19 DEF RLock
<1>20. CASE \E t \in RTimers : RDoor(t)
  BY <1>20 DEF RDoor, ShutDoor
<1>21. CASE \E t \in RTimers : RDispose(t)
  BY <1>21 DEF RDispose, dispose
<1>22. CASE \E t \in RTimers : RRecord(t)
  BY <1>22 DEF RRecord
<1>23. CASE \E t \in RTimers : RPost(t)
  BY <1>23 DEF RPost
<1>24. CASE UNCHANGED vars
  BY <1>24 DEF vars, threads
<1> QED
  BY <1>1, <1>2, <1>3, <1>4, <1>5, <1>6, <1>7, <1>8, <1>9, <1>10, <1>11, <1>12, <1>13, <1>14, <1>15, <1>16, <1>17, <1>18, <1>19, <1>20, <1>21, <1>22, <1>23, <1>24 DEF Next, InHandler, UBody, RBody

LEMMA ReportsStep ==
  ASSUME TypeOK, Reports, [Next]_vars
  PROVE  Reports'
<1> USE TimersAssumption DEF TypeOK, Reports, MainSteps, OpenSteps, USteps,
        RSteps, Events
<1>1. CASE onGetPassEvent
  BY <1>1 DEF onGetPassEvent, AtRest, AllFree
<1>2. CASE \E value \in Frames : FirstFrame(value)
  BY <1>2 DEF FirstFrame, AllFree, NewOpening, Frames
<1>3. CASE OpenFrame
  BY <1>3 DEF OpenFrame, NoneInFlight, NewOpening, Frames
<1>4. CASE CloseFrame
  BY <1>4 DEF CloseFrame, StartCloseTimer, Frames
<1>5. CASE OtherFrame
  BY <1>5 DEF OtherFrame, Frames, threads
<1>6. CASE PassDoNext
  BY <1>6 DEF PassDoNext, Lock_doNext, StartUnlockTimer
<1>7. CASE IsLockup
  BY <1>7 DEF IsLockup
<1>8. CASE IsUnlock
  BY <1>8 DEF IsUnlock
<1>9. CASE OpenDoNext
  BY <1>9 DEF OpenDoNext, Lock_doNext
<1>10. CASE alarmRecord
  BY <1>10 DEF alarmRecord, MustRecord
<1>11. CASE DisposeTimers
  BY <1>11 DEF DisposeTimers, dispose
<1>12. CASE AlarmTimeout
  BY <1>12 DEF AlarmTimeout, threads
<1>13. CASE OutD9Off
  BY <1>13 DEF OutD9Off, threads
<1>14. CASE LockUpDelivered
  BY <1>14 DEF LockUpDelivered, threads
<1>15. CASE \E t \in UTimers : UFire(t)
  BY <1>15 DEF UFire, CleanFire
<1>16. CASE \E t \in UTimers : ULock(t)
  BY <1>16 DEF ULock
<1>17. CASE \E t \in UTimers : UPost(t)
  BY <1>17 DEF UPost
<1>18. CASE \E t \in RTimers : RFire(t)
  BY <1>18 DEF RFire, CleanFire
<1>19. CASE \E t \in RTimers : RLock(t)
  BY <1>19 DEF RLock
<1>20. CASE \E t \in RTimers : RDoor(t)
  BY <1>20 DEF RDoor, ShutDoor
<1>21. CASE \E t \in RTimers : RDispose(t)
  BY <1>21 DEF RDispose, dispose
<1>22. CASE \E t \in RTimers : RRecord(t)
  BY <1>22 DEF RRecord
<1>23. CASE \E t \in RTimers : RPost(t)
  BY <1>23 DEF RPost
<1>24. CASE UNCHANGED vars
  BY <1>24 DEF vars, threads
<1> QED
  BY <1>1, <1>2, <1>3, <1>4, <1>5, <1>6, <1>7, <1>8, <1>9, <1>10, <1>11, <1>12, <1>13, <1>14, <1>15, <1>16, <1>17, <1>18, <1>19, <1>20, <1>21, <1>22, <1>23, <1>24 DEF Next, InHandler, UBody, RBody

LEMMA ContactStep ==
  ASSUME TypeOK, Contact, [Next]_vars
  PROVE  Contact'
<1> USE TimersAssumption DEF TypeOK, Contact, MainSteps, OpenSteps, USteps,
        RSteps, Events
<1>1. CASE onGetPassEvent
  BY <1>1 DEF onGetPassEvent, AtRest, AllFree
<1>2. CASE \E value \in Frames : FirstFrame(value)
  BY <1>2 DEF FirstFrame, AllFree, NewOpening, Frames
<1>3. CASE OpenFrame
  BY <1>3 DEF OpenFrame, NoneInFlight, NewOpening, Frames
<1>4. CASE CloseFrame
  BY <1>4 DEF CloseFrame, StartCloseTimer, Frames
<1>5. CASE OtherFrame
  BY <1>5 DEF OtherFrame, Frames, threads
<1>6. CASE PassDoNext
  BY <1>6 DEF PassDoNext, Lock_doNext, StartUnlockTimer
<1>7. CASE IsLockup
  BY <1>7 DEF IsLockup
<1>8. CASE IsUnlock
  BY <1>8 DEF IsUnlock
<1>9. CASE OpenDoNext
  BY <1>9 DEF OpenDoNext, Lock_doNext
<1>10. CASE alarmRecord
  BY <1>10 DEF alarmRecord, MustRecord
<1>11. CASE DisposeTimers
  BY <1>11 DEF DisposeTimers, dispose
<1>12. CASE AlarmTimeout
  BY <1>12 DEF AlarmTimeout, threads
<1>13. CASE OutD9Off
  BY <1>13 DEF OutD9Off, threads
<1>14. CASE LockUpDelivered
  BY <1>14 DEF LockUpDelivered, threads
<1>15. CASE \E t \in UTimers : UFire(t)
  BY <1>15 DEF UFire, CleanFire
<1>16. CASE \E t \in UTimers : ULock(t)
  BY <1>16 DEF ULock
<1>17. CASE \E t \in UTimers : UPost(t)
  BY <1>17 DEF UPost
<1>18. CASE \E t \in RTimers : RFire(t)
  BY <1>18 DEF RFire, CleanFire
<1>19. CASE \E t \in RTimers : RLock(t)
  BY <1>19 DEF RLock
<1>20. CASE \E t \in RTimers : RDoor(t)
  BY <1>20 DEF RDoor, ShutDoor
<1>21. CASE \E t \in RTimers : RDispose(t)
  BY <1>21 DEF RDispose, dispose
<1>22. CASE \E t \in RTimers : RRecord(t)
  BY <1>22 DEF RRecord
<1>23. CASE \E t \in RTimers : RPost(t)
  BY <1>23 DEF RPost
<1>24. CASE UNCHANGED vars
  BY <1>24 DEF vars, threads
<1> QED
  BY <1>1, <1>2, <1>3, <1>4, <1>5, <1>6, <1>7, <1>8, <1>9, <1>10, <1>11, <1>12, <1>13, <1>14, <1>15, <1>16, <1>17, <1>18, <1>19, <1>20, <1>21, <1>22, <1>23, <1>24 DEF Next, InHandler, UBody, RBody

LEMMA WatchedStep ==
  ASSUME TypeOK, Contact, OpenStateWatched, [Next]_vars
  PROVE  OpenStateWatched'
<1> USE TimersAssumption DEF TypeOK, Contact, OpenStateWatched, MainSteps,
        OpenSteps, USteps, RSteps, Events
<1>1. CASE onGetPassEvent
  BY <1>1 DEF onGetPassEvent, AtRest, AllFree
<1>2. CASE \E value \in Frames : FirstFrame(value)
  BY <1>2 DEF FirstFrame, AllFree, NewOpening, Frames
<1>3. CASE OpenFrame
  BY <1>3 DEF OpenFrame, NoneInFlight, NewOpening, Frames
<1>4. CASE CloseFrame
  BY <1>4 DEF CloseFrame, StartCloseTimer, Frames
<1>5. CASE OtherFrame
  BY <1>5 DEF OtherFrame, Frames, threads
<1>6. CASE PassDoNext
  BY <1>6 DEF PassDoNext, Lock_doNext, StartUnlockTimer
<1>7. CASE IsLockup
  BY <1>7 DEF IsLockup
<1>8. CASE IsUnlock
  BY <1>8 DEF IsUnlock
<1>9. CASE OpenDoNext
  BY <1>9 DEF OpenDoNext, Lock_doNext
<1>10. CASE alarmRecord
  BY <1>10 DEF alarmRecord, MustRecord
<1>11. CASE DisposeTimers
  BY <1>11 DEF DisposeTimers, dispose
<1>12. CASE AlarmTimeout
  BY <1>12 DEF AlarmTimeout, threads
<1>13. CASE OutD9Off
  BY <1>13 DEF OutD9Off, threads
<1>14. CASE LockUpDelivered
  BY <1>14 DEF LockUpDelivered, threads
<1>15. CASE \E t \in UTimers : UFire(t)
  BY <1>15 DEF UFire, CleanFire
<1>16. CASE \E t \in UTimers : ULock(t)
  BY <1>16 DEF ULock
<1>17. CASE \E t \in UTimers : UPost(t)
  BY <1>17 DEF UPost
<1>18. CASE \E t \in RTimers : RFire(t)
  BY <1>18 DEF RFire, CleanFire
<1>19. CASE \E t \in RTimers : RLock(t)
  BY <1>19 DEF RLock
<1>20. CASE \E t \in RTimers : RDoor(t)
  BY <1>20 DEF RDoor, ShutDoor
<1>21. CASE \E t \in RTimers : RDispose(t)
  BY <1>21 DEF RDispose, dispose
<1>22. CASE \E t \in RTimers : RRecord(t)
  BY <1>22 DEF RRecord
<1>23. CASE \E t \in RTimers : RPost(t)
  BY <1>23 DEF RPost
<1>24. CASE UNCHANGED vars
  BY <1>24 DEF vars, threads
<1> QED
  BY <1>1, <1>2, <1>3, <1>4, <1>5, <1>6, <1>7, <1>8, <1>9, <1>10, <1>11, <1>12, <1>13, <1>14, <1>15, <1>16, <1>17, <1>18, <1>19, <1>20, <1>21, <1>22, <1>23, <1>24 DEF Next, InHandler, UBody, RBody

LEMMA ShapeStep ==
  ASSUME TypeOK, Contact, CleanShape, CleanReports, [Next]_vars
  PROVE  CleanShape'
<1> USE TimersAssumption DEF TypeOK, Contact, CleanShape, ShapeFree, ShapeU,
        ShapeR, OnlyU, OnlyR, AllFree, MainSteps, OpenSteps, USteps, RSteps,
        Events
<1>1. CASE onGetPassEvent
  BY <1>1 DEF onGetPassEvent, AtRest, AllFree
<1>2. CASE \E value \in Frames : FirstFrame(value)
  BY <1>2 DEF FirstFrame, AllFree, NewOpening, Frames
<1>3. CASE OpenFrame
  BY <1>3 DEF OpenFrame, NoneInFlight, NewOpening, Frames
<1>4. CASE CloseFrame
  BY <1>4 DEF CloseFrame, StartCloseTimer, Frames
<1>5. CASE OtherFrame
  BY <1>5 DEF OtherFrame, Frames, threads
<1>6. CASE PassDoNext
  BY <1>6 DEF PassDoNext, Lock_doNext, StartUnlockTimer
<1>7. CASE IsLockup
  BY <1>7 DEF IsLockup
<1>8. CASE IsUnlock
  BY <1>8 DEF IsUnlock
<1>9. CASE OpenDoNext
  BY <1>9 DEF OpenDoNext, Lock_doNext
<1>10. CASE alarmRecord
  BY <1>10 DEF alarmRecord, CleanReports
<1>11. CASE DisposeTimers
  BY <1>11 DEF DisposeTimers, dispose
<1>12. CASE AlarmTimeout
  BY <1>12 DEF AlarmTimeout, threads
<1>13. CASE OutD9Off
  BY <1>13 DEF OutD9Off, threads
<1>14. CASE LockUpDelivered
  BY <1>14 DEF LockUpDelivered, threads
<1>15. CASE \E t \in UTimers : UFire(t)
  <2> SUFFICES ASSUME clean' PROVE CleanShape'
    BY DEF CleanShape
  <2>1. PICK t \in UTimers : UFire(t)
    BY <1>15
  <2>2. clean /\ main \notin OpenSteps
    BY <2>1 DEF UFire, CleanFire
  <2>3. ShapeU(t)
    BY <2>1, <2>2 DEF UFire
  <2>4. ShapeU(t)'
    BY <2>1, <2>2, <2>3 DEF UFire
  <2> QED
    BY <2>4
<1>16. CASE \E t \in UTimers : ULock(t)
  BY <1>16 DEF ULock
<1>17. CASE \E t \in UTimers : UPost(t)
  BY <1>17 DEF UPost
<1>18. CASE \E t \in RTimers : RFire(t)
  <2> SUFFICES ASSUME clean' PROVE CleanShape'
    BY DEF CleanShape
  <2>1. PICK t \in RTimers : RFire(t)
    BY <1>18
  <2>2. clean /\ main \notin OpenSteps
    BY <2>1 DEF RFire, CleanFire
  <2>3. ShapeR(t)
    BY <2>1, <2>2 DEF RFire
  <2>4. ShapeR(t)'
    BY <2>1, <2>2, <2>3 DEF RFire
  <2> QED
    BY <2>4
<1>19. CASE \E t \in RTimers : RLock(t)
  BY <1>19 DEF RLock
<1>20. CASE \E t \in RTimers : RDoor(t)
  BY <1>20 DEF RDoor, ShutDoor
<1>21. CASE \E t \in RTimers : RDispose(t)
  <2> SUFFICES ASSUME clean' PROVE CleanShape'
    BY DEF CleanShape
  <2>1. PICK t \in RTimers : RDispose(t)
    BY <1>21
  <2>2. ShapeR(t)
    BY <2>1 DEF RDispose
  <2>3. utimer' = utimer
    BY <2>1, <2>2 DEF RDispose, dispose
  <2>4. ShapeR(t)'
    BY <2>1, <2>2, <2>3 DEF RDispose
  <2> QED
    BY <2>4
<1>22. CASE \E t \in RTimers : RRecord(t)
  BY <1>22 DEF RRecord
<1>23. CASE \E t \in RTimers : RPost(t)
  BY <1>23 DEF RPost
<1>24. CASE UNCHANGED vars
  BY <1>24 DEF vars, threads
<1> QED
  BY <1>1, <1>2, <1>3, <1>4, <1>5, <1>6, <1>7, <1>8, <1>9, <1>10, <1>11, <1>12, <1>13, <1>14, <1>15, <1>16, <1>17, <1>18, <1>19, <1>20, <1>21, <1>22, <1>23, <1>24 DEF Next, InHandler, UBody, RBody

LEMMA CleanReportsStep ==
  ASSUME TypeOK, Reports, Contact, CleanShape, CleanReports, [Next]_vars
  PROVE  CleanReports'
<1> USE TimersAssumption DEF TypeOK, Reports, Contact, CleanShape,
        CleanReports, ShapeFree, ShapeU, ShapeR, OnlyU, OnlyR, AllFree, Legal,
        Illegal, MainSteps, OpenSteps, USteps, RSteps, Events
<1>1. CASE onGetPassEvent
  BY <1>1 DEF onGetPassEvent, AtRest, AllFree
<1>2. CASE \E value \in Frames : FirstFrame(value)
  <2>1. PICK value \in Frames : FirstFrame(value)
    BY <1>2
  <2>2. CASE value = "open"
    <3>1. clean' => clean /\ AllFree /\ lastValue = None /\ main = "idle"
      BY <2>1, <2>2 DEF FirstFrame
    <3>2. clean' => lock = "Lockup"
      BY <3>1
    <3>3. main' = "isLockup" /\ lock' = lock /\ ~opening'.recorded
      BY <2>1, <2>2 DEF FirstFrame, NewOpening
    <3> QED
      BY <3>2, <3>3
  <2>3. CASE value # "open"
    <3>1. door' = "Close"
      BY <2>1, <2>3 DEF FirstFrame
    <3> QED
      BY <3>1
  <2> QED
    BY <2>2, <2>3
<1>3. CASE OpenFrame
  BY <1>3 DEF OpenFrame, NoneInFlight, NewOpening, Frames
<1>4. CASE CloseFrame
  BY <1>4 DEF CloseFrame, StartCloseTimer, Frames
<1>5. CASE OtherFrame
  BY <1>5 DEF OtherFrame, Frames, threads
<1>6. CASE PassDoNext
  BY <1>6 DEF PassDoNext, Lock_doNext, StartUnlockTimer
<1>7. CASE IsLockup
  BY <1>7 DEF IsLockup
<1>8. CASE IsUnlock
  BY <1>8 DEF IsUnlock
<1>9. CASE OpenDoNext
  BY <1>9 DEF OpenDoNext, Lock_doNext
<1>10. CASE alarmRecord
  BY <1>10 DEF alarmRecord, MustRecord
<1>11. CASE DisposeTimers
  BY <1>11 DEF DisposeTimers, dispose
<1>12. CASE AlarmTimeout
  BY <1>12 DEF AlarmTimeout, threads
<1>13. CASE OutD9Off
  BY <1>13 DEF OutD9Off, threads
<1>14. CASE LockUpDelivered
  BY <1>14 DEF LockUpDelivered, threads
<1>15. CASE \E t \in UTimers : UFire(t)
  BY <1>15 DEF UFire, CleanFire
<1>16. CASE \E t \in UTimers : ULock(t)
  BY <1>16 DEF ULock
<1>17. CASE \E t \in UTimers : UPost(t)
  BY <1>17 DEF UPost
<1>18. CASE \E t \in RTimers : RFire(t)
  BY <1>18 DEF RFire, CleanFire
<1>19. CASE \E t \in RTimers : RLock(t)
  BY <1>19 DEF RLock
<1>20. CASE \E t \in RTimers : RDoor(t)
  BY <1>20 DEF RDoor, ShutDoor
<1>21. CASE \E t \in RTimers : RDispose(t)
  BY <1>21 DEF RDispose, dispose
<1>22. CASE \E t \in RTimers : RRecord(t)
  BY <1>22 DEF RRecord
<1>23. CASE \E t \in RTimers : RPost(t)
  BY <1>23 DEF RPost
<1>24. CASE UNCHANGED vars
  BY <1>24 DEF vars, threads
<1> QED
  BY <1>1, <1>2, <1>3, <1>4, <1>5, <1>6, <1>7, <1>8, <1>9, <1>10, <1>11, <1>12, <1>13, <1>14, <1>15, <1>16, <1>17, <1>18, <1>19, <1>20, <1>21, <1>22, <1>23, <1>24 DEF Next, InHandler, UBody, RBody

LEMMA InitInv == Init => IInv
<1> SUFFICES ASSUME Init PROVE IInv
  OBVIOUS
<1> USE TimersAssumption, BoundsAssumption DEF Init
<1>1. NewOpening(FALSE) \in [event: Events, siren: BOOLEAN, recorded: BOOLEAN,
                             first: BOOLEAN]
  BY NewOpeningType
<1>2. TypeOK
  <2>1. utimer \in [UTimers -> USteps] /\ rtimer \in [RTimers -> RSteps]
    BY DEF USteps, RSteps
  <2>2. lockUps \in 0..MaxLockUps /\ alarmTimers \in Nat
    OBVIOUS
  <2> QED
    BY <1>1, <2>1, <2>2 DEF TypeOK, Frames, MainSteps
<1>3. Reports /\ Contact
  BY DEF Reports, Contact, NewOpening, OpenSteps
<1>4. OpenStateWatched
  BY DEF OpenStateWatched
<1>5. CleanShape
  BY DEF CleanShape, ShapeFree, AllFree
<1>6. CleanReports
  BY DEF CleanReports
<1> QED
  BY <1>2, <1>3, <1>4, <1>5, <1>6 DEF IInv

\* In every execution the whole inductive invariant holds: types, the progress of
\* a report, the contact, and the shape of a clean pass.
THEOREM Invariance == Spec => []IInv
<1>1. Init => IInv
  BY InitInv
<1>2. IInv /\ [Next]_vars => IInv'
  BY TypeStep, ReportsStep, ContactStep, WatchedStep, ShapeStep,
     CleanReportsStep DEF IInv
<1> QED
  BY <1>1, <1>2, PTL DEF Spec

\* Every variable keeps its type, for any number of timers and any bounds.
THEOREM TypeCorrect == Spec => []TypeOK
<1>1. IInv => TypeOK
  BY DEF IInv
<1> QED
  BY <1>1, Invariance, PTL

\* Illegal openings sound the siren and are recorded; a siren is always recorded.
THEOREM OpeningsReported == Spec => []OpeningReported
<1>1. IInv => OpeningReported
  BY DEF IInv, Reports, OpeningReported
<1> QED
  BY <1>1, Invariance, PTL

\* After a clean pass the three reports of an opening agree.
THEOREM OpeningsAgree == Spec => []OpeningAgrees
<1>1. ASSUME IInv PROVE OpeningAgrees
  <2>1. CleanShape /\ CleanReports /\ TypeOK
    BY <1>1 DEF IInv
  <2>2. main = "idle" /\ clean /\ lastValue = "open" => door = "Open"
    BY <2>1, TimersAssumption
       DEF CleanShape, ShapeFree, ShapeU, ShapeR, TypeOK, OpenSteps
  <2> QED
    BY <2>1, <2>2 DEF CleanReports, OpeningAgrees, Legal, Illegal
<1> QED
  BY <1>1, Invariance, PTL

\* After a clean pass an unlocked, shut door always has a relock on its way.
THEOREM UnlocksWatched == Spec => []UnlockWatched
<1>1. IInv => UnlockWatched
  BY DEF IInv, CleanShape, ShapeFree, ShapeU, ShapeR, UnlockWatched
<1> QED
  BY <1>1, Invariance, PTL

\* After a clean pass no armed timer is one the service has forgotten.
THEOREM NoTimerForgotten == Spec => []NoForgottenTimer
<1>1. ASSUME IInv PROVE NoForgottenTimer
  <2>1. CleanShape
    BY <1>1 DEF IInv
  <2> SUFFICES ASSUME clean PROVE NoForgottenTimer
    BY DEF NoForgottenTimer
  <2>2. CASE ShapeFree
    BY <2>2 DEF ShapeFree, AllFree, NoForgottenTimer
  <2>3. CASE \E t \in UTimers : ShapeU(t)
    BY <2>3 DEF ShapeU, OnlyU, NoForgottenTimer
  <2>4. CASE \E t \in RTimers : ShapeR(t)
    BY <2>4 DEF ShapeR, OnlyR, NoForgottenTimer
  <2> QED
    BY <2>1, <2>2, <2>3, <2>4 DEF CleanShape
<1> QED
  BY <1>1, Invariance, PTL

\* After a clean pass a legal opening that is shut again gets its close record.
THEOREM CloseRecordsOwed == Spec => []CloseRecordOwed
<1>1. IInv => CloseRecordOwed
  BY DEF IInv, CleanShape, ShapeFree, ShapeU, ShapeR, CloseRecordOwed, OpenSteps
<1> QED
  BY <1>1, Invariance, PTL

\* In every execution a stale "door open" has its correction on the way.
THEOREM OpenStatesWatched == Spec => []OpenStateWatched
<1>1. IInv => OpenStateWatched
  BY DEF IInv
<1> QED
  BY <1>1, Invariance, PTL

\* After a clean pass Door never says shut while the contact says open.
THEOREM DoorFollows == Spec => []DoorFollowsContact
<1>1. IInv => DoorFollowsContact
  BY TimersAssumption
     DEF IInv, CleanShape, ShapeFree, ShapeU, ShapeR, DoorFollowsContact, OpenSteps
<1> QED
  BY <1>1, Invariance, PTL

\* After a clean pass the lock never closes under an open door.
THEOREM RelocksShut == Spec => RelockShut
<1>1. ASSUME IInv, [Next]_vars
      PROVE  clean /\ lock = "Unlock" /\ lock' = "Lockup" => lastValue # "open"
  <2> SUFFICES ASSUME clean, lock = "Unlock", lock' = "Lockup"
               PROVE  lastValue # "open"
    OBVIOUS
  <2>1. \/ \E t \in UTimers : utimer[t] = "fired"
        \/ \E t \in RTimers : rtimer[t] = "fired"
    BY <1>1 DEF Next, InHandler, UBody, RBody, vars, threads, onGetPassEvent,
       FirstFrame, OpenFrame, CloseFrame, OtherFrame, PassDoNext, IsLockup, IsUnlock,
       OpenDoNext, alarmRecord, DisposeTimers, AlarmTimeout, OutD9Off,
       LockUpDelivered, UFire, ULock, UPost, RFire, RLock, RDoor, RDispose, RRecord,
       RPost
  <2> QED
    BY <1>1, <2>1, TimersAssumption
       DEF IInv, CleanShape, ShapeFree, ShapeU, ShapeR, OnlyU, OnlyR, AllFree
<1> QED
  BY <1>1, Invariance, PTL DEF Spec, RelockShut
=============================================================================
