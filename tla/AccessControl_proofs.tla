------------------------ MODULE AccessControl_proofs ------------------------
(***************************************************************************)
(* Machine-checked proofs about AccessControl, for any people, timers,     *)
(* posts and bounds.  The lemmas about one side follow those of DoorLock's *)
(* and Session's own proofs: tlapm does not see the theorems of a module   *)
(* through its INSTANCE.                                                   *)
(***************************************************************************)
EXTENDS AccessControl, TLAPS

(* What a step of the whole is for each side.                              *)
DoorStep == D!Next \/ DoorRestarts \/ UNCHANGED doorVars
SessionStep == S!Next \/ (UNCHANGED sessionVars /\ copy' \in {"none", copy})

-----------------------------------------------------------------------------
(* The door.                                                               *)

LEMMA NewOpeningType ==
  ASSUME NEW first \in BOOLEAN
  PROVE  D!NewOpening(first) \in [event: D!Events, siren: BOOLEAN, recorded: BOOLEAN,
                                 first: BOOLEAN]
  BY DEF D!NewOpening, D!Events

LEMMA DoorTypeStep ==
  ASSUME D!TypeOK, DoorStep
  PROVE  D!TypeOK'
<1> USE AccessControlAssumption DEF D!BoundsAssumption, D!ConfigAssumption,
        D!TimersAssumption, D!TypeOK,
        D!MainSteps, D!OpenSteps, D!USteps, D!RSteps, D!Events
<1>1. CASE D!onGetPassEvent
  BY <1>1 DEF D!onGetPassEvent, D!AtRest, D!AllFree
<1>2. CASE \E value \in D!Frames : D!FirstFrame(value)
  <2>1. clean' \in BOOLEAN
    BY <1>2, Zenon DEF D!FirstFrame
  <2>2. opening' \in [event: D!Events, siren: BOOLEAN, recorded: BOOLEAN, first: BOOLEAN]
    BY <1>2, NewOpeningType DEF D!FirstFrame
  <2> QED
    BY <1>2, <2>1, <2>2 DEF D!FirstFrame
<1>3. CASE D!OpenFrame
  <2>1. clean' \in BOOLEAN
    BY <1>3, Zenon DEF D!OpenFrame
  <2>2. opening' \in [event: D!Events, siren: BOOLEAN, recorded: BOOLEAN, first: BOOLEAN]
    BY <1>3, NewOpeningType DEF D!OpenFrame
  <2> QED
    BY <1>3, <2>1, <2>2 DEF D!OpenFrame, D!Frames
<1>4. CASE D!CloseFrame
  BY <1>4 DEF D!CloseFrame, D!StartCloseTimer, D!Frames
<1>5. CASE D!OtherFrame
  BY <1>5 DEF D!OtherFrame, D!Frames, D!threads
<1>6. CASE D!PassDoNext
  BY <1>6 DEF D!PassDoNext, D!Lock_doNext, D!StartUnlockTimer
<1>7. CASE D!IsLockup
  BY <1>7 DEF D!IsLockup
<1>8. CASE D!IsUnlock
  <2>1. opening' \in [event: D!Events, siren: BOOLEAN, recorded: BOOLEAN, first: BOOLEAN]
    BY <1>8 DEF D!IsUnlock
  <2>2. owed' \in BOOLEAN
    BY <1>8 DEF D!IsUnlock
  <2> QED
    BY <1>8, <2>1, <2>2 DEF D!IsUnlock
<1>9. CASE D!OpenDoNext
  <2>1. opening' \in [event: D!Events, siren: BOOLEAN, recorded: BOOLEAN, first: BOOLEAN]
    BY <1>9 DEF D!OpenDoNext
  <2>2. alarmTimers' \in Nat
    BY <1>9 DEF D!OpenDoNext, D!Lock_doNext
  <2>3. alarm' \in BOOLEAN
    BY <1>9, Zenon DEF D!OpenDoNext, D!Lock_doNext
  <2> QED
    BY <1>9, <2>1, <2>2, <2>3 DEF D!OpenDoNext
<1>10. CASE D!alarmRecord
  BY <1>10 DEF D!alarmRecord, D!MustRecord
<1>11. CASE D!DisposeTimers
  BY <1>11 DEF D!DisposeTimers, D!dispose
<1>12. CASE D!AlarmTimeout
  <2>1. alarmTimers' \in Nat
    BY <1>12 DEF D!AlarmTimeout
  <2> QED
    BY <1>12, <2>1 DEF D!AlarmTimeout, D!threads
<1>13. CASE D!OutD9Off
  BY <1>13 DEF D!OutD9Off, D!threads
<1>14. CASE D!LockUpDelivered
  BY <1>14 DEF D!LockUpDelivered, D!threads
<1>15. CASE \E t \in UTimers : D!UFire(t)
  BY <1>15 DEF D!UFire, D!CleanFire
<1>16. CASE \E t \in UTimers : D!ULock(t)
  BY <1>16 DEF D!ULock
<1>17. CASE \E t \in UTimers : D!UPost(t)
  BY <1>17 DEF D!UPost
<1>18. CASE \E t \in RTimers : D!RFire(t)
  BY <1>18 DEF D!RFire, D!CleanFire
<1>19. CASE \E t \in RTimers : D!RLock(t)
  BY <1>19 DEF D!RLock
<1>20. CASE \E t \in RTimers : D!RDoor(t)
  BY <1>20 DEF D!RDoor, D!ShutDoor
<1>21. CASE \E t \in RTimers : D!RDispose(t)
  BY <1>21 DEF D!RDispose, D!dispose
<1>22. CASE \E t \in RTimers : D!RRecord(t)
  BY <1>22 DEF D!RRecord
<1>23. CASE \E t \in RTimers : D!RPost(t)
  BY <1>23 DEF D!RPost
<1>24. CASE DoorRestarts
  <2>1. opening' \in [event: D!Events, siren: BOOLEAN, recorded: BOOLEAN, first: BOOLEAN]
    BY <1>24, NewOpeningType DEF DoorRestarts
  <2>2. utimer' \in [UTimers -> D!USteps] /\ rtimer' \in [RTimers -> D!RSteps]
    BY <1>24 DEF DoorRestarts
  <2>3. lockUps' \in 0..MaxLockUps /\ alarmTimers' \in Nat
    BY <1>24 DEF DoorRestarts
  <2> QED
    BY <1>24, <2>1, <2>2, <2>3 DEF DoorRestarts, D!Frames
<1>25. CASE UNCHANGED doorVars
  BY <1>25 DEF doorVars
<1> QED
  BY <1>1, <1>2, <1>3, <1>4, <1>5, <1>6, <1>7, <1>8, <1>9, <1>10, <1>11, <1>12, <1>13,
     <1>14, <1>15, <1>16, <1>17, <1>18, <1>19, <1>20, <1>21, <1>22, <1>23, <1>24, <1>25
     DEF DoorStep, D!Next, D!InHandler, D!UBody, D!RBody

LEMMA ContactStep ==
  ASSUME D!TypeOK, D!Contact, DoorStep
  PROVE  D!Contact'
<1> USE AccessControlAssumption DEF D!TimersAssumption, D!TypeOK, D!Contact, D!MainSteps,
        D!OpenSteps
<1>1. CASE D!onGetPassEvent \/ D!OpenFrame \/ D!CloseFrame \/ D!OtherFrame
  BY <1>1 DEF D!onGetPassEvent, D!OpenFrame, D!CloseFrame, D!StartCloseTimer, D!OtherFrame,
     D!threads
<1>2. CASE \E value \in D!Frames : D!FirstFrame(value)
  BY <1>2 DEF D!FirstFrame, D!Frames
<1>3. CASE D!InHandler
  BY <1>3 DEF D!InHandler, D!PassDoNext, D!IsLockup, D!IsUnlock, D!OpenDoNext, D!alarmRecord,
     D!DisposeTimers
<1>4. CASE D!AlarmTimeout \/ D!OutD9Off \/ D!LockUpDelivered
  BY <1>4 DEF D!AlarmTimeout, D!OutD9Off, D!LockUpDelivered, D!threads
<1>5. CASE \E t \in UTimers : D!UBody(t)
  BY <1>5 DEF D!UBody, D!UFire, D!ULock, D!UPost
<1>6. CASE \E t \in RTimers : D!RBody(t)
  BY <1>6 DEF D!RBody, D!RFire, D!RLock, D!RDoor, D!ShutDoor, D!RDispose, D!RRecord, D!RPost
<1>7. CASE DoorRestarts \/ UNCHANGED doorVars
  BY <1>7 DEF DoorRestarts, doorVars
<1> QED
  BY <1>1, <1>2, <1>3, <1>4, <1>5, <1>6, <1>7 DEF DoorStep, D!Next

(* An opening that is being tested has not been announced.                 *)
LEMMA TestedStep ==
  ASSUME D!TypeOK, Tested, DoorStep
  PROVE  Tested'
<1> USE DEF Tested
<1>1. CASE D!onGetPassEvent \/ D!OpenFrame \/ D!CloseFrame \/ D!OtherFrame
  BY <1>1 DEF D!onGetPassEvent, D!OpenFrame, D!NewOpening, D!CloseFrame, D!OtherFrame,
     D!threads
<1>2. CASE \E value \in D!Frames : D!FirstFrame(value)
  BY <1>2 DEF D!FirstFrame, D!NewOpening
<1>3. CASE D!InHandler
  BY <1>3 DEF D!InHandler, D!PassDoNext, D!IsLockup, D!IsUnlock, D!OpenDoNext, D!alarmRecord,
     D!DisposeTimers
<1>4. CASE D!AlarmTimeout \/ D!OutD9Off \/ D!LockUpDelivered
  BY <1>4 DEF D!AlarmTimeout, D!OutD9Off, D!LockUpDelivered, D!threads
<1>5. CASE \E t \in UTimers : D!UBody(t)
  BY <1>5 DEF D!UBody, D!UFire, D!ULock, D!UPost
<1>6. CASE \E t \in RTimers : D!RBody(t)
  BY <1>6 DEF D!RBody, D!RFire, D!RLock, D!RDoor, D!RDispose, D!RRecord, D!RPost
<1>7. CASE DoorRestarts \/ UNCHANGED doorVars
  BY <1>7 DEF DoorRestarts, doorVars
<1> QED
  BY <1>1, <1>2, <1>3, <1>4, <1>5, <1>6, <1>7 DEF DoorStep, D!Next

-----------------------------------------------------------------------------
(* The session.                                                            *)

LEMMA RecordType ==
  ASSUME NEW a \in S!Someone, NEW b \in S!Someone
  PROVE  /\ S!Check(a) \in S!Records
         /\ S!Open(a, b) \in S!Records
         /\ S!NoRecord \in S!Records
         /\ S!Check(a) # S!NoRecord
         /\ S!Open(a, b) # S!NoRecord
  BY DEF S!Check, S!Open, S!NoRecord, S!Records, S!Pairs, S!Someone

LEMMA PostType ==
  ASSUME NEW record \in S!Records, posts \in [Posts -> S!Records], S!post(record)
  PROVE  posts' \in [Posts -> S!Records]
  BY DEF S!post

LEMMA CompareType ==
  ASSUME NEW a \in S!Someone, NEW b \in S!Someone, NEW register \in BOOLEAN,
         S!TypeOK, S!IMG_to_IMG(a, b, register)
  PROVE  /\ matches' \in Seq([register : BOOLEAN, people : S!Pairs])
         /\ Len(matches') <= MaxMatches
<1>1. [register |-> register, people |-> <<a, b>>] \in [register : BOOLEAN, people : S!Pairs]
  BY DEF S!Pairs
<1> QED
  BY <1>1, AccessControlAssumption DEF S!LimitsAssumption, S!TypeOK, S!IMG_to_IMG

LEMMA TailType ==
  ASSUME S!TypeOK, matches # <<>>
  PROVE  /\ Tail(matches) \in Seq([register : BOOLEAN, people : S!Pairs])
         /\ Len(Tail(matches)) <= MaxMatches
         /\ Head(matches) \in [register : BOOLEAN, people : S!Pairs]
<1> DEFINE M == [register : BOOLEAN, people : S!Pairs]
<1>1. matches \in Seq(M) /\ Len(matches) \in Nat /\ Len(matches) <= MaxMatches
  BY DEF S!TypeOK
<1> HIDE DEF M
<1>2. Tail(matches) \in Seq(M) /\ Head(matches) \in M
  BY <1>1
<1>3. Len(Tail(matches)) = Len(matches) - 1
  BY <1>1
<1> QED
  BY <1>1, <1>2, <1>3, AccessControlAssumption DEF S!LimitsAssumption, M

LEMMA CrashType ==
  ASSUME S!TypeOK, S!Crash, copy' \in {"none", "uploaded", "kept", "mistaken", "lost"}
  PROVE  S!TypeOK'
<1>1. /\ matches' \in Seq([register : BOOLEAN, people : S!Pairs])
      /\ Len(matches') <= MaxMatches
  BY AccessControlAssumption DEF S!LimitsAssumption, S!Crash
<1>2. posts' \in [Posts -> S!Records]
  BY RecordType DEF S!Crash, S!Someone
<1>3. granted' \in S!Pairs
  BY DEF S!Crash, S!Pairs, S!Someone
<1>4. checks' \in [CheckTimers -> {"free", "armed", "due"}]
  BY DEF S!Crash
<1>5. pics' \in 0..MaxPics
  BY AccessControlAssumption DEF S!LimitsAssumption, S!Crash
<1> QED
  BY <1>1, <1>2, <1>3, <1>4, <1>5 DEF S!TypeOK, S!Crash, S!ForgetPeople, S!Someone

LEMMA SessionTypeStep ==
  ASSUME S!TypeOK, SessionStep
  PROVE  S!TypeOK'
<1> USE DEF S!Someone, S!People, S!NoAnswer
<1>1. ASSUME NEW k \in Wardens, S!FirstWarden(k) PROVE S!TypeOK'
  <2>1. quiet' \in BOOLEAN
    BY <1>1, Zenon DEF S!FirstWarden, S!Undisturbed
  <2>2. granted' \in S!Pairs
    BY <1>1 DEF S!FirstWarden, S!Pairs
  <2> QED
    BY <1>1, <2>1, <2>2 DEF S!TypeOK, S!FirstWarden, S!doNext, S!engine
<1>2. ASSUME NEW k \in Wardens, S!SecondWarden(k) PROVE S!TypeOK'
  <2>1. quiet' \in BOOLEAN
    BY <1>2, Zenon DEF S!SecondWarden
  <2>2. checks' \in [CheckTimers -> {"free", "armed", "due"}]
    BY <1>2 DEF S!TypeOK, S!SecondWarden, S!dispose
  <2>3. /\ matches' \in Seq([register : BOOLEAN, people : S!Pairs])
        /\ Len(matches') <= MaxMatches
    BY <1>2, CompareType DEF S!TypeOK, S!SecondWarden
  <2> QED
    BY <1>2, <2>1, <2>2, <2>3 DEF S!TypeOK, S!SecondWarden
<1>3. ASSUME NEW k \in Patrols, S!PatrolSecond(k) PROVE S!TypeOK'
  <2>1. quiet' \in BOOLEAN
    BY <1>3, Zenon DEF S!PatrolSecond
  <2>2. checks' \in [CheckTimers -> {"free", "armed", "due"}]
    BY <1>3 DEF S!TypeOK, S!PatrolSecond, S!dispose
  <2>3. /\ matches' \in Seq([register : BOOLEAN, people : S!Pairs])
        /\ Len(matches') <= MaxMatches
    BY <1>3, CompareType DEF S!TypeOK, S!PatrolSecond
  <2>4. user2' \in S!Someone
    BY <1>3 DEF S!TypeOK, S!PatrolSecond
  <2> QED
    BY <1>3, <2>1, <2>2, <2>3, <2>4 DEF S!TypeOK, S!PatrolSecond
<1>4. ASSUME NEW k \in Patrols \cup Inspectors, S!CheckPerson(k) PROVE S!TypeOK'
  <2>1. posts' \in [Posts -> S!Records]
    BY <1>4, RecordType, PostType DEF S!TypeOK, S!CheckPerson
  <2>2. checks' \in [CheckTimers -> {"free", "armed", "due"}]
    BY <1>4 DEF S!TypeOK, S!CheckPerson, S!dispose
  <2> QED
    BY <1>4, <2>1, <2>2 DEF S!TypeOK, S!CheckPerson, S!engine
<1>5. ASSUME NEW t \in CheckTimers, S!CheckFires(t) PROVE S!TypeOK'
  BY <1>5 DEF S!TypeOK, S!CheckFires, S!people, S!engine, S!history
<1>6. ASSUME NEW t \in CheckTimers, S!checkRecord(t) PROVE S!TypeOK'
  <2>1. CASE user1 = None
    BY <1>6, <2>1, CrashType DEF S!TypeOK, S!checkRecord
  <2>2. CASE user1 # None
    <3>1. posts' \in [Posts -> S!Records]
      BY <1>6, <2>2, RecordType, PostType DEF S!TypeOK, S!checkRecord
    <3> QED
      BY <1>6, <2>2, <3>1 DEF S!TypeOK, S!checkRecord, S!people, S!engine
  <2> QED
    BY <2>1, <2>2
<1>7. ASSUME NEW p \in Posts, NEW answer \in S!Answers, S!CheckAnswered(p, answer)
      PROVE  S!TypeOK'
  <2>1. CASE answer # "other" /\ user1 = None
    BY <1>7, <2>1, CrashType DEF S!TypeOK, S!CheckAnswered
  <2>2. CASE ~(answer # "other" /\ user1 = None)
    <3>1. posts' \in [Posts -> S!Records]
      BY <1>7, <2>2, RecordType DEF S!TypeOK, S!CheckAnswered
    <3>2. op' \in {"Locking", "OneUnlock", "TwoUnlock"}
      BY <1>7, <2>2 DEF S!TypeOK, S!CheckAnswered, S!CancelOne
    <3>3. user1' \in S!Someone /\ user2' \in S!Someone
      BY <1>7, <2>2 DEF S!TypeOK, S!CheckAnswered, S!ForgetPeople, S!people
    <3> QED
      BY <1>7, <2>2, <3>1, <3>2, <3>3 DEF S!TypeOK, S!CheckAnswered, S!timers, S!engine
  <2> QED
    BY <2>1, <2>2
<1>8. ASSUME NEW p \in Posts, NEW answer \in S!Answers, S!OpenAnswered(p, answer)
      PROVE  S!TypeOK'
  <2>1. CASE answer = "null" /\ None \in {user1, user2}
    BY <1>8, <2>1, CrashType DEF S!OpenAnswered
  <2>2. CASE ~(answer = "null" /\ None \in {user1, user2})
    <3>1. posts' \in [Posts -> S!Records]
      BY <1>8, <2>2, RecordType DEF S!TypeOK, S!OpenAnswered
    <3>2. copy' \in {"none", "uploaded", "kept", "mistaken", "lost"}
      BY <1>8, <2>2 DEF S!OpenAnswered, S!Answers
    <3> QED
      BY <1>8, <2>2, <3>1, <3>2 DEF S!TypeOK, S!OpenAnswered, S!ForgetPeople, S!timers,
         S!engine
  <2> QED
    BY <2>1, <2>2
<1>9. CASE S!Score
  <2>1. op' \in {"Locking", "OneUnlock", "TwoUnlock"}
    BY <1>9 DEF S!TypeOK, S!Score, S!doNext
  <2>2. granted' \in S!Pairs
    BY <1>9, TailType DEF S!Score, S!Pairs
  <2> QED
    BY <1>9, <2>1, <2>2, TailType DEF S!TypeOK, S!Score, S!people, S!timers
<1>10. CASE S!ScoreElsewhere
  BY <1>10, TailType DEF S!TypeOK, S!ScoreElsewhere, S!people, S!timers, S!history
<1>11. CASE S!recentPic
  BY <1>11, AccessControlAssumption DEF S!LimitsAssumption, S!TypeOK, S!recentPic,
     S!people, S!timers, S!history
<1>12. CASE S!recentPicAnswered
  <2>1. /\ matches' \in Seq([register : BOOLEAN, people : S!Pairs])
        /\ Len(matches') <= MaxMatches
    BY <1>12, CompareType DEF S!TypeOK, S!recentPicAnswered
  <2> QED
    BY <1>12, <2>1, AccessControlAssumption DEF S!LimitsAssumption, S!TypeOK,
       S!recentPicAnswered, S!people, S!timers, S!history
<1>13. CASE S!onGetOpenDoorEvent
  <2>1. quiet' \in BOOLEAN
    BY <1>13, Zenon DEF S!onGetOpenDoorEvent
  <2>2. posts' \in [Posts -> S!Records]
    BY <1>13, RecordType, PostType DEF S!TypeOK, S!onGetOpenDoorEvent
  <2>3. checks' \in [CheckTimers -> {"free", "armed", "due"}]
    BY <1>13 DEF S!TypeOK, S!onGetOpenDoorEvent, S!dispose
  <2>4. op' \in {"Locking", "OneUnlock", "TwoUnlock"}
    BY <1>13 DEF S!TypeOK, S!onGetOpenDoorEvent, S!CancelOne
  <2>5. granted' \in S!Pairs
    BY <1>13 DEF S!onGetOpenDoorEvent, S!Pairs
  <2> QED
    BY <1>13, <2>1, <2>2, <2>3, <2>4, <2>5 DEF S!TypeOK, S!onGetOpenDoorEvent, S!people,
       S!engine
<1>14. CASE S!onGetLockUpEvent
  BY <1>14 DEF S!TypeOK, S!onGetLockUpEvent, S!ForgetPeople, S!ResetOperation, S!timers,
     S!engine, S!Pairs
<1>15. CASE S!onPause
  BY <1>15 DEF S!TypeOK, S!onPause, S!people, S!engine
<1>16. ASSUME NEW next \in {"main", "reg"}, S!onResume(next) PROVE S!TypeOK'
  BY <1>16 DEF S!TypeOK, S!onResume, S!ResetOperation, S!people, S!timers, S!engine, S!history
<1>17. CASE UNCHANGED sessionVars /\ copy' \in {"none", copy}
  BY <1>17 DEF S!TypeOK, sessionVars
<1> QED
  BY <1>1, <1>2, <1>3, <1>4, <1>5, <1>6, <1>7, <1>8, <1>9, <1>10, <1>11, <1>12, <1>13,
     <1>14, <1>15, <1>16, <1>17
     DEF SessionStep, S!Next, S!onUser, S!TimeOut, S!Answer, S!EngineAnswer, S!Pages

LEMMA QuietPosts ==
  ASSUME S!QuietShape, quiet, NEW p \in Posts, posts[p] # S!NoRecord
  PROVE  /\ S!Opened
         /\ S!Couple
         /\ posts[p] = S!Open(user1, user2)
  BY DEF S!QuietShape, S!Alone, S!Compared, S!Granted, S!Opened, S!AllPostsFree

LEMMA QuietShapeStep ==
  ASSUME S!TypeOK, S!QuietShape, SessionStep
  PROVE  S!QuietShape'
<1> USE AccessControlAssumption DEF S!PeopleAssumption
<1>1. ASSUME NEW k \in Wardens, S!FirstWarden(k) PROVE S!QuietShape'
  <2> SUFFICES ASSUME S!Undisturbed PROVE S!QuietShape'
    BY <1>1 DEF S!FirstWarden, S!QuietShape
  <2>1. \A t \in CheckTimers : t # checkChange' => checks'[t] = "free"
    BY <1>1 DEF S!FirstWarden, S!Undisturbed, S!TypeOK
  <2>2. S!Alone'
    BY <1>1 DEF S!FirstWarden, S!Undisturbed, S!doNext, S!Alone, S!AllPostsFree, S!engine
  <2> QED
    BY <1>1, <2>1, <2>2 DEF S!FirstWarden, S!Undisturbed, S!QuietShape, S!engine
<1>2. ASSUME NEW k \in Wardens, S!SecondWarden(k) PROVE S!QuietShape'
  <2> SUFFICES ASSUME quiet, matches = <<>> PROVE S!QuietShape'
    BY <1>2 DEF S!SecondWarden, S!QuietShape
  <2>1. S!Alone /\ page = "main" /\ pics = 0
    BY <1>2 DEF S!SecondWarden, S!QuietShape, S!Alone, S!Compared, S!Granted, S!Opened
  <2>2. S!AllChecksFree'
    BY <1>2 DEF S!SecondWarden, S!dispose, S!QuietShape, S!AllChecksFree
  <2>3. matches' = <<[register |-> FALSE, people |-> <<user1', user2'>>]>>
    BY <1>2 DEF S!SecondWarden, S!IMG_to_IMG
  <2>4. S!Compared'
    BY <1>2, <2>1, <2>2, <2>3
       DEF S!SecondWarden, S!AnotherPerson, S!Alone, S!Compared, S!Couple, S!Companions,
          S!AllPostsFree
  <2> QED
    BY <1>2, <2>1, <2>2, <2>4 DEF S!SecondWarden, S!QuietShape, S!AllChecksFree
<1>3. ASSUME NEW k \in Patrols, S!PatrolSecond(k) PROVE S!QuietShape'
  <2> SUFFICES ASSUME quiet, matches = <<>>, S!AnotherPerson(k) PROVE S!QuietShape'
    BY <1>3 DEF S!PatrolSecond, S!QuietShape
  <2>1. S!Alone /\ page = "main" /\ pics = 0
    BY <1>3 DEF S!PatrolSecond, S!QuietShape, S!Alone, S!Compared, S!Granted, S!Opened
  <2>2. S!AllChecksFree'
    BY <1>3 DEF S!PatrolSecond, S!dispose, S!QuietShape, S!AllChecksFree
  <2>3. matches' = <<[register |-> FALSE, people |-> <<user1', user2'>>]>>
    BY <1>3 DEF S!PatrolSecond, S!IMG_to_IMG
  <2>4. S!Compared'
    BY <1>3, <2>1, <2>2, <2>3
       DEF S!PatrolSecond, S!AnotherPerson, S!Alone, S!Compared, S!Couple, S!Companions,
          S!AllPostsFree
  <2> QED
    BY <1>3, <2>1, <2>2, <2>4 DEF S!PatrolSecond, S!QuietShape, S!AllChecksFree
<1>4. ASSUME NEW k \in Patrols \cup Inspectors, S!CheckPerson(k) PROVE S!QuietShape'
  BY <1>4 DEF S!CheckPerson, S!QuietShape
<1>5. ASSUME NEW t \in CheckTimers, S!CheckFires(t) PROVE S!QuietShape'
  <2> SUFFICES ASSUME quiet PROVE S!QuietShape'
    BY <1>5 DEF S!CheckFires, S!QuietShape, S!history
  <2>1. ~S!AllChecksFree /\ t = checkChange
    BY <1>5 DEF S!CheckFires, S!AllChecksFree, S!QuietShape
  <2>2. S!Alone
    BY <2>1 DEF S!QuietShape, S!Compared, S!Granted, S!Opened
  <2>3. S!Alone'
    BY <1>5, <2>2 DEF S!CheckFires, S!Alone, S!AllPostsFree, S!people, S!engine, S!history
  <2>4. \A u \in CheckTimers : u # checkChange' => checks'[u] = "free"
    BY <1>5, <2>1 DEF S!CheckFires, S!QuietShape, S!TypeOK
  <2> QED
    BY <1>5, <2>3, <2>4 DEF S!CheckFires, S!QuietShape, S!engine
<1>6. ASSUME NEW t \in CheckTimers, S!checkRecord(t) PROVE S!QuietShape'
  BY <1>6 DEF S!checkRecord, S!Crash, S!QuietShape
<1>7. ASSUME NEW p \in Posts, NEW answer \in S!Answers, S!CheckAnswered(p, answer)
      PROVE  S!QuietShape'
  <2>1. ~quiet
    BY <1>7, QuietPosts DEF S!CheckAnswered, S!NoRecord, S!Open
  <2> QED
    BY <1>7, <2>1 DEF S!CheckAnswered, S!Crash, S!QuietShape
<1>8. ASSUME NEW p \in Posts, NEW answer \in S!Answers, S!OpenAnswered(p, answer)
      PROVE  S!QuietShape'
  <2> SUFFICES ASSUME quiet PROVE S!QuietShape'
    BY <1>8 DEF S!OpenAnswered, S!Crash, S!QuietShape
  <2>1. posts[p] # S!NoRecord
    BY <1>8 DEF S!OpenAnswered, S!NoRecord
  <2>2. S!Opened /\ S!Couple
    BY <2>1, QuietPosts
  <2>3. None \notin {user1, user2}
    BY <2>2 DEF S!Couple, S!Companions, S!People
  <2>4. /\ posts' = [posts EXCEPT ![p] = S!NoRecord]
        /\ UNCHANGED <<op, page, checks, checkChange, matches, pics, unlocked>>
    BY <1>8, <2>3 DEF S!OpenAnswered, S!timers, S!engine
  <2>5. \A q \in Posts : posts'[q] = S!NoRecord
    BY <2>1, <2>2, <2>4 DEF S!Opened, S!TypeOK
  <2>6. S!Opened'
    BY <2>2, <2>4, <2>5 DEF S!Opened, S!AllChecksFree
  <2> QED
    BY <2>4, <2>6 DEF S!QuietShape
<1>9. CASE S!Score
  <2> SUFFICES ASSUME quiet PROVE S!QuietShape'
    BY <1>9 DEF S!Score, S!QuietShape
  <2>1. S!Compared
    BY <1>9 DEF S!Score, S!QuietShape, S!Alone, S!Granted, S!Opened
  <2>2. matches' = <<>> /\ granted' = <<user1, user2>>
    BY <1>9, <2>1 DEF S!Score, S!Compared
  <2>3. op' = "TwoUnlock"
    BY <1>9, <2>1 DEF S!Score, S!Compared, S!doNext
  <2>4. S!Granted'
    BY <1>9, <2>1, <2>2, <2>3
       DEF S!Score, S!Compared, S!Granted, S!Couple, S!AllPostsFree, S!AllChecksFree,
          S!people, S!timers
  <2> QED
    BY <1>9, <2>4 DEF S!Score, S!QuietShape, S!timers
<1>10. CASE S!ScoreElsewhere
  BY <1>10 DEF S!ScoreElsewhere, S!QuietShape, S!history
<1>11. CASE S!recentPic
  BY <1>11 DEF S!recentPic, S!QuietShape, S!history
<1>12. CASE S!recentPicAnswered
  BY <1>12 DEF S!recentPicAnswered, S!QuietShape, S!history
<1>13. CASE S!onGetOpenDoorEvent
  <2> SUFFICES ASSUME quiet, unlocked = "granted" PROVE S!QuietShape'
    BY <1>13 DEF S!onGetOpenDoorEvent, S!QuietShape
  <2>1. S!Granted /\ page = "main" /\ pics = 0
    BY DEF S!QuietShape, S!Alone, S!Compared, S!Opened
  <2>2. None \notin {user1, user2}
    BY <2>1 DEF S!Granted, S!Couple, S!Companions, S!People
  <2>3. PICK p \in Posts : posts' = [posts EXCEPT ![p] = S!Open(user1, user2)]
    BY <1>13, <2>2 DEF S!onGetOpenDoorEvent, S!post
  <2>4. op' = "TwoUnlock" /\ unlocked' = "opened" /\ S!AllChecksFree'
    BY <1>13, <2>1, <2>2 DEF S!onGetOpenDoorEvent, S!CancelOne, S!dispose, S!Granted,
       S!AllChecksFree
  <2>5. \A q \in Posts : posts'[q] # S!NoRecord => q = p
    BY <2>1, <2>3 DEF S!Granted, S!AllPostsFree, S!TypeOK
  <2>6. posts'[p] = S!Open(user1, user2) /\ UNCHANGED <<user1, user2>>
    BY <1>13, <2>3 DEF S!TypeOK, S!onGetOpenDoorEvent, S!people
  <2>7. S!Opened'
    BY <1>13, <2>1, <2>4, <2>5, <2>6
       DEF S!onGetOpenDoorEvent, S!Granted, S!Opened, S!Couple, S!Open, S!engine
  <2> QED
    BY <1>13, <2>1, <2>4, <2>7 DEF S!onGetOpenDoorEvent, S!QuietShape, S!AllChecksFree,
       S!engine
<1>14. CASE S!onGetLockUpEvent
  BY <1>14 DEF S!onGetLockUpEvent, S!QuietShape
<1>15. CASE S!onPause
  BY <1>15 DEF S!onPause, S!QuietShape
<1>16. ASSUME NEW next \in {"main", "reg"}, S!onResume(next) PROVE S!QuietShape'
  BY <1>16 DEF S!onResume, S!QuietShape, S!history
<1>17. CASE UNCHANGED sessionVars /\ copy' \in {"none", copy}
  BY <1>17 DEF sessionVars, S!QuietShape, S!Alone, S!Compared, S!Granted,
     S!Opened, S!Couple, S!Open, S!AllPostsFree, S!AllChecksFree
<1> QED
  BY <1>1, <1>2, <1>3, <1>4, <1>5, <1>6, <1>7, <1>8, <1>9, <1>10, <1>11, <1>12, <1>13,
     <1>14, <1>15, <1>16, <1>17
     DEF SessionStep, S!Next, S!onUser, S!TimeOut, S!Answer, S!EngineAnswer, S!Pages

-----------------------------------------------------------------------------
(* The joint steps.                                                        *)

DoorAlone ==
  /\ SessionUnchanged
  /\ \/ \E value \in D!Frames : D!FirstFrame(value)
     \/ D!OpenFrame \/ D!CloseFrame \/ D!OtherFrame
     \/ D!PassDoNext \/ (D!IsLockup /\ lock # "Lockup") \/ (D!IsUnlock /\ lock # "Unlock")
     \/ D!OpenDoNext \/ D!alarmRecord \/ D!DisposeTimers \/ D!AlarmTimeout
     \/ \E t \in UTimers : D!UBody(t)
     \/ \E t \in RTimers : D!RBody(t)

Opening ==
  /\ \/ D!IsLockup /\ lock = "Lockup"
     \/ D!IsUnlock /\ lock = "Unlock"
  /\ S!onGetOpenDoorEvent

SessionSteps ==
  \/ S!onUser
  \/ \E t \in CheckTimers : S!TimeOut(t)
  \/ \E p \in Posts : S!Answer(p)
  \/ S!ScoreElsewhere \/ S!recentPic \/ S!recentPicAnswered \/ S!Pages

\* A timer of the session may fire in the middle of a handler.
SessionAlone ==
  /\ SessionSteps
  /\ main = "idle" \/ \E t \in CheckTimers : S!CheckFires(t)
  /\ \/ page' = "down" /\ DoorRestarts
     \/ UNCHANGED doorVars
     \/ D!OutD9Off

LEMMA StepCases ==
  ASSUME Step
  PROVE  DoorAlone \/ PassEvent \/ Opening \/ LockUpEvent \/ SessionAlone
<1>1. ASSUME Frame PROVE DoorAlone
  BY <1>1 DEF Frame, DoorOnly, DoorAlone
<1>2. ASSUME Handler PROVE DoorAlone \/ Opening
  BY <1>2 DEF Handler, OpenDoorEvent, DoorOnly, DoorAlone, Opening
<1>3. ASSUME DoorOnly(D!AlarmTimeout) PROVE DoorAlone
  BY <1>3 DEF DoorOnly, DoorAlone
<1>4. ASSUME NEW t \in UTimers, DoorOnly(D!UBody(t)) PROVE DoorAlone
  BY <1>4 DEF DoorOnly, DoorAlone
<1>5. ASSUME NEW t \in RTimers, DoorOnly(D!RBody(t)) PROVE DoorAlone
  BY <1>5 DEF DoorOnly, DoorAlone
<1>6. ASSUME onUser PROVE SessionAlone
  BY <1>6 DEF onUser, SessionOnly, WithOutD9Off, SessionAlone, SessionSteps, S!onUser
<1>7. ASSUME NEW t \in CheckTimers, CheckTimer(t) PROVE SessionAlone
  BY <1>7 DEF CheckTimer, WithOutD9Off, SessionAlone, SessionSteps, S!TimeOut
<1>8. ASSUME NEW p \in Posts, SessionOnly(S!Answer(p)) PROVE SessionAlone
  BY <1>8 DEF SessionOnly, SessionAlone, SessionSteps
<1>9. ASSUME EngineAnswer PROVE PassEvent \/ SessionAlone
  BY <1>9 DEF EngineAnswer, SessionOnly, SessionAlone, SessionSteps
<1>10. ASSUME SessionOnly(S!recentPic \/ S!recentPicAnswered) PROVE SessionAlone
  BY <1>10 DEF SessionOnly, SessionAlone, SessionSteps
<1>11. ASSUME SessionOnly(S!Pages) PROVE SessionAlone
  BY <1>11 DEF SessionOnly, SessionAlone, SessionSteps
<1> QED
  BY <1>1, <1>2, <1>3, <1>4, <1>5, <1>6, <1>7, <1>8, <1>9, <1>10, <1>11 DEF Step

LEMMA Sides ==
  ASSUME Step
  PROVE  DoorStep /\ SessionStep
<1>1. CASE DoorAlone
  BY <1>1 DEF DoorAlone, DoorStep, SessionStep, D!Next, D!InHandler, SessionUnchanged,
     S!NoAnswer
<1>2. CASE PassEvent
  BY <1>2 DEF PassEvent, DoorStep, SessionStep, D!Next, S!Next, S!EngineAnswer
<1>3. CASE Opening
  BY <1>3 DEF Opening, DoorStep, SessionStep, D!Next, D!InHandler, S!Next
<1>4. CASE LockUpEvent
  BY <1>4 DEF LockUpEvent, DoorStep, SessionStep, D!Next, S!Next
<1>5. CASE SessionAlone
  BY <1>5 DEF SessionAlone, SessionSteps, DoorStep, SessionStep, D!Next, S!Next, S!EngineAnswer
<1> QED
  BY StepCases, <1>1, <1>2, <1>3, <1>4, <1>5

(* What the door does on its own: it never unlocks, and a pass is granted  *)
(* by the session only.                                                    *)
LEMMA DoorAloneFacts ==
  ASSUME DoorAlone
  PROVE  /\ lock' = "Unlock" => lock = "Unlock"
         /\ main' = "pass" => main = "pass"
         /\ UNCHANGED <<op, page, unlocked, quiet>>
<1>1. UNCHANGED <<op, page, unlocked, quiet>>
  BY DEF DoorAlone, SessionUnchanged, sessionVars
<1>2. CASE \/ \E value \in D!Frames : D!FirstFrame(value)
           \/ D!OpenFrame \/ D!CloseFrame \/ D!OtherFrame
  BY <1>1, <1>2 DEF D!FirstFrame, D!OpenFrame, D!CloseFrame, D!OtherFrame, D!threads
<1>3. CASE \/ D!PassDoNext \/ D!IsLockup \/ D!IsUnlock \/ D!OpenDoNext \/ D!alarmRecord
           \/ D!DisposeTimers \/ D!AlarmTimeout
  BY <1>1, <1>3 DEF D!PassDoNext, D!IsLockup, D!IsUnlock, D!OpenDoNext, D!alarmRecord,
     D!DisposeTimers, D!AlarmTimeout, D!threads
<1>4. CASE \E t \in UTimers : D!UBody(t)
  BY <1>1, <1>4 DEF D!UBody, D!UFire, D!ULock, D!UPost
<1>5. CASE \E t \in RTimers : D!RBody(t)
  BY <1>1, <1>5 DEF D!RBody, D!RFire, D!RLock, D!RDoor, D!RDispose, D!RRecord, D!RPost
<1> QED
  BY <1>2, <1>3, <1>4, <1>5 DEF DoorAlone

(* What the session does on its own: nobody more is counted up to          *)
(* TwoUnlock, and nothing is unlocked or opened.                           *)
LEMMA SessionAloneFacts ==
  ASSUME S!TypeOK, SessionSteps
  PROVE  /\ op' = "TwoUnlock" => op = "TwoUnlock"
         /\ page' = "down" => \/ op' = "Locking" /\ unlocked' = "no"
                              \/ /\ page = "down" /\ unlocked' = unlocked
                                 /\ op' \in {op, "Locking"}
         /\ unlocked' = unlocked \/ (unlocked' = "no" /\ ~quiet')
         /\ quiet' /\ ~quiet => unlocked' = "no"
<1>1. ASSUME NEW k \in Wardens, S!FirstWarden(k) \/ S!SecondWarden(k)
      PROVE  /\ op' = "TwoUnlock" => op = "TwoUnlock"
             /\ page' = page /\ page = "main" /\ unlocked' = unlocked
             /\ quiet' /\ ~quiet => unlocked' = "no"
  BY <1>1 DEF S!FirstWarden, S!SecondWarden, S!doNext, S!Undisturbed
<1>2. ASSUME NEW k \in Patrols \cup Inspectors, S!PatrolSecond(k) \/ S!CheckPerson(k)
      PROVE  UNCHANGED <<op, page, unlocked>> /\ page = "main" /\ (quiet' => quiet)
  BY <1>2 DEF S!PatrolSecond, S!CheckPerson
<1>3. ASSUME S!Crash
      PROVE  op' = "Locking" /\ unlocked' = "no" /\ ~quiet'
  BY <1>3 DEF S!Crash
<1>4. ASSUME NEW t \in CheckTimers, S!TimeOut(t)
      PROVE  S!Crash \/ (UNCHANGED <<op, page, unlocked>> /\ (quiet' => quiet))
  BY <1>4 DEF S!TimeOut, S!CheckFires, S!checkRecord, S!people, S!history
<1>5. ASSUME NEW p \in Posts, S!Answer(p)
      PROVE  S!Crash \/ (UNCHANGED <<page, unlocked, quiet>> /\ op' \in {op, "Locking"})
  BY <1>5 DEF S!Answer, S!CheckAnswered, S!OpenAnswered, S!CancelOne
<1>6. ASSUME S!ScoreElsewhere \/ S!recentPic \/ S!recentPicAnswered
      PROVE  UNCHANGED <<op, page, unlocked, quiet>>
  BY <1>6 DEF S!ScoreElsewhere, S!recentPic, S!recentPicAnswered, S!history
<1>7. ASSUME S!Pages
      PROVE  /\ page' # "down" /\ op' \in {op, "Locking"} /\ unlocked' = unlocked
             /\ quiet' => quiet
  BY <1>7 DEF S!Pages, S!onPause, S!onResume, S!ResetOperation, S!history
<1>8. CASE S!onUser
  BY <1>1, <1>2, <1>8 DEF S!onUser
<1>9. CASE (\E t \in CheckTimers : S!TimeOut(t)) \/ (\E p \in Posts : S!Answer(p))
  BY <1>3, <1>4, <1>5, <1>9
<1> QED
  BY <1>6, <1>7, <1>8, <1>9 DEF SessionSteps

(* ... and what it leaves of the door.                                     *)
LEMMA SessionAloneDoor ==
  ASSUME SessionAlone, ~(page' = "down" /\ DoorRestarts)
  PROVE  UNCHANGED <<lock, door, lastValue, main, utimer, rtimer, lockUps>>
  BY DEF SessionAlone, doorVars, D!OutD9Off, D!threads

-----------------------------------------------------------------------------
(* What the whole keeps.                                                   *)

LEMMA PassGrantedStep ==
  ASSUME IInv, Step
  PROVE  PassGranted'
<1> USE DEF IInv, PassGranted, SessionSide
<1>1. CASE DoorAlone
  BY <1>1, DoorAloneFacts
<1>2. CASE PassEvent
  BY <1>2 DEF PassEvent, S!Score, S!people
<1>3. CASE Opening
  BY <1>3 DEF Opening, D!IsLockup, D!IsUnlock, S!onGetOpenDoorEvent, S!people
<1>4. CASE LockUpEvent
  BY <1>4 DEF LockUpEvent, S!onGetLockUpEvent, S!ResetOperation, D!LockUpDelivered, D!threads
<1>5. CASE SessionAlone
  <2>1. page' = "down" => op' = "Locking" /\ unlocked' = "no"
    BY <1>5, SessionAloneFacts DEF SessionAlone
  <2>2. CASE page' = "down" /\ DoorRestarts
    BY <2>1, <2>2 DEF DoorRestarts
  <2>3. CASE ~(page' = "down" /\ DoorRestarts)
    <3>1. main' = main
      BY <1>5, <2>3, SessionAloneDoor
    <3>2. main = "pass" => unlocked' = unlocked
      BY <1>5 DEF SessionAlone, S!CheckFires
    <3> QED
      BY <2>1, <3>1, <3>2
  <2> QED
    BY <2>2, <2>3
<1> QED
  BY StepCases, <1>1, <1>2, <1>3, <1>4, <1>5

LEMMA RelockingStep ==
  ASSUME IInv, Step
  PROVE  Relocking'
<1>a. D!TypeOK /\ S!TypeOK /\ PassGranted /\ Relocking
  BY DEF IInv, DoorSide, SessionSide
<1> USE DEF Relocking
<1>1. CASE DoorAlone
  <2>1. UNCHANGED unlocked
    BY <1>1, DoorAloneFacts
  <2>2. CASE \/ \E value \in D!Frames : D!FirstFrame(value)
             \/ D!OpenFrame \/ D!OtherFrame
    BY <1>a, <2>1, <2>2 DEF D!FirstFrame, D!OpenFrame, D!OtherFrame, D!threads
  <2>3. CASE D!CloseFrame
    BY <1>a, <2>1, <2>3 DEF D!CloseFrame, D!StartCloseTimer
  <2>4. CASE \/ D!PassDoNext \/ D!IsLockup \/ D!IsUnlock \/ D!OpenDoNext \/ D!alarmRecord
             \/ D!AlarmTimeout
    BY <1>a, <2>1, <2>4 DEF D!PassDoNext, D!StartUnlockTimer, D!IsLockup, D!IsUnlock,
       D!OpenDoNext, D!alarmRecord, D!AlarmTimeout, D!threads, D!TypeOK
  <2>5. CASE D!DisposeTimers
    BY <1>a, <2>1, <2>5 DEF D!DisposeTimers, D!dispose, D!TypeOK
  <2>6. CASE \E t \in UTimers : D!UBody(t)
    BY <1>a, <2>1, <2>6 DEF D!UBody, D!UFire, D!ULock, D!UPost, D!TypeOK
  <2>7. CASE \E t \in RTimers : D!RBody(t)
    BY <1>a, <2>1, <2>7 DEF D!RBody, D!RFire, D!RLock, D!RDoor, D!RDispose, D!dispose,
       D!RRecord, D!RPost, D!TypeOK
  <2> QED
    BY <1>1, <2>2, <2>3, <2>4, <2>5, <2>6, <2>7 DEF DoorAlone
<1>2. CASE PassEvent
  BY <1>2 DEF PassEvent, D!onGetPassEvent
<1>3. CASE Opening
  BY <1>a, <1>3 DEF Opening, D!IsLockup, D!IsUnlock, S!onGetOpenDoorEvent
<1>4. CASE LockUpEvent
  BY <1>4 DEF LockUpEvent, S!onGetLockUpEvent
<1>5. CASE SessionAlone
  <2>1. page' = "down" => unlocked' = "no"
    BY <1>a, <1>5, SessionAloneFacts DEF SessionAlone, PassGranted
  <2>2. CASE ~(page' = "down" /\ DoorRestarts)
    BY <1>a, <1>5, <2>2, SessionAloneFacts, SessionAloneDoor DEF SessionAlone
  <2> QED
    BY <2>1, <2>2
<1> QED
  BY StepCases, <1>1, <1>2, <1>3, <1>4, <1>5

LEMMA WatchedStep ==
  ASSUME IInv, Step
  PROVE  Watched'
<1>a. D!TypeOK /\ D!Contact /\ S!TypeOK /\ PassGranted /\ Relocking /\ Watched
  BY DEF IInv, DoorSide, SessionSide
<1> USE AccessControlAssumption DEF Watched, D!TimersAssumption
<1>1. CASE DoorAlone
  <2>1. UNCHANGED unlocked
    BY <1>1, DoorAloneFacts
  <2>2. CASE \/ \E value \in D!Frames : D!FirstFrame(value)
             \/ D!OpenFrame \/ D!OtherFrame
    BY <1>a, <2>1, <2>2 DEF D!FirstFrame, D!OpenFrame, D!OtherFrame, D!threads
  <2>3. CASE D!CloseFrame
    <3>1. CASE lock = "Unlock"
      <4>1. \E t \in RTimers : rtimer'[t] = "armed"
        BY <1>a, <2>3, <3>1 DEF D!CloseFrame, D!StartCloseTimer, D!TypeOK
      <4> QED
        BY <4>1
    <3>2. CASE lock = "Lockup"
      BY <1>a, <2>1, <2>3, <3>2 DEF D!CloseFrame, Relocking
    <3> QED
      BY <1>a, <3>1, <3>2 DEF D!TypeOK
  <2>4. CASE D!PassDoNext
    <3>1. \E t \in UTimers : utimer'[t] = "armed"
      BY <1>a, <2>4 DEF D!PassDoNext, D!StartUnlockTimer, D!TypeOK
    <3> QED
      BY <3>1
  <2>5. CASE D!IsLockup \/ D!IsUnlock \/ D!OpenDoNext \/ D!alarmRecord \/ D!DisposeTimers
    BY <1>a, <2>5 DEF D!Contact, D!OpenSteps, D!IsLockup, D!IsUnlock, D!OpenDoNext,
       D!alarmRecord, D!DisposeTimers
  <2>6. CASE D!AlarmTimeout
    BY <1>a, <2>1, <2>6 DEF D!AlarmTimeout, D!threads
  <2>7. CASE \E t \in UTimers : D!UBody(t)
    BY <1>a, <2>1, <2>7 DEF D!UBody, D!UFire, D!ULock, D!UPost, D!TypeOK
  <2>8. CASE \E t \in RTimers : D!RBody(t)
    BY <1>a, <2>1, <2>8 DEF D!RBody, D!RFire, D!RLock, D!RDoor, D!RDispose, D!RRecord,
       D!RPost, D!TypeOK
  <2> QED
    BY <1>1, <2>2, <2>3, <2>4, <2>5, <2>6, <2>7, <2>8 DEF DoorAlone
<1>2. CASE PassEvent
  BY <1>2 DEF PassEvent, D!onGetPassEvent
<1>3. CASE Opening
  BY <1>a, <1>3 DEF Opening, D!IsLockup, D!IsUnlock, D!Contact, D!OpenSteps
<1>4. CASE LockUpEvent
  BY <1>4 DEF LockUpEvent, S!onGetLockUpEvent
<1>5. CASE SessionAlone
  <2>1. page' = "down" => unlocked' = "no"
    BY <1>a, <1>5, SessionAloneFacts DEF SessionAlone, PassGranted
  <2>2. CASE ~(page' = "down" /\ DoorRestarts)
    BY <1>a, <1>5, <2>2, SessionAloneFacts, SessionAloneDoor DEF SessionAlone
  <2> QED
    BY <2>1, <2>2
<1> QED
  BY StepCases, <1>1, <1>2, <1>3, <1>4, <1>5

-----------------------------------------------------------------------------
(* Settled sessions.                                                       *)

(* A settled session that nobody was granted leaves the door at rest.      *)
LEMMA RestStep ==
  ASSUME IInv, D!AtRest, unlocked = "no", DoorAlone, lastValue' \in {None, "close"}
  PROVE  D!AtRest'
<1>a. D!TypeOK /\ D!Contact /\ main # "pass"
  BY DEF IInv, DoorSide, PassGranted
<1>b. main = "idle"
  BY <1>a, AccessControlAssumption
     DEF D!TimersAssumption, D!TypeOK, D!Contact, D!MainSteps, D!AtRest, D!OpenSteps
<1> USE AccessControlAssumption DEF D!TimersAssumption, D!AtRest, D!AllFree
<1>1. CASE \/ \E value \in D!Frames : D!FirstFrame(value)
           \/ D!OpenFrame \/ D!CloseFrame \/ D!OtherFrame
  BY <1>1 DEF D!FirstFrame, D!OpenFrame, D!CloseFrame, D!OtherFrame
<1>2. CASE D!PassDoNext \/ D!IsLockup \/ D!IsUnlock \/ D!OpenDoNext \/ D!alarmRecord
           \/ D!DisposeTimers
  BY <1>b, <1>2 DEF D!PassDoNext, D!IsLockup, D!IsUnlock, D!OpenDoNext, D!alarmRecord,
     D!DisposeTimers
<1>3. CASE D!AlarmTimeout
  BY <1>3 DEF D!AlarmTimeout, D!threads
<1>4. CASE \E t \in UTimers : D!UBody(t)
  BY <1>4 DEF D!UBody, D!UFire, D!ULock, D!UPost
<1>5. CASE \E t \in RTimers : D!RBody(t)
  BY <1>5 DEF D!RBody, D!RFire, D!RLock, D!RDoor, D!RDispose, D!RRecord, D!RPost
<1> QED
  BY <1>1, <1>2, <1>3, <1>4, <1>5 DEF DoorAlone

(* A score of a settled session is the one it waits for, and finds the     *)
(* door at rest.                                                           *)
LEMMA SettledScore ==
  ASSUME IInv, settled, S!Score
  PROVE  quiet /\ unlocked = "no" /\ D!AtRest
BY DEF IInv, SessionSide, SettledShape, S!QuietShape, S!Alone, S!Compared, S!Granted,
   S!Opened, S!Score

\* How an open lock has come about, in a settled session.
OpenedOnce ==
  lock = "Unlock" =>
    /\ \A t \in RTimers : rtimer[t] \in {"free", "armed", "fired"}
    /\ unlocked = "opened" => door = "Open" /\ main \notin {"isLockup", "isUnlock"}
    /\ main \in {"isLockup", "isUnlock"} => door = "Open"

LEMMA OpenedOnceAlone ==
  ASSUME D!TypeOK, D!Contact, OpenedOnce, DoorAlone,
         main # "isUnlock" \/ unlocked # "opened"
  PROVE  OpenedOnce'
<1> SUFFICES ASSUME lock' = "Unlock" PROVE OpenedOnce'
  BY DEF OpenedOnce
<1>a. lock = "Unlock" /\ unlocked' = unlocked
  BY DoorAloneFacts
<1> USE <1>a, AccessControlAssumption DEF D!TimersAssumption, OpenedOnce
<1>1. CASE \E value \in D!Frames : D!FirstFrame(value)
  <2>1. unlocked # "opened"
    BY <1>1 DEF D!FirstFrame, D!Contact
  <2> QED
    BY <1>1, <2>1 DEF D!FirstFrame
<1>2. CASE D!OpenFrame
  BY <1>2 DEF D!OpenFrame
<1>3. CASE D!CloseFrame
  BY <1>3 DEF D!CloseFrame, D!StartCloseTimer, D!TypeOK
<1>4. CASE D!OtherFrame \/ D!AlarmTimeout
  BY <1>4 DEF D!OtherFrame, D!AlarmTimeout, D!threads
<1>5. CASE D!PassDoNext \/ D!IsLockup \/ D!IsUnlock \/ D!OpenDoNext \/ D!alarmRecord
  BY <1>5 DEF D!PassDoNext, D!StartUnlockTimer, D!IsLockup, D!IsUnlock, D!OpenDoNext,
     D!alarmRecord
<1>6. CASE D!DisposeTimers
  BY <1>6 DEF D!DisposeTimers, D!dispose, D!TypeOK
<1>7. CASE \E t \in UTimers : D!UBody(t)
  BY <1>7 DEF D!UBody, D!UFire, D!ULock, D!UPost
<1>8. CASE \E t \in RTimers : D!RBody(t)
  <2>1. PICK t \in RTimers : D!RFire(t)
    BY <1>8 DEF D!RBody, D!RFire, D!RLock, D!RDoor, D!RDispose, D!RRecord, D!RPost
  <2> QED
    BY <2>1 DEF D!RFire, D!TypeOK
<1> QED
  BY <1>1, <1>2, <1>3, <1>4, <1>5, <1>6, <1>7, <1>8 DEF DoorAlone

LEMMA SettledStep ==
  ASSUME IInv, Next, S!QuietShape'
  PROVE  SettledShape'
<1>a. /\ D!TypeOK /\ D!Contact /\ S!TypeOK /\ PassGranted /\ SettledShape
      /\ settled \in BOOLEAN
  BY DEF IInv, DoorSide, SessionSide
<1> SUFFICES ASSUME settled' PROVE SettledShape'
  BY DEF SettledShape
<1>b. /\ quiet'
      /\ IF quiet THEN settled ELSE D!AtRest
      /\ unlocked' = "no" => lastValue' \in {None, "close"}
  BY DEF Next, Settle
<1>c. page' = "main"
  BY <1>b DEF S!QuietShape
<1>d. Step
  BY DEF Next
<1>e. SettledShape' <=> (unlocked' = "no" => D!AtRest') /\ OpenedOnce'
  BY <1>b DEF SettledShape, OpenedOnce
<1>1. CASE DoorAlone
  <2>1. UNCHANGED <<unlocked, quiet>>
    BY <1>1, DoorAloneFacts
  <2>2. settled
    BY <1>b, <2>1
  <2>3. (unlocked = "no" => D!AtRest) /\ OpenedOnce
    BY <1>a, <2>2 DEF SettledShape, OpenedOnce
  <2>4. unlocked' = "no" => D!AtRest'
    BY <1>1, <1>b, <2>1, <2>3, RestStep
  <2>5. lock = "Unlock" => main # "isUnlock" \/ unlocked # "opened"
    BY <2>3 DEF OpenedOnce
  <2>6. OpenedOnce'
    <3>1. CASE lock = "Unlock"
      BY <1>a, <1>1, <2>3, <2>5, <3>1, OpenedOnceAlone
    <3>2. CASE lock # "Unlock"
      BY <1>1, <3>2, DoorAloneFacts DEF OpenedOnce
    <3> QED
      BY <3>1, <3>2
  <2> QED
    BY <1>e, <2>4, <2>6
<1>2. CASE PassEvent
  <2>1. unlocked' = "granted" /\ quiet' = quiet
    BY <1>2 DEF PassEvent, S!Score
  <2>2. D!AtRest
    BY <1>2, <1>b, <2>1, SettledScore DEF PassEvent
  <2>3. OpenedOnce'
    BY <1>2, <2>1, <2>2 DEF PassEvent, D!onGetPassEvent, D!AtRest, D!AllFree, OpenedOnce
  <2> QED
    BY <1>e, <2>1, <2>3
<1>3. CASE Opening
  <2>1. unlocked' = "opened" /\ quiet
    BY <1>3, <1>b DEF Opening, S!onGetOpenDoorEvent
  <2>2. settled
    BY <1>b, <2>1
  <2>3. OpenedOnce
    BY <1>a, <2>2 DEF SettledShape, OpenedOnce
  <2>4. OpenedOnce'
    BY <1>3, <2>3 DEF Opening, D!IsLockup, D!IsUnlock, OpenedOnce
  <2> QED
    BY <1>e, <2>1, <2>4
<1>4. CASE LockUpEvent
  BY <1>4, <1>b DEF LockUpEvent, S!onGetLockUpEvent
<1>5. CASE SessionAlone
  <2>1. UNCHANGED <<lock, door, lastValue, main, utimer, rtimer, lockUps>>
    BY <1>5, <1>c, SessionAloneDoor
  <2>2. unlocked' = unlocked
    BY <1>a, <1>5, <1>b, SessionAloneFacts DEF SessionAlone
  <2>3. D!AtRest' <=> D!AtRest
    BY <2>1 DEF D!AtRest, D!AllFree
  <2>4. OpenedOnce' <=> OpenedOnce
    BY <2>1, <2>2 DEF OpenedOnce
  <2>5. CASE quiet
    <3>1. (unlocked = "no" => D!AtRest) /\ OpenedOnce
      BY <1>a, <1>b, <2>5 DEF SettledShape, OpenedOnce
    <3> QED
      BY <1>e, <2>2, <2>3, <2>4, <3>1
  <2>6. CASE ~quiet
    <3>1. D!AtRest
      BY <1>b, <2>6
    <3>2. OpenedOnce
      BY <3>1 DEF D!AtRest, OpenedOnce
    <3> QED
      BY <1>e, <2>3, <2>4, <3>1, <3>2
  <2> QED
    BY <1>a, <2>5, <2>6 DEF S!TypeOK
<1> QED
  BY StepCases, <1>d, <1>1, <1>2, <1>3, <1>4, <1>5

-----------------------------------------------------------------------------
LEMMA InitIInv == Init => IInv
<1> SUFFICES ASSUME Init PROVE IInv
  OBVIOUS
<1> USE AccessControlAssumption DEF D!BoundsAssumption, D!TimersAssumption,
        S!PeopleAssumption, S!LimitsAssumption
<1>1. D!TypeOK
  <2>1. opening \in [event: D!Events, siren: BOOLEAN, recorded: BOOLEAN, first: BOOLEAN]
    BY NewOpeningType DEF Init, D!Init
  <2>2. utimer \in [UTimers -> D!USteps] /\ rtimer \in [RTimers -> D!RSteps]
    BY DEF Init, D!Init, D!USteps, D!RSteps
  <2>3. lockUps \in 0..MaxLockUps /\ alarmTimers \in Nat
    BY DEF Init, D!Init
  <2> QED
    BY <2>1, <2>2, <2>3 DEF Init, D!Init, D!TypeOK, D!MainSteps
<1>2. D!Contact /\ Tested
  BY DEF Init, D!Init, D!Contact, D!OpenSteps, Tested
<1>3. S!TypeOK
  <2>1. /\ matches \in Seq([register : BOOLEAN, people : S!Pairs])
        /\ Len(matches) <= MaxMatches
    BY DEF Init, S!Init
  <2>2. posts \in [Posts -> S!Records]
    BY RecordType DEF Init, S!Init, S!Someone
  <2>3. checks \in [CheckTimers -> {"free", "armed", "due"}] /\ pics \in 0..MaxPics
    BY DEF Init, S!Init
  <2> QED
    BY <2>1, <2>2, <2>3 DEF Init, S!Init, S!TypeOK, S!Someone, S!Pairs
<1>4. S!QuietShape
  BY DEF Init, S!Init, S!QuietShape
<1>5. PassGranted /\ Relocking /\ Watched /\ SettledShape /\ settled \in BOOLEAN
  BY DEF Init, D!Init, S!Init, PassGranted, Relocking, Watched, SettledShape
<1> QED
  BY <1>1, <1>2, <1>3, <1>4, <1>5 DEF IInv, DoorSide, SessionSide

LEMMA StepIInv ==
  ASSUME IInv, Next
  PROVE  IInv'
<1>1. DoorStep /\ SessionStep /\ Step
  BY Sides DEF Next
<1>2. DoorSide'
  BY <1>1, DoorTypeStep, ContactStep, TestedStep DEF IInv, DoorSide
<1>3. SessionSide'
  BY <1>1, SessionTypeStep, QuietShapeStep DEF IInv, SessionSide
<1>4. settled' \in BOOLEAN
  BY <1>3, Zenon DEF Next, Settle
<1>5. PassGranted' /\ Relocking' /\ Watched'
  BY <1>1, PassGrantedStep, RelockingStep, WatchedStep
<1>6. SettledShape'
  BY <1>3, SettledStep DEF SessionSide
<1> QED
  BY <1>2, <1>3, <1>4, <1>5, <1>6 DEF IInv

(* The door and the session hold together in every execution: the          *)
(* inductive invariant of the instrument.                                  *)
THEOREM Invariance == Spec => []IInv
<1>1. ASSUME IInv, UNCHANGED vars PROVE IInv'
  <2>1. DoorSide'
    BY <1>1 DEF IInv, DoorSide, Tested, vars, doorVars, D!TypeOK, D!Contact
  <2>2. SessionSide'
    <3>1. S!QuietShape'
      BY <1>1, QuietShapeStep DEF IInv, SessionSide, vars, SessionStep
    <3>2. S!TypeOK'
      BY <1>1, SessionTypeStep DEF IInv, SessionSide, vars, SessionStep
    <3> QED
      BY <3>1, <3>2 DEF SessionSide
  <2> QED
    BY <1>1, <2>1, <2>2 DEF IInv, vars, doorVars, sessionVars, PassGranted, Relocking, Watched,
       SettledShape, D!AtRest, D!AllFree
<1>2. IInv /\ [Next]_vars => IInv'
  BY <1>1, StepIInv
<1> QED
  BY InitIInv, <1>2, PTL DEF Spec

(* Once a score has unlocked the door, and until the activity hears that   *)
(* it is locked again, there is a timer or an undelivered LockUpEvent that *)
(* will say so while the door is shut, whatever the session and the door   *)
(* have been through: illegal openings and crashes of the process too.     *)
THEOREM InstrumentWatched == Spec => []InstrumentInv
<1>1. IInv => InstrumentInv
  BY DEF IInv, DoorSide, SessionSide, Watched, InstrumentInv, TypeOK, GrantWatched
<1> QED
  BY <1>1, Invariance, PTL

(* In a settled session the lock is open only while two people are         *)
(* counted.                                                                *)
THEOREM TwoUnlockTheDoor == Spec => []UnlockedByTwo
<1>1. IInv => UnlockedByTwo
  BY DEF IInv, SessionSide, SettledShape, UnlockedByTwo, S!QuietShape, S!Alone, S!Compared,
     S!Granted, S!Opened, D!AtRest
<1> QED
  BY <1>1, Invariance, PTL

(* A settled session grants a pass that DoorLock calls clean, so all that  *)
(* DoorLock promises after a clean pass is promised to it.                 *)
THEOREM SettledPassClean == Spec => SettledGrantIsClean
<1>1. ASSUME IInv, Next, settled, main = "idle", main' = "pass" PROVE clean'
  <2>1. Step
    BY <1>1 DEF Next
  <2>2. ~DoorAlone
    BY <1>1, DoorAloneFacts
  <2>3. PassEvent
    BY <1>1, <2>1, <2>2, StepCases
       DEF Opening, D!IsLockup, D!IsUnlock, LockUpEvent, D!LockUpDelivered, SessionAlone, DoorRestarts,
           doorVars, D!OutD9Off, D!threads
  <2> QED
    BY <1>1, <2>3, SettledScore DEF PassEvent, D!onGetPassEvent
<1>2. IInv /\ [Next]_vars => [settled /\ main = "idle" /\ main' = "pass" => clean']_vars
  BY <1>1
<1> QED
  BY Invariance, <1>2, PTL DEF Spec, SettledGrantIsClean

(* In a settled session the activity posts a legal opening in the very     *)
(* step in which Door announces it, and so it does with the first opening  *)
(* after the grant when the lock has closed by then; both under the names  *)
(* of the two people who were granted it.                                  *)
THEOREM OpeningsOfGrantRecorded == Spec => OpeningsRecorded
<1> DEFINE Posted ==
       /\ settled
       /\ main \in {"isLockup", "isUnlock"}
       /\ opening'.event = "legal" \/ (opening'.event = "illegal" /\ unlocked = "granted")
       => \E p \in Posts : /\ posts[p] = S!NoRecord
                           /\ posts'[p] = S!Open(granted[1], granted[2])
                           /\ None \notin {granted[1], granted[2]}
<1>1. ASSUME IInv, Next PROVE Posted
  <2> SUFFICES ASSUME settled, main \in {"isLockup", "isUnlock"}, opening'.event # "none",
                      opening'.event = "legal" \/ unlocked = "granted"
               PROVE  Posted
    OBVIOUS
  <2>a. opening.event = "none" /\ D!TypeOK /\ S!TypeOK /\ S!QuietShape /\ SettledShape
    BY <1>1 DEF IInv, DoorSide, SessionSide, Tested
  <2>b. Step
    BY <1>1 DEF Next
  <2>1. ~SessionAlone
    <3>1. ASSUME SessionAlone PROVE FALSE
      <4>1. UNCHANGED opening \/ opening'.event = "none"
        BY <3>1 DEF SessionAlone, DoorRestarts, D!NewOpening, doorVars, D!OutD9Off
      <4> QED
        BY <4>1, <2>a
    <3> QED
      BY <3>1
  <2>2. ~DoorAlone
    <3> SUFFICES ASSUME DoorAlone PROVE FALSE
      OBVIOUS
    <3>1. CASE \/ \E value \in D!Frames : D!FirstFrame(value)
               \/ D!OpenFrame \/ D!CloseFrame \/ D!OtherFrame \/ D!PassDoNext
               \/ D!OpenDoNext \/ D!alarmRecord \/ D!DisposeTimers \/ D!AlarmTimeout
      BY <2>a, <3>1 DEF D!FirstFrame, D!OpenFrame, D!CloseFrame, D!OtherFrame, D!PassDoNext,
         D!OpenDoNext, D!alarmRecord, D!DisposeTimers, D!AlarmTimeout
    <3>2. CASE (D!IsLockup /\ lock # "Lockup") \/ (D!IsUnlock /\ lock # "Unlock")
      BY <2>a, <3>2 DEF D!IsLockup, D!IsUnlock
    <3>3. CASE \E t \in UTimers : D!UBody(t)
      BY <2>a, <3>3 DEF D!UBody, D!UFire, D!ULock, D!UPost
    <3>4. CASE \E t \in RTimers : D!RBody(t)
      BY <2>a, <3>4 DEF D!RBody, D!RFire, D!RLock, D!RDoor, D!RDispose, D!RRecord, D!RPost
    <3> QED
      BY <3>1, <3>2, <3>3, <3>4 DEF DoorAlone
  <2>3. Opening
    BY <2>b, <2>1, <2>2, StepCases DEF PassEvent, D!onGetPassEvent, LockUpEvent,
       D!LockUpDelivered
  <2>4. quiet /\ unlocked = "granted"
    <3>1. CASE D!IsLockup /\ lock = "Lockup"
      <4>1. opening'.event = "illegal"
        BY <2>a, <3>1 DEF D!IsLockup, D!TypeOK
      <4> QED
        BY <2>a, <4>1 DEF SettledShape
    <3>2. CASE D!IsUnlock /\ lock = "Unlock"
      <4>1. unlocked \notin {"no", "opened"}
        BY <2>a, <3>2 DEF SettledShape, D!AtRest
      <4> QED
        BY <2>a, <4>1 DEF SettledShape, S!TypeOK
    <3> QED
      BY <2>3, <3>1, <3>2 DEF Opening
  <2>5. S!Granted
    BY <2>a, <2>4 DEF S!QuietShape, S!Alone, S!Compared, S!Opened
  <2>6. None \notin {user1, user2}
    BY <2>5, AccessControlAssumption
       DEF S!Granted, S!Couple, S!Companions, S!People, S!PeopleAssumption
  <2>7. S!onGetOpenDoorEvent
    BY <2>3 DEF Opening
  <2>8. PICK p \in Posts :
          posts[p] = S!NoRecord /\ posts' = [posts EXCEPT ![p] = S!Open(user1, user2)]
    BY <2>6, <2>7 DEF S!onGetOpenDoorEvent, S!post
  <2>9. posts'[p] = S!Open(granted[1], granted[2]) /\ None \notin {granted[1], granted[2]}
    BY <2>a, <2>5, <2>6, <2>8 DEF S!TypeOK, S!Granted
  <2> QED
    BY <2>8, <2>9
<1>2. IInv /\ [Next]_vars => [Posted]_vars
  BY <1>1
<1> HIDE DEF Posted
<1>3. Spec => [][Posted]_vars
  BY Invariance, <1>2, PTL DEF Spec
<1> QED
  BY <1>3 DEF OpeningsRecorded, Posted

=============================================================================
