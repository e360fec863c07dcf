--------------------------- MODULE Session_proofs ---------------------------
(* Machine-checked proofs about Session.                                   *)
EXTENDS Session, TLAPS

LEMMA RecordType ==
  ASSUME NEW a \in Someone, NEW b \in Someone
  PROVE  /\ Check(a) \in Records
         /\ Open(a, b) \in Records
         /\ NoRecord \in Records
         /\ Check(a) # NoRecord
         /\ Open(a, b) # NoRecord
  BY DEF Check, Open, NoRecord, Records, Pairs, Someone

LEMMA PostType ==
  ASSUME NEW record \in Records, posts \in [Posts -> Records], post(record)
  PROVE  posts' \in [Posts -> Records]
  BY DEF post

LEMMA CompareType ==
  ASSUME NEW a \in Someone, NEW b \in Someone, NEW register \in BOOLEAN,
         TypeOK, IMG_to_IMG(a, b, register)
  PROVE  /\ matches' \in Seq([register : BOOLEAN, people : Pairs])
         /\ Len(matches') <= MaxMatches
<1>1. [register |-> register, people |-> <<a, b>>] \in [register : BOOLEAN, people : Pairs]
  BY DEF Pairs
<1> QED
  BY <1>1, LimitsAssumption DEF TypeOK, IMG_to_IMG

LEMMA TailType ==
  ASSUME TypeOK, matches # <<>>
  PROVE  /\ Tail(matches) \in Seq([register : BOOLEAN, people : Pairs])
         /\ Len(Tail(matches)) <= MaxMatches
         /\ Head(matches) \in [register : BOOLEAN, people : Pairs]
<1> DEFINE M == [register : BOOLEAN, people : Pairs]
<1>1. matches \in Seq(M) /\ Len(matches) \in Nat /\ Len(matches) <= MaxMatches
  BY DEF TypeOK
<1> HIDE DEF M
<1>2. Tail(matches) \in Seq(M) /\ Head(matches) \in M
  BY <1>1
<1>3. Len(Tail(matches)) = Len(matches) - 1
  BY <1>1
<1> QED
  BY <1>1, <1>2, <1>3, LimitsAssumption DEF M

LEMMA CrashType ==
  ASSUME TypeOK, Crash, copy' \in {"none", "uploaded", "kept", "mistaken", "lost"}
  PROVE  TypeOK'
<1>1. /\ matches' \in Seq([register : BOOLEAN, people : Pairs])
      /\ Len(matches') <= MaxMatches
  BY LimitsAssumption DEF Crash
<1>2. posts' \in [Posts -> Records]
  BY RecordType DEF Crash, Someone
<1>3. granted' \in Pairs
  BY DEF Crash, Pairs, Someone
<1>4. checks' \in [CheckTimers -> {"free", "armed", "due"}]
  BY DEF Crash
<1>5. pics' \in 0..MaxPics
  BY LimitsAssumption DEF Crash
<1> QED
  BY <1>1, <1>2, <1>3, <1>4, <1>5 DEF TypeOK, Crash, ForgetPeople, Someone

LEMMA InitType == Init => TypeOK
<1> SUFFICES ASSUME Init PROVE TypeOK
  OBVIOUS
<1>1. /\ matches \in Seq([register : BOOLEAN, people : Pairs])
      /\ Len(matches) <= MaxMatches
  BY LimitsAssumption DEF Init
<1>2. posts \in [Posts -> Records]
  BY RecordType DEF Init, Someone
<1>3. checks \in [CheckTimers -> {"free", "armed", "due"}]
  BY DEF Init
<1>4. pics \in 0..MaxPics
  BY LimitsAssumption DEF Init
<1> QED
  BY <1>1, <1>2, <1>3, <1>4 DEF Init, TypeOK, Someone, Pairs

LEMMA TypeStep ==
  ASSUME TypeOK, [Next]_vars
  PROVE  TypeOK'
<1> USE DEF Someone, People, NoAnswer
<1>1. ASSUME NEW k \in Wardens, FirstWarden(k) PROVE TypeOK'
  <2>1. quiet' \in BOOLEAN
    BY <1>1, Zenon DEF FirstWarden, Undisturbed
  <2>2. granted' \in Pairs
    BY <1>1 DEF FirstWarden, Pairs
  <2> QED
    BY <1>1, <2>1, <2>2 DEF TypeOK, FirstWarden, doNext, engine
<1>2. ASSUME NEW k \in Wardens, SecondWarden(k) PROVE TypeOK'
  <2>1. quiet' \in BOOLEAN
    BY <1>2, Zenon DEF SecondWarden
  <2>2. checks' \in [CheckTimers -> {"free", "armed", "due"}]
    BY <1>2 DEF TypeOK, SecondWarden, dispose
  <2>3. /\ matches' \in Seq([register : BOOLEAN, people : Pairs])
        /\ Len(matches') <= MaxMatches
    BY <1>2, CompareType DEF TypeOK, SecondWarden
  <2> QED
    BY <1>2, <2>1, <2>2, <2>3 DEF TypeOK, SecondWarden
<1>3. ASSUME NEW k \in Patrols, PatrolSecond(k) PROVE TypeOK'
  <2>1. quiet' \in BOOLEAN
    BY <1>3, Zenon DEF PatrolSecond
  <2>2. checks' \in [CheckTimers -> {"free", "armed", "due"}]
    BY <1>3 DEF TypeOK, PatrolSecond, dispose
  <2>3. /\ matches' \in Seq([register : BOOLEAN, people : Pairs])
        /\ Len(matches') <= MaxMatches
    BY <1>3, CompareType DEF TypeOK, PatrolSecond
  <2>4. user2' \in Someone
    BY <1>3 DEF TypeOK, PatrolSecond
  <2> QED
    BY <1>3, <2>1, <2>2, <2>3, <2>4 DEF TypeOK, PatrolSecond
<1>4. ASSUME NEW k \in Patrols \cup Inspectors, CheckPerson(k) PROVE TypeOK'
  <2>1. posts' \in [Posts -> Records]
    BY <1>4, RecordType, PostType DEF TypeOK, CheckPerson
  <2>2. checks' \in [CheckTimers -> {"free", "armed", "due"}]
    BY <1>4 DEF TypeOK, CheckPerson, dispose
  <2> QED
    BY <1>4, <2>1, <2>2 DEF TypeOK, CheckPerson, engine
<1>5. ASSUME NEW t \in CheckTimers, CheckFires(t) PROVE TypeOK'
  BY <1>5 DEF TypeOK, CheckFires, people, engine, history
<1>6. ASSUME NEW t \in CheckTimers, checkRecord(t) PROVE TypeOK'
  <2>1. CASE user1 = None
    BY <1>6, <2>1, CrashType DEF TypeOK, checkRecord
  <2>2. CASE user1 # None
    <3>1. posts' \in [Posts -> Records]
      BY <1>6, <2>2, RecordType, PostType DEF TypeOK, checkRecord
    <3> QED
      BY <1>6, <2>2, <3>1 DEF TypeOK, checkRecord, people, engine
  <2> QED
    BY <2>1, <2>2
<1>7. ASSUME NEW p \in Posts, NEW answer \in Answers, CheckAnswered(p, answer)
      PROVE  TypeOK'
  <2>1. CASE answer # "other" /\ user1 = None
    BY <1>7, <2>1, CrashType DEF TypeOK, CheckAnswered
  <2>2. CASE ~(answer # "other" /\ user1 = None)
    <3>1. posts' \in [Posts -> Records]
      BY <1>7, <2>2, RecordType DEF TypeOK, CheckAnswered
    <3>2. op' \in {"Locking", "OneUnlock", "TwoUnlock"}
      BY <1>7, <2>2 DEF TypeOK, CheckAnswered, CancelOne
    <3>3. user1' \in Someone /\ user2' \in Someone
      BY <1>7, <2>2 DEF TypeOK, CheckAnswered, ForgetPeople, people
    <3> QED
      BY <1>7, <2>2, <3>1, <3>2, <3>3 DEF TypeOK, CheckAnswered, timers, engine
  <2> QED
    BY <2>1, <2>2
<1>8. ASSUME NEW p \in Posts, NEW answer \in Answers, OpenAnswered(p, answer)
      PROVE  TypeOK'
  <2>1. CASE answer = "null" /\ None \in {user1, user2}
    BY <1>8, <2>1, CrashType DEF OpenAnswered
  <2>2. CASE ~(answer = "null" /\ None \in {user1, user2})
    <3>1. posts' \in [Posts -> Records]
      BY <1>8, <2>2, RecordType DEF TypeOK, OpenAnswered
    <3>2. copy' \in {"none", "uploaded", "kept", "mistaken", "lost"}
      BY <1>8, <2>2 DEF OpenAnswered, Answers
    <3> QED
      BY <1>8, <2>2, <3>1, <3>2 DEF TypeOK, OpenAnswered, ForgetPeople, timers, engine
  <2> QED
    BY <2>1, <2>2
<1>9. CASE Score
  <2>1. op' \in {"Locking", "OneUnlock", "TwoUnlock"}
    BY <1>9 DEF TypeOK, Score, doNext
  <2>2. granted' \in Pairs
    BY <1>9, TailType DEF Score, Pairs
  <2> QED
    BY <1>9, <2>1, <2>2, TailType DEF TypeOK, Score, people, timers
<1>10. CASE ScoreElsewhere
  BY <1>10, TailType DEF TypeOK, ScoreElsewhere, people, timers, history
<1>11. CASE recentPic
  BY <1>11, LimitsAssumption DEF TypeOK, recentPic, people, timers, history
<1>12. CASE recentPicAnswered
  <2>1. /\ matches' \in Seq([register : BOOLEAN, people : Pairs])
        /\ Len(matches') <= MaxMatches
    BY <1>12, CompareType DEF TypeOK, recentPicAnswered
  <2> QED
    BY <1>12, <2>1, LimitsAssumption DEF TypeOK, recentPicAnswered, people, timers, history
<1>13. CASE onGetOpenDoorEvent
  <2>1. quiet' \in BOOLEAN
    BY <1>13, Zenon DEF onGetOpenDoorEvent
  <2>2. posts' \in [Posts -> Records]
    BY <1>13, RecordType, PostType DEF TypeOK, onGetOpenDoorEvent
  <2>3. checks' \in [CheckTimers -> {"free", "armed", "due"}]
    BY <1>13 DEF TypeOK, onGetOpenDoorEvent, dispose
  <2>4. op' \in {"Locking", "OneUnlock", "TwoUnlock"}
    BY <1>13 DEF TypeOK, onGetOpenDoorEvent, CancelOne
  <2>5. granted' \in Pairs
    BY <1>13 DEF onGetOpenDoorEvent, Pairs
  <2> QED
    BY <1>13, <2>1, <2>2, <2>3, <2>4, <2>5 DEF TypeOK, onGetOpenDoorEvent, people, engine
<1>14. CASE onGetLockUpEvent
  BY <1>14 DEF TypeOK, onGetLockUpEvent, ForgetPeople, ResetOperation, timers, engine, Pairs
<1>15. CASE onPause
  BY <1>15 DEF TypeOK, onPause, people, engine
<1>16. ASSUME NEW next \in {"main", "reg"}, onResume(next) PROVE TypeOK'
  BY <1>16 DEF TypeOK, onResume, ResetOperation, people, timers, engine, history
<1>17. CASE UNCHANGED vars
  BY <1>17 DEF TypeOK, vars, people, timers, engine, history
<1> QED
  BY <1>1, <1>2, <1>3, <1>4, <1>5, <1>6, <1>7, <1>8, <1>9, <1>10, <1>11, <1>12, <1>13,
     <1>14, <1>15, <1>16, <1>17
     DEF Next, onUser, TimeOut, Answer, EngineAnswer, Pages

\* Every variable of the session keeps its type.
THEOREM TypeCorrect == Spec => []TypeOK
<1> QED
  BY InitType, TypeStep, PTL DEF Spec

\* After a crash nobody is counted and nothing has been unlocked.
LEMMA CrashWatched ==
  ASSUME Crash
  PROVE  NotStuck' /\ TwoMeansUnlocked'
  BY DEF Crash, NotStuck, TwoMeansUnlocked

LEMMA WatchStep ==
  ASSUME TypeOK, NotStuck, TwoMeansUnlocked, [Next]_vars
  PROVE  NotStuck' /\ TwoMeansUnlocked'
<1> USE DEF NotStuck, TwoMeansUnlocked
<1>1. ASSUME NEW k \in Wardens, FirstWarden(k) PROVE NotStuck' /\ TwoMeansUnlocked'
  <2>1. PICK t \in CheckTimers : checks' = [checks EXCEPT ![t] = "armed"]
    BY <1>1 DEF FirstWarden
  <2>2. checks'[t] # "free"
    BY <2>1 DEF TypeOK
  <2> QED
    BY <1>1, <2>2 DEF FirstWarden, doNext
<1>2. ASSUME NEW k \in Wardens, SecondWarden(k) PROVE NotStuck' /\ TwoMeansUnlocked'
  <2>1. /\ matches' = Append(matches, [register |-> FALSE, people |-> <<user1, k>>])
        /\ op' = op /\ op = "OneUnlock"
    BY <1>2 DEF SecondWarden, IMG_to_IMG
  <2>2. Len(matches) + 1 \in DOMAIN matches' /\ ~matches'[Len(matches) + 1].register
    BY <2>1 DEF TypeOK
  <2> QED
    BY <2>1, <2>2
<1>3. ASSUME NEW k \in Patrols, PatrolSecond(k) PROVE NotStuck' /\ TwoMeansUnlocked'
  <2>1. CASE AnotherPerson(k)
    <3>1. /\ matches' = Append(matches, [register |-> FALSE, people |-> <<user1, k>>])
          /\ op' = op /\ op = "OneUnlock"
      BY <1>3, <2>1 DEF PatrolSecond, IMG_to_IMG
    <3>2. Len(matches) + 1 \in DOMAIN matches' /\ ~matches'[Len(matches) + 1].register
      BY <3>1 DEF TypeOK
    <3> QED
      BY <3>1, <3>2
  <2>2. CASE ~AnotherPerson(k)
    <3>1. user1' = user1 /\ op' = op /\ op = "OneUnlock" /\ XungengCanOpen
      BY <1>3 DEF PatrolSecond
    <3>2. user1 \notin Wardens
      BY <2>2, PeopleAssumption DEF AnotherPerson, People
    <3> QED
      BY <3>1, <3>2
  <2> QED
    BY <2>1, <2>2
<1>4. ASSUME NEW k \in Patrols \cup Inspectors, CheckPerson(k)
      PROVE  NotStuck' /\ TwoMeansUnlocked'
  <2>1. PICK p \in Posts : posts' = [posts EXCEPT ![p] = Check(k)]
    BY <1>4 DEF CheckPerson, post
  <2>2. posts'[p].kind = "check"
    BY <2>1 DEF TypeOK, Check
  <2> QED
    BY <1>4, <2>2 DEF CheckPerson
<1>5. ASSUME NEW t \in CheckTimers, CheckFires(t) PROVE NotStuck' /\ TwoMeansUnlocked'
  <2>1. checks'[t] # "free"
    BY <1>5 DEF TypeOK, CheckFires
  <2> QED
    BY <1>5, <2>1 DEF CheckFires, people, engine, history
<1>6. ASSUME NEW t \in CheckTimers, checkRecord(t) PROVE NotStuck' /\ TwoMeansUnlocked'
  <2>1. CASE user1 = None
    BY <1>6, <2>1, CrashWatched DEF checkRecord
  <2>2. CASE user1 # None
    <3>1. PICK p \in Posts : posts' = [posts EXCEPT ![p] = Check(user1)]
      BY <1>6, <2>2 DEF checkRecord, post
    <3>2. posts'[p].kind = "check"
      BY <3>1 DEF TypeOK, Check
    <3> QED
      BY <1>6, <2>2, <3>2 DEF checkRecord
  <2> QED
    BY <2>1, <2>2
<1>7. ASSUME NEW p \in Posts, NEW answer \in Answers, CheckAnswered(p, answer)
      PROVE  NotStuck' /\ TwoMeansUnlocked'
  <2>1. CASE answer # "other" /\ user1 = None
    BY <1>7, <2>1, CrashWatched DEF CheckAnswered
  <2>2. CASE ~(answer # "other" /\ user1 = None)
    BY <1>7, <2>2 DEF TypeOK, CheckAnswered, CancelOne
  <2> QED
    BY <2>1, <2>2
<1>8. ASSUME NEW p \in Posts, NEW answer \in Answers, OpenAnswered(p, answer)
      PROVE  NotStuck' /\ TwoMeansUnlocked'
  <2>1. CASE answer = "null" /\ None \in {user1, user2}
    BY <1>8, <2>1, CrashWatched DEF OpenAnswered
  <2>2. CASE ~(answer = "null" /\ None \in {user1, user2})
    <3>1. /\ posts' = [posts EXCEPT ![p] = NoRecord] /\ posts[p].kind = "open"
          /\ UNCHANGED <<op, page, checks, matches, unlocked>>
          /\ user1' \in {user1, None}
      BY <1>8, <2>2 DEF OpenAnswered, timers, engine, people, ForgetPeople
    <3>2. \A q \in Posts : posts[q].kind = "check" => posts'[q].kind = "check"
      BY <3>1 DEF TypeOK
    <3>3. user1' \in Wardens => user1 \in Wardens
      BY <3>1, PeopleAssumption DEF People
    <3> QED
      BY <3>1, <3>2, <3>3
  <2> QED
    BY <2>1, <2>2
<1>9. CASE Score
  BY <1>9 DEF Score
<1>10. CASE ScoreElsewhere
  BY <1>10 DEF ScoreElsewhere
<1>11. CASE recentPic
  BY <1>11 DEF recentPic, timers
<1>12. CASE recentPicAnswered
  <2>1. /\ UNCHANGED <<op, user1, page, checks, posts, unlocked>>
        /\ \/ matches' = Append(matches, [register |-> TRUE, people |-> <<None, None>>])
           \/ UNCHANGED matches
    BY <1>12 DEF recentPicAnswered, people, timers, IMG_to_IMG
  <2>2. ASSUME NEW i \in DOMAIN matches, ~matches[i].register
        PROVE  i \in DOMAIN matches' /\ ~matches'[i].register
    <3>1. CASE matches' = Append(matches, [register |-> TRUE, people |-> <<None, None>>])
      <4> i \in DOMAIN matches' /\ matches'[i] = matches[i]
        BY <2>2, <3>1 DEF TypeOK
      <4> QED
        BY <2>2
    <3> QED
      BY <2>1, <2>2, <3>1
  <2> QED
    BY <2>1, <2>2
<1>13. CASE onGetOpenDoorEvent
  <2>1. /\ UNCHANGED <<user1, page, matches>>
        /\ unlocked' = IF unlocked = "no" THEN "no" ELSE "opened"
    BY <1>13 DEF onGetOpenDoorEvent, people, engine
  <2>2. CASE None \in {user1, user2}
    BY <1>13, <2>1, <2>2 DEF onGetOpenDoorEvent
  <2>3. CASE None \notin {user1, user2}
    BY <1>13, <2>1, <2>3 DEF onGetOpenDoorEvent, CancelOne
  <2> QED
    BY <2>2, <2>3
<1>14. CASE onGetLockUpEvent
  BY <1>14 DEF onGetLockUpEvent, ResetOperation
<1>15. CASE onPause
  BY <1>15 DEF onPause
<1>16. ASSUME NEW next \in {"main", "reg"}, onResume(next)
       PROVE  NotStuck' /\ TwoMeansUnlocked'
  BY <1>16 DEF onResume, ResetOperation
<1>17. CASE UNCHANGED vars
  BY <1>17 DEF vars, people, timers, engine
<1> QED
  BY <1>1, <1>2, <1>3, <1>4, <1>5, <1>6, <1>7, <1>8, <1>9, <1>10, <1>11, <1>12, <1>13,
     <1>14, <1>15, <1>16, <1>17
     DEF Next, onUser, TimeOut, Answer, EngineAnswer, Pages

\* A post in a quiet session can only carry the couple's record.
LEMMA QuietPosts ==
  ASSUME QuietShape, quiet, NEW p \in Posts, posts[p] # NoRecord
  PROVE  /\ Opened
         /\ Couple
         /\ posts[p] = Open(user1, user2)
  BY DEF QuietShape, Alone, Compared, Granted, Opened, AllPostsFree

LEMMA QuietStep ==
  ASSUME TypeOK, QuietShape, [Next]_vars
  PROVE  QuietShape'
<1> USE PeopleAssumption
<1>1. ASSUME NEW k \in Wardens, FirstWarden(k) PROVE QuietShape'
  <2> SUFFICES ASSUME Undisturbed PROVE QuietShape'
    BY <1>1 DEF FirstWarden, QuietShape
  <2>1. \A t \in CheckTimers : t # checkChange' => checks'[t] = "free"
    BY <1>1 DEF FirstWarden, Undisturbed, TypeOK
  <2>2. Alone'
    BY <1>1 DEF FirstWarden, Undisturbed, doNext, Alone, AllPostsFree, engine
  <2> QED
    BY <1>1, <2>1, <2>2 DEF FirstWarden, Undisturbed, QuietShape, engine
<1>2. ASSUME NEW k \in Wardens, SecondWarden(k) PROVE QuietShape'
  <2> SUFFICES ASSUME quiet, matches = <<>> PROVE QuietShape'
    BY <1>2 DEF SecondWarden, QuietShape
  <2>1. Alone /\ page = "main" /\ pics = 0
    BY <1>2 DEF SecondWarden, QuietShape, Alone, Compared, Granted, Opened
  <2>2. AllChecksFree'
    BY <1>2 DEF SecondWarden, dispose, QuietShape, AllChecksFree
  <2>3. matches' = <<[register |-> FALSE, people |-> <<user1', user2'>>]>>
    BY <1>2 DEF SecondWarden, IMG_to_IMG
  <2>4. Compared'
    BY <1>2, <2>1, <2>2, <2>3
       DEF SecondWarden, AnotherPerson, Alone, Compared, Couple, Companions, AllPostsFree
  <2> QED
    BY <1>2, <2>1, <2>2, <2>4 DEF SecondWarden, QuietShape, AllChecksFree
<1>3. ASSUME NEW k \in Patrols, PatrolSecond(k) PROVE QuietShape'
  <2> SUFFICES ASSUME quiet, matches = <<>>, AnotherPerson(k) PROVE QuietShape'
    BY <1>3 DEF PatrolSecond, QuietShape
  <2>1. Alone /\ page = "main" /\ pics = 0
    BY <1>3 DEF PatrolSecond, QuietShape, Alone, Compared, Granted, Opened
  <2>2. AllChecksFree'
    BY <1>3 DEF PatrolSecond, dispose, QuietShape, AllChecksFree
  <2>3. matches' = <<[register |-> FALSE, people |-> <<user1', user2'>>]>>
    BY <1>3 DEF PatrolSecond, IMG_to_IMG
  <2>4. Compared'
    BY <1>3, <2>1, <2>2, <2>3
       DEF PatrolSecond, AnotherPerson, Alone, Compared, Couple, Companions, AllPostsFree
  <2> QED
    BY <1>3, <2>1, <2>2, <2>4 DEF PatrolSecond, QuietShape, AllChecksFree
<1>4. ASSUME NEW k \in Patrols \cup Inspectors, CheckPerson(k) PROVE QuietShape'
  BY <1>4 DEF CheckPerson, QuietShape
<1>5. ASSUME NEW t \in CheckTimers, CheckFires(t) PROVE QuietShape'
  <2> SUFFICES ASSUME quiet PROVE QuietShape'
    BY <1>5 DEF CheckFires, QuietShape, history
  <2>1. ~AllChecksFree /\ t = checkChange
    BY <1>5 DEF CheckFires, AllChecksFree, QuietShape
  <2>2. Alone
    BY <2>1 DEF QuietShape, Compared, Granted, Opened
  <2>3. Alone'
    BY <1>5, <2>2 DEF CheckFires, Alone, AllPostsFree, people, engine, history
  <2>4. \A u \in CheckTimers : u # checkChange' => checks'[u] = "free"
    BY <1>5, <2>1 DEF CheckFires, QuietShape, TypeOK
  <2> QED
    BY <1>5, <2>3, <2>4 DEF CheckFires, QuietShape, engine
<1>6. ASSUME NEW t \in CheckTimers, checkRecord(t) PROVE QuietShape'
  BY <1>6 DEF checkRecord, Crash, QuietShape
<1>7. ASSUME NEW p \in Posts, NEW answer \in Answers, CheckAnswered(p, answer)
      PROVE  QuietShape'
  <2>1. ~quiet
    BY <1>7, QuietPosts DEF CheckAnswered, NoRecord, Open
  <2> QED
    BY <1>7, <2>1 DEF CheckAnswered, Crash, QuietShape
<1>8. ASSUME NEW p \in Posts, NEW answer \in Answers, OpenAnswered(p, answer)
      PROVE  QuietShape'
  <2> SUFFICES ASSUME quiet PROVE QuietShape'
    BY <1>8 DEF OpenAnswered, Crash, QuietShape
  <2>1. posts[p] # NoRecord
    BY <1>8 DEF OpenAnswered, NoRecord
  <2>2. Opened /\ Couple
    BY <2>1, QuietPosts
  <2>3. None \notin {user1, user2}
    BY <2>2 DEF Couple, Companions, People
  <2>4. /\ posts' = [posts EXCEPT ![p] = NoRecord]
        /\ UNCHANGED <<op, page, checks, checkChange, matches, pics, unlocked>>
    BY <1>8, <2>3 DEF OpenAnswered, timers, engine
  <2>5. \A q \in Posts : posts'[q] = NoRecord
    BY <2>1, <2>2, <2>4 DEF Opened, TypeOK
  <2>6. Opened'
    BY <2>2, <2>4, <2>5 DEF Opened, AllChecksFree
  <2> QED
    BY <2>4, <2>6 DEF QuietShape
<1>9. CASE Score
  <2> SUFFICES ASSUME quiet PROVE QuietShape'
    BY <1>9 DEF Score, QuietShape
  <2>1. Compared
    BY <1>9 DEF Score, QuietShape, Alone, Granted, Opened
  <2>2. matches' = <<>> /\ granted' = <<user1, user2>>
    BY <1>9, <2>1 DEF Score, Compared
  <2>3. op' = "TwoUnlock"
    BY <1>9, <2>1 DEF Score, Compared, doNext
  <2>4. Granted'
    BY <1>9, <2>1, <2>2, <2>3
       DEF Score, Compared, Granted, Couple, AllPostsFree, AllChecksFree, people, timers
  <2> QED
    BY <1>9, <2>4 DEF Score, QuietShape, timers
<1>10. CASE ScoreElsewhere
  BY <1>10 DEF ScoreElsewhere, QuietShape, history
<1>11. CASE recentPic
  BY <1>11 DEF recentPic, QuietShape, history
<1>12. CASE recentPicAnswered
  BY <1>12 DEF recentPicAnswered, QuietShape, history
<1>13. CASE onGetOpenDoorEvent
  <2> SUFFICES ASSUME quiet, unlocked = "granted" PROVE QuietShape'
    BY <1>13 DEF onGetOpenDoorEvent, QuietShape
  <2>1. Granted /\ page = "main" /\ pics = 0
    BY DEF QuietShape, Alone, Compared, Opened
  <2>2. None \notin {user1, user2}
    BY <2>1 DEF Granted, Couple, Companions, People
  <2>3. PICK p \in Posts : posts' = [posts EXCEPT ![p] = Open(user1, user2)]
    BY <1>13, <2>2 DEF onGetOpenDoorEvent, post
  <2>4. op' = "TwoUnlock" /\ unlocked' = "opened" /\ AllChecksFree'
    BY <1>13, <2>1, <2>2 DEF onGetOpenDoorEvent, CancelOne, dispose, Granted, AllChecksFree
  <2>5. \A q \in Posts : posts'[q] # NoRecord => q = p
    BY <2>1, <2>3 DEF Granted, AllPostsFree, TypeOK
  <2>6. posts'[p] = Open(user1, user2) /\ UNCHANGED <<user1, user2>>
    BY <1>13, <2>3 DEF TypeOK, onGetOpenDoorEvent, people
  <2>7. Opened'
    BY <1>13, <2>1, <2>4, <2>5, <2>6
       DEF onGetOpenDoorEvent, Granted, Opened, Couple, Open, engine
  <2> QED
    BY <1>13, <2>1, <2>4, <2>7 DEF onGetOpenDoorEvent, QuietShape, AllChecksFree, engine
<1>14. CASE onGetLockUpEvent
  BY <1>14 DEF onGetLockUpEvent, QuietShape
<1>15. CASE onPause
  BY <1>15 DEF onPause, QuietShape
<1>16. ASSUME NEW next \in {"main", "reg"}, onResume(next) PROVE QuietShape'
  BY <1>16 DEF onResume, QuietShape, history
<1>17. CASE UNCHANGED vars
  BY <1>17 DEF vars, people, timers, engine, history, QuietShape, Alone, Compared, Granted,
     Opened, Couple, Open, AllPostsFree, AllChecksFree
<1> QED
  BY <1>1, <1>2, <1>3, <1>4, <1>5, <1>6, <1>7, <1>8, <1>9, <1>10, <1>11, <1>12, <1>13,
     <1>14, <1>15, <1>16, <1>17
     DEF Next, onUser, TimeOut, Answer, EngineAnswer, Pages

LEMMA InitInv == Init => IInv
<1> SUFFICES ASSUME Init PROVE IInv
  OBVIOUS
<1>1. TypeOK
  BY InitType
<1>2. NotStuck /\ TwoMeansUnlocked /\ QuietShape
  BY DEF Init, NotStuck, TwoMeansUnlocked, QuietShape
<1> QED
  BY <1>1, <1>2 DEF IInv

\* The inductive invariant holds: besides the types, what watches a counted
\* person, and the phase a quiet session is in.
THEOREM Invariance == Spec => []IInv
<1>1. IInv /\ [Next]_vars => IInv'
  BY TypeStep, WatchStep, QuietStep DEF IInv
<1> QED
  BY InitInv, <1>1, PTL DEF Spec

\* A first person counted on the main page is never left without a timer, a
\* comparison, a post or a door event that will move the operation on.
THEOREM NeverStuck == Spec => []NotStuck
<1>1. IInv => NotStuck
  BY DEF IInv
<1> QED
  BY Invariance, <1>1, PTL

\* DoorOpenOperation stands at TwoUnlock only between a score that unlocked the
\* door and the door's LockUpEvent.
THEOREM TwoUnlocked == Spec => []TwoMeansUnlocked
<1>1. IInv => TwoMeansUnlocked
  BY DEF IInv
<1> QED
  BY Invariance, <1>1, PTL

\* In a quiet session the lock is granted once: when a score unlocks it, the
\* door had not been unlocked since the session began.
THEOREM OneGrant == Spec => GrantedOnce
<1>1. ASSUME IInv, quiet, matches # <<>> PROVE unlocked = "no"
  BY <1>1 DEF IInv, QuietShape, Alone, Compared, Granted, Opened
<1>2. IInv /\ [Next]_vars
        => [quiet /\ matches # <<>> /\ matches' = Tail(matches) => unlocked = "no"]_vars
  BY <1>1
<1> QED
  BY Invariance, <1>2, PTL DEF Spec, GrantedOnce

\* In a quiet session the opening is posted under the names of the two different
\* people whose photos were compared.
THEOREM Recorded == Spec => OpeningRecorded
<1> DEFINE Step == quiet /\ unlocked = "granted" /\ unlocked' = "opened" =>
       /\ granted \in Wardens \X (IF XungengCanOpen THEN Wardens \cup Patrols ELSE Wardens)
       /\ granted[1] # granted[2]
       /\ \E p \in Posts : posts[p] = NoRecord /\ posts'[p] = Open(granted[1], granted[2])
<1>1. ASSUME IInv, [Next]_vars PROVE [Step]_vars
  <2> SUFFICES ASSUME quiet, unlocked = "granted", unlocked' = "opened" PROVE Step
    BY DEF IInv
  <2>1. Granted
    BY <1>1 DEF IInv, QuietShape, Alone, Compared, Opened
  <2>2. onGetOpenDoorEvent
    BY <1>1, <2>1
       DEF Next, onUser, FirstWarden, SecondWarden, PatrolSecond, CheckPerson, TimeOut,
           CheckFires, checkRecord, Answer, CheckAnswered, OpenAnswered, EngineAnswer,
           Score, ScoreElsewhere, recentPic, recentPicAnswered, onGetLockUpEvent, Pages,
           onPause, onResume, Crash, vars
  <2>3. None \notin {user1, user2}
    BY <2>1, PeopleAssumption DEF Granted, Couple, Companions, People
  <2>4. PICK p \in Posts :
          posts[p] = NoRecord /\ posts' = [posts EXCEPT ![p] = Open(user1, user2)]
    BY <2>2, <2>3 DEF onGetOpenDoorEvent, post
  <2>5. posts'[p] = Open(granted[1], granted[2])
    BY <1>1, <2>1, <2>4 DEF IInv, TypeOK, Granted
  <2> QED
    BY <2>1, <2>4, <2>5 DEF Granted, Couple, Companions
<1>2. IInv /\ [Next]_vars => [Step]_vars
  BY <1>1
<1> HIDE DEF Step
<1>3. Spec => [][Step]_vars
  BY Invariance, <1>2, PTL DEF Spec
<1> QED
  BY <1>3 DEF OpeningRecorded, Step

\* In a quiet session the row OpenDoor saves when its post fails is the record
\* that failed, and not one built from other people.
THEOREM CopyFaithful == Spec => QuietCopyKept
<1> DEFINE Kept == copy' \in {"none", "uploaded", "kept"}
<1>1. ASSUME IInv, Next, quiet PROVE Kept
  <2>1. NoAnswer \/ \E p \in Posts, answer \in Answers : OpenAnswered(p, answer)
    BY <1>1
       DEF Next, onUser, FirstWarden, SecondWarden, PatrolSecond, CheckPerson, TimeOut,
           CheckFires, checkRecord, Answer, CheckAnswered, EngineAnswer, Score,
           ScoreElsewhere, recentPic, recentPicAnswered, onGetOpenDoorEvent,
           onGetLockUpEvent, Pages, onPause, onResume
  <2>2. ASSUME NEW p \in Posts, NEW answer \in Answers, OpenAnswered(p, answer)
        PROVE  Kept
    <3>1. posts[p] # NoRecord
      BY <2>2 DEF OpenAnswered, NoRecord
    <3>2. Couple /\ posts[p] = Open(user1, user2)
      BY <1>1, <3>1, QuietPosts DEF IInv
    <3>3. None \notin {user1, user2}
      BY <3>2, PeopleAssumption DEF Couple, Companions, People
    <3> QED
      BY <2>2, <3>2, <3>3 DEF OpenAnswered, OfflineCopy
  <2> QED
    BY <2>1, <2>2 DEF NoAnswer
<1>2. IInv /\ [Next]_vars => [quiet => copy' \in {"none", "uploaded", "kept"}]_vars
  BY <1>1
<1> QED
  BY Invariance, <1>2, PTL DEF Spec, QuietCopyKept
=============================================================================
