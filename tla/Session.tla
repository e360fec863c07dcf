------------------------------- MODULE Session -------------------------------
(***************************************************************************)
(* How two people open the door: HebeiMainActivity (with its BaseActivity) *)
(* takes the people the camera recognises, DoorOpenOperation counts them,  *)
(* the face engine compares their two photos, and the score unlocks the    *)
(* door.  A 60 s timer turns a lone warden into a patrol record; the       *)
(* records are posted by threads of their own, whose answers come back to  *)
(* the main thread in any order, or as null when the network fails.        *)
(*                                                                         *)
(* Every handler runs on the main thread to completion, so each is one     *)
(* action.  What the handlers keep across actions, the two people on       *)
(* record, is shared by all of them and captured by none.                  *)
(*                                                                         *)
(* Not here: unknown visitors (unknownPeople), texts, lamps and sounds; the *)
(* infrared variant of the door (isHongWai() is FALSE).  An exception that *)
(* EventBus, FacePresenter or onUser itself catches ends its handler; one  *)
(* that nobody catches ends the process (Crash).                           *)
(***************************************************************************)
EXTENDS Naturals, Sequences, FiniteSets

CONSTANTS
  Wardens,         \* people whose Employer.type is 1 (they open in pairs)
  Patrols,         \* ... is 2
  Inspectors,      \* ... is 3
  CheckTimers,     \* bound: the 60 s timers that can be live at once
  Posts,           \* bound: the posts that can be in flight at once
  MaxMatches,      \* bound: the comparisons queued in the face engine
  MaxPics,         \* bound: the photo requests of the registration page, which
                   \* is not opened at all if there are none
  XungengCanOpen,  \* AppInit.getInstrumentConfig().XungengCanOpen()
  None             \* the null reference

People == Wardens \cup Patrols \cup Inspectors

ASSUME PeopleAssumption ==
  /\ None \notin People \cup CheckTimers
  /\ Wardens \cap (Patrols \cup Inspectors) = {}
  /\ Patrols \cap Inspectors = {}
ASSUME LimitsAssumption ==
  /\ MaxMatches \in Nat
  /\ MaxPics \in Nat
  /\ XungengCanOpen \in BOOLEAN

VARIABLES
  op,           \* DoorOpenOperation.state
  user1,        \* cg_User1.getKeeper()
  user2,        \* cg_User2.getKeeper()
  page,         \* the view of FacePresenter; "none" while no page is resumed,
                \* "down" while the process is not running
  checks,       \* the 60 s timers: "due" once fired, until the looper runs them
  checkChange,  \* BaseActivity.checkChange
  matches,      \* comparisons in the face engine's queue, oldest first
  pics,         \* recentPic requests of the registration page in flight
  posts,        \* the record each posting thread carries
  unlocked,     \* history: has a score unlocked the door since the last LockUpEvent,
                \* and has an opening been announced since that score?
  granted,      \* history: the two people whose score unlocked a quiet session,
                \* until the door opens
  copy,         \* history: what became of the opening record answered in this step
  quiet         \* history: see "Quiet sessions" below

people  == <<user1, user2>>
timers  == <<checks, checkChange>>
engine  == <<matches, pics>>
history == <<granted, quiet>>
vars == <<op, people, page, timers, engine, posts, unlocked, history, copy>>

Someone == People \cup {None}
Pairs == Someone \X Someone
\* What a post or a row of ReUploadWithBsBean says: who checked, or who opened.
Check(a) == [kind |-> "check", people |-> <<a, None>>]
Open(a, b) == [kind |-> "open", people |-> <<a, b>>]
NoRecord == [kind |-> "none", people |-> <<None, None>>]
Records == [kind : {"none", "check", "open"}, people : Pairs]
Answers == {"true", "other", "null"}

TypeOK ==
  /\ op \in {"Locking", "OneUnlock", "TwoUnlock"}
  /\ user1 \in Someone
  /\ user2 \in Someone
  /\ page \in {"main", "reg", "none", "down"}
  /\ checks \in [CheckTimers -> {"free", "armed", "due"}]
  /\ checkChange \in CheckTimers \cup {None}
  /\ matches \in Seq([register : BOOLEAN, people : Pairs])
  /\ Len(matches) <= MaxMatches
  /\ pics \in 0..MaxPics
  /\ posts \in [Posts -> Records]
  /\ unlocked \in {"no", "granted", "opened"}
  /\ granted \in Pairs
  /\ copy \in {"none", "uploaded", "kept", "mistaken", "lost"}
  /\ quiet \in BOOLEAN

Init ==
  /\ op = "Locking"
  /\ user1 = None
  /\ user2 = None
  /\ page = "main"
  /\ checks = [t \in CheckTimers |-> "free"]
  /\ checkChange = None
  /\ matches = <<>>
  /\ pics = 0
  /\ posts = [p \in Posts |-> NoRecord]
  /\ unlocked = "no"
  /\ granted = <<None, None>>
  /\ copy = "none"
  /\ quiet = FALSE

-----------------------------------------------------------------------------
(***************************************************************************)
(* Quiet sessions.  `quiet' is TRUE from the moment a first warden is      *)
(* accepted with nothing left over from earlier sessions, until the door   *)
(* is locked again, if nothing interferes in between: no patrol or         *)
(* inspector, no second comparison, no expired timer, no change of page,   *)
(* no opening that nobody was granted.                                     *)
(***************************************************************************)
Undisturbed == /\ \A t \in CheckTimers : checks[t] = "free"
               /\ \A p \in Posts : posts[p] = NoRecord
               /\ matches = <<>>
               /\ pics = 0
               /\ unlocked = "no"

NoAnswer == copy' = "none"

dispose_Forgotten == UNCHANGED checks

\* checkChange.dispose(): also drops a firing the looper has not run yet.
dispose == checks' = [t \in CheckTimers |-> IF t = checkChange THEN "free" ELSE checks[t]]

doNext_NotCounted(s) == IF s = "Locking" THEN "OneUnlock" ELSE s

\* DoorOpenOperation.doNext().
doNext(s) == CASE s = "Locking"   -> "OneUnlock"
               [] s = "OneUnlock" -> "TwoUnlock"
               [] s = "TwoUnlock" -> "Locking"

\* DoorOpenOperation, where the code resets it only if one person is counted.
CancelOne == op' = IF op = "OneUnlock" THEN "Locking" ELSE op

ForgetPeople == user1' = None /\ user2' = None

\* A thread of ServerConnectionUtil.post takes the record.
post(record) ==
  \E p \in Posts : posts[p] = NoRecord /\ posts' = [posts EXCEPT ![p] = record]

\* Mutant: an engine that is busy drops the comparison.
IMG_to_IMG_IfIdle(a, b, register) ==
  matches' = IF matches = <<>> THEN <<[register |-> register, people |-> <<a, b>>]>> ELSE matches

\* FacePresenter.IMG_to_IMG: the comparison waits in the engine's single thread.
IMG_to_IMG(a, b, register) ==
  /\ Len(matches) < MaxMatches
  /\ matches' = Append(matches, [register |-> register, people |-> <<a, b>>])

\* An uncaught exception on the main thread: every field starts over.
Crash ==
  /\ op' = "Locking"
  /\ ForgetPeople
  /\ page' = "down"
  /\ checks' = [t \in CheckTimers |-> "free"]
  /\ checkChange' = None
  /\ matches' = <<>>
  /\ pics' = 0
  /\ posts' = [p \in Posts |-> NoRecord]
  /\ unlocked' = "no"
  /\ quiet' = FALSE
  /\ granted' = <<None, None>>

-----------------------------------------------------------------------------
(* onUser: the camera recognised somebody, on the main page.               *)

\* A warden while nobody is counted: the 60 s timer starts, and whatever timer
\* checkChange referred to is forgotten.
FirstWarden(k) ==
  /\ page = "main"
  /\ op = "Locking"
  /\ op' = doNext(op)
  /\ user1' = k
  /\ \E t \in CheckTimers :
       /\ checks[t] = "free"
       /\ checks' = [checks EXCEPT ![t] = "armed"]
       /\ checkChange' = t
  /\ quiet' = Undisturbed
  /\ granted' = <<None, None>>
  /\ NoAnswer
  /\ UNCHANGED <<user2, page, engine, posts, unlocked>>

AnotherPerson_Anybody(k) == user1 # None

\* The second person is another one.  (Without a first one the handler fails
\* on the null reference and its catch leaves everything as it was.)
AnotherPerson(k) == user1 # None /\ user1 # k

SecondWarden(k) ==
  /\ page = "main"
  /\ op = "OneUnlock"
  /\ AnotherPerson(k)
  /\ dispose
  /\ user2' = k
  /\ IMG_to_IMG(user1, k, FALSE)
  /\ quiet' = (quiet /\ matches = <<>>)
  /\ NoAnswer
  /\ UNCHANGED <<op, user1, page, checkChange, pics, posts, unlocked, granted>>

\* A patrol may be the second person, where the configuration allows it.
PatrolSecond(k) ==
  /\ XungengCanOpen
  /\ page = "main"
  /\ op = "OneUnlock"
  /\ dispose
  /\ IF AnotherPerson(k)
       THEN /\ user2' = k
            /\ IMG_to_IMG(user1, k, FALSE)
            /\ quiet' = (quiet /\ matches = <<>>)
       ELSE /\ quiet' = FALSE
            /\ UNCHANGED <<user2, matches>>
  /\ NoAnswer
  /\ UNCHANGED <<op, user1, page, checkChange, pics, posts, unlocked, granted>>

\* checkRecord, called for a patrol or an inspector: the first person on record
\* is replaced, whatever session that person had begun.
CheckPerson(k) ==
  /\ page = "main"
  /\ k \in Patrols => ~(XungengCanOpen /\ op = "OneUnlock")
  /\ dispose
  /\ user1' = k
  /\ post(Check(k))
  /\ quiet' = FALSE
  /\ NoAnswer
  /\ UNCHANGED <<op, user2, page, checkChange, engine, unlocked, granted>>

-----------------------------------------------------------------------------
(* The 60 s timer and the answers of the server.                           *)

\* The timer fires on a computation thread and queues its onNext.
CheckFires(t) ==
  /\ checks[t] = "armed"
  /\ checks' = [checks EXCEPT ![t] = "due"]
  /\ NoAnswer
  /\ UNCHANGED <<op, people, page, checkChange, engine, posts, unlocked, history>>

\* onNext: checkRecord(2) for whoever is the first person by then.
checkRecord(t) ==
  /\ checks[t] = "due"
  /\ IF user1 = None
       THEN Crash
       ELSE /\ checks' = [checks EXCEPT ![t] = "free"]
            /\ post(Check(user1))
            /\ quiet' = FALSE
            /\ UNCHANGED <<op, people, page, checkChange, engine, unlocked, granted>>
  /\ NoAnswer

\* The callback of checkRecord.  (The row it saves when there is no answer names
\* the first person by then; no property reads it.)
CheckAnswered(p, answer) ==
  /\ posts[p].kind = "check"
  /\ IF answer # "other" /\ user1 = None
       THEN Crash
       ELSE /\ IF answer = "null" THEN UNCHANGED people ELSE ForgetPeople
            /\ CancelOne
            /\ posts' = [posts EXCEPT ![p] = NoRecord]
            /\ UNCHANGED <<page, timers, engine, unlocked, granted, quiet>>
  /\ NoAnswer

OfflineCopy_Dropped == NoRecord

\* The row OpenDoor saves: built anew from the people on record by now.
OfflineCopy == Open(user1, user2)

\* The callback of OpenDoor.
OpenAnswered(p, answer) ==
  /\ posts[p].kind = "open"
  /\ IF answer = "null" /\ None \in {user1, user2}
       THEN Crash /\ copy' = "lost"
       ELSE /\ copy' = IF answer # "null" THEN "uploaded"
                       ELSE IF OfflineCopy = posts[p] THEN "kept" ELSE "mistaken"
            /\ ForgetPeople
            /\ posts' = [posts EXCEPT ![p] = NoRecord]
            /\ UNCHANGED <<op, page, timers, engine, unlocked, granted, quiet>>

-----------------------------------------------------------------------------
(* onText(IMG_MATCH_IMG_Score): the answer of the face engine.             *)

\* On the main page any score, whatever its value and whoever asked for it,
\* moves the operation on and posts the PassEvent that unlocks the door.
Score ==
  /\ page = "main"
  /\ matches # <<>>
  /\ op' = doNext(op)
  /\ unlocked' = "granted"
  /\ granted' = IF quiet THEN Head(matches).people ELSE <<None, None>>
  /\ matches' = Tail(matches)
  /\ NoAnswer
  /\ UNCHANGED <<people, page, timers, pics, posts, quiet>>

\* On the registration page, or between two pages, it changes nothing.
ScoreElsewhere ==
  /\ page # "main"
  /\ matches # <<>>
  /\ matches' = Tail(matches)
  /\ NoAnswer
  /\ UNCHANGED <<op, people, page, timers, pics, posts, unlocked, history>>

\* HeBeiRegActivity.recentPic asks the server for a photo; the answer may come
\* when another page is shown, and still starts a comparison.
recentPic ==
  /\ page = "reg"
  /\ pics < MaxPics
  /\ pics' = pics + 1
  /\ NoAnswer
  /\ UNCHANGED <<op, people, page, timers, matches, posts, unlocked, history>>

recentPicAnswered_Again ==
  /\ pics' = pics - 1
  /\ NoAnswer
  /\ UNCHANGED <<op, people, page, timers, matches, posts, unlocked, history>>

recentPicAnswered ==
  /\ pics > 0
  /\ pics' = pics - 1
  /\ \/ IMG_to_IMG(None, None, TRUE)
     \/ UNCHANGED matches
  /\ NoAnswer
  /\ UNCHANGED <<op, people, page, timers, posts, unlocked, history>>

-----------------------------------------------------------------------------
(* Events of the door, at any time (module AccessControl says when they     *)
(* come), and the pages.                                                   *)

\* BaseActivity.onGetOpenDoorEvent, of a legal or an illegal opening: the handler does
\* not look.  If a person is missing, OpenDoor fails and EventBus swallows the exception
\* together with the rest of the handler.
onGetOpenDoorEvent ==
  /\ page # "down"
  /\ unlocked' = IF unlocked = "no" THEN "no" ELSE "opened"
  /\ quiet' = (quiet /\ unlocked = "granted")
  /\ IF None \in {user1, user2}
       THEN UNCHANGED <<op, checks, posts>>
       ELSE /\ post(Open(user1, user2))
            /\ dispose
            /\ CancelOne
  /\ granted' = <<None, None>>
  /\ NoAnswer
  /\ UNCHANGED <<people, page, checkChange, engine>>

ResetOperation_Kept == UNCHANGED op
ResetOperation == op' = "Locking"

\* BaseActivity.onGetLockUpEvent: the door is locked again.
onGetLockUpEvent ==
  /\ page # "down"
  /\ unlocked' = "no"
  /\ ForgetPeople
  /\ ResetOperation
  /\ quiet' = FALSE
  /\ granted' = <<None, None>>
  /\ NoAnswer
  /\ UNCHANGED <<page, timers, engine, posts>>

\* bindUntilEvent(PAUSE): leaving the main page ends the timers not yet fired.
onPause ==
  /\ page \in {"main", "reg"}
  /\ page' = "none"
  /\ checks' = [t \in CheckTimers |->
                  IF page = "main" /\ checks[t] = "armed" THEN "free" ELSE checks[t]]
  /\ quiet' = FALSE
  /\ NoAnswer
  /\ UNCHANGED <<op, people, checkChange, engine, posts, unlocked, granted>>

\* HebeiMainActivity.onResume forgets the operation, but not the people.
onResume(next) ==
  /\ next = "reg" => MaxPics > 0
  /\ page = "none" \/ (page = "down" /\ next = "main")
  /\ page' = next
  /\ IF next = "main" THEN ResetOperation ELSE UNCHANGED op
  /\ NoAnswer
  /\ UNCHANGED <<people, timers, engine, posts, unlocked, history>>

-----------------------------------------------------------------------------
onUser == \/ \E k \in Wardens : FirstWarden(k) \/ SecondWarden(k)
          \/ \E k \in Patrols : PatrolSecond(k)
          \/ \E k \in Patrols \cup Inspectors : CheckPerson(k)
TimeOut(t) == CheckFires(t) \/ checkRecord(t)
Answer(p) == \E answer \in Answers : CheckAnswered(p, answer) \/ OpenAnswered(p, answer)
EngineAnswer == Score \/ ScoreElsewhere
Pages == onPause \/ \E next \in {"main", "reg"} : onResume(next)

Next ==
  \/ onUser
  \/ \E t \in CheckTimers : TimeOut(t)
  \/ \E p \in Posts : Answer(p)
  \/ EngineAnswer
  \/ recentPic
  \/ recentPicAnswered
  \/ onGetOpenDoorEvent
  \/ onGetLockUpEvent
  \/ Pages

\* Timers fire, a post ends within its 20 s timeouts, and the engine's thread
\* works its queue off.  Nothing is assumed of the door.
Fairness ==
  /\ \A t \in CheckTimers : SF_vars(TimeOut(t))
  /\ \A p \in Posts : WF_vars(Answer(p))
  /\ WF_vars(EngineAnswer)

Spec == Init /\ [][Next]_vars
FairSpec == Spec /\ Fairness

-----------------------------------------------------------------------------
(* What a session promises.                                                *)

\* On the main page a counted first person is never left without something that
\* will go on: no path through the handlers, the late answers and the events
\* of the door disposes or forgets the last of them.  (Where a patrol may open and is
\* on record alone, or nobody is, onUser disposes the timer first and then fails.)
NotStuck ==
  page = "main" /\ op = "OneUnlock" /\ (XungengCanOpen => user1 \in Wardens) =>
    \/ \E t \in CheckTimers : checks[t] # "free"
    \/ \E i \in DOMAIN matches : ~matches[i].register
    \/ \E p \in Posts : posts[p].kind = "check"
    \/ unlocked # "no"

\* The operation stands at TwoUnlock only while the door has not been reported
\* locked again since a score unlocked it.
TwoMeansUnlocked == op = "TwoUnlock" => unlocked # "no"

\* In a quiet session the lock is granted once.
GrantedOnce ==
  [][quiet /\ matches # <<>> /\ matches' = Tail(matches) => unlocked = "no"]_vars

\* In a quiet session whoever opens the door is recorded, and the record names
\* the two different people whose photos were compared.
OpeningRecorded ==
  [][quiet /\ unlocked = "granted" /\ unlocked' = "opened" =>
       /\ granted \in Wardens \X (IF XungengCanOpen THEN Wardens \cup Patrols ELSE Wardens)
       /\ granted[1] # granted[2]
       /\ \E p \in Posts : posts[p] = NoRecord /\ posts'[p] = Open(granted[1], granted[2])]_vars

\* In a quiet session a record that cannot be uploaded is kept, and the copy is
\* the record that failed.
QuietCopyKept ==
  [][quiet => copy' \in {"none", "uploaded", "kept"}]_vars

\* In every session: "the record cannot be uploaded, check the network, the
\* offline data was saved" (the message OpenDoor shows).
OfflineDataSaved == copy \notin {"mistaken", "lost"}

\* Whatever people, timers, answers and pages do, a counted person is counted no more
\* or unlocks the door (from then on the door must end the operation, and module
\* AccessControl shows that it does), unless the main page stays away or a patrol may
\* open and no warden is on record for him.
OperationEnds ==
  op # "Locking" ~> \/ op = "Locking" \/ unlocked # "no" \/ page # "main"
                    \/ XungengCanOpen /\ op = "OneUnlock" /\ user1 \notin Wardens

-----------------------------------------------------------------------------
(***************************************************************************)
(* The inductive invariant: a quiet session passes through four phases,    *)
(* and in each of them everything the later phases read is determined.     *)
(***************************************************************************)
Companions == IF XungengCanOpen THEN Wardens \cup Patrols ELSE Wardens
AllPostsFree == \A p \in Posts : posts[p] = NoRecord
AllChecksFree == \A t \in CheckTimers : checks[t] = "free"
Couple == user1 \in Wardens /\ user2 \in Companions /\ user1 # user2

Alone == /\ op = "OneUnlock" /\ unlocked = "no" /\ user1 \in Wardens
         /\ matches = <<>> /\ AllPostsFree
Compared == /\ op = "OneUnlock" /\ unlocked = "no" /\ Couple
            /\ matches = <<[register |-> FALSE, people |-> <<user1, user2>>]>>
            /\ AllPostsFree /\ AllChecksFree
Granted == /\ op = "TwoUnlock" /\ unlocked = "granted" /\ Couple
           /\ granted = <<user1, user2>>
           /\ matches = <<>> /\ AllPostsFree /\ AllChecksFree
Opened == /\ op = "TwoUnlock" /\ unlocked = "opened" /\ matches = <<>> /\ AllChecksFree
          /\ \A p \in Posts : posts[p] # NoRecord =>
               Couple /\ posts[p] = Open(user1, user2)
          /\ \A p, q \in Posts : posts[p] # NoRecord /\ posts[q] # NoRecord => p = q

QuietShape ==
  quiet => /\ page = "main"
           /\ pics = 0
           /\ \A t \in CheckTimers : t # checkChange => checks[t] = "free"
           /\ Alone \/ Compared \/ Granted \/ Opened

IInv == TypeOK /\ NotStuck /\ TwoMeansUnlocked /\ QuietShape
=============================================================================
