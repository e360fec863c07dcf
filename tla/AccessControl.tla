---------------------------- MODULE AccessControl ----------------------------
(***************************************************************************)
(* The instrument as one process: the session of two people (Session) and  *)
(* the electric lock with its door contact (DoorLock), joined by EventBus. *)
(* An event posted on the main thread is delivered at once, inside the     *)
(* poster's handler: PassEvent by onText, OpenDoorEvent by Door.doNext.    *)
(* LockUpEvent is posted by the timer threads and waits for the looper.    *)
(* So an event is one joint step of both sides.                            *)
(***************************************************************************)
EXTENDS Naturals, Sequences, FiniteSets

CONSTANTS
  UTimers, RTimers, MaxAlarmTimers, MaxLockUps, OtherFrames, DisAlarm,
  Wardens, Patrols, Inspectors, CheckTimers, Posts, MaxMatches, MaxPics,
  XungengCanOpen, None

VARIABLES
  lock, door, lastValue, main, utimer, rtimer, unlock_noOpen, rx_delay,
  alarm, alarmTimers, lockUps, opening, owed, clean,
  op, user1, user2, page, checks, checkChange, matches, pics, posts,
  unlocked, granted, copy, quiet,
  settled  \* history: see "Settled sessions" below

D == INSTANCE DoorLock
S == INSTANCE Session

doorVars == <<lock, door, lastValue, main, utimer, rtimer, unlock_noOpen, rx_delay,
              alarm, alarmTimers, lockUps, opening, owed, clean>>
sessionVars == <<op, user1, user2, page, checks, checkChange, matches, pics, posts,
                 unlocked, granted, quiet>>
vars == <<doorVars, sessionVars, copy, settled>>

SessionUnchanged == UNCHANGED sessionVars /\ S!NoAnswer

\* What the two modules assume of their constants.
ASSUME AccessControlAssumption ==
  /\ D!BoundsAssumption /\ D!ConfigAssumption /\ D!TimersAssumption
  /\ S!PeopleAssumption /\ S!LimitsAssumption

TypeOK == D!TypeOK /\ S!TypeOK /\ settled \in BOOLEAN

Init == D!Init /\ S!Init /\ settled = FALSE

-----------------------------------------------------------------------------
(***************************************************************************)
(* Settled sessions.  A quiet session is settled if it began while the     *)
(* door was at rest and the door stayed shut until the lock was granted.   *)
(***************************************************************************)
Settle ==
  settled' = /\ quiet'
             /\ IF quiet THEN settled ELSE D!AtRest
             /\ unlocked' = "no" => lastValue' \in {None, "close"}

\* The process died with an uncaught exception: the door's state starts over.
DoorRestarts ==
  /\ lock' = "Lockup"
  /\ door' = "Close"
  /\ lastValue' = None
  /\ main' = "idle"
  /\ utimer' = [t \in UTimers |-> "free"]
  /\ rtimer' = [t \in RTimers |-> "free"]
  /\ unlock_noOpen' = None
  /\ rx_delay' = None
  /\ alarm' = FALSE
  /\ alarmTimers' = 0
  /\ lockUps' = 0
  /\ opening' = D!NewOpening(FALSE)
  /\ owed' = FALSE
  /\ clean' = TRUE

\* A handler of the session that the door does not see.
SessionOnly(A) ==
  /\ main = "idle"
  /\ A
  /\ IF page' = "down" THEN DoorRestarts ELSE UNCHANGED doorVars

\* A handler that calls checkRecord, which first turns the siren off.
WithOutD9Off(A) ==
  /\ main = "idle"
  /\ A
  /\ IF page' = "down" THEN DoorRestarts ELSE D!OutD9Off

\* A step of the door that the session does not see.
DoorOnly(A) == page # "down" /\ A /\ SessionUnchanged

-----------------------------------------------------------------------------
(* The joint steps.                                                        *)

PassEvent_Lost == S!Score /\ main = "idle" /\ UNCHANGED doorVars

\* onText posts the PassEvent; HeBeiService.onGetPassEvent runs inside it.
PassEvent == S!Score /\ D!onGetPassEvent

\* Mutant: the event of a legal opening reaches nobody.
OpenDoorEvent_Lost ==
  \/ D!IsLockup /\ (IF lock = "Lockup" THEN S!onGetOpenDoorEvent ELSE SessionUnchanged)
  \/ D!IsUnlock /\ SessionUnchanged

\* Mutant: the event of an illegal opening reaches nobody.
OpenDoorEvent_LegalOnly ==
  \/ D!IsLockup /\ SessionUnchanged
  \/ D!IsUnlock /\ (IF lock = "Unlock" THEN S!onGetOpenDoorEvent ELSE SessionUnchanged)

\* Door.doNext posts an OpenDoorEvent if one of its two tests succeeds, for an illegal
\* opening or a legal one, and the activity handles both alike inside the post.
OpenDoorEvent ==
  \/ D!IsLockup /\ (IF lock = "Lockup" THEN S!onGetOpenDoorEvent ELSE SessionUnchanged)
  \/ D!IsUnlock /\ (IF lock = "Unlock" THEN S!onGetOpenDoorEvent ELSE SessionUnchanged)

\* The LockUpEvent of a timer thread reaches the activity.
LockUpEvent == D!LockUpDelivered /\ S!onGetLockUpEvent

\* (Bound: an opening is handled only while a post can be made of it.)
PostPossible == \E p \in Posts : posts[p] = S!NoRecord

Frame ==
  \/ \E value \in D!Frames : PostPossible /\ DoorOnly(D!FirstFrame(value))
  \/ PostPossible /\ DoorOnly(D!OpenFrame)
  \/ DoorOnly(D!CloseFrame)
  \/ DoorOnly(D!OtherFrame)

Handler ==
  \/ OpenDoorEvent
  \/ DoorOnly(D!PassDoNext \/ D!OpenDoNext \/ D!alarmRecord \/ D!DisposeTimers)

onUser ==
  \/ \E k \in Wardens : SessionOnly(S!FirstWarden(k) \/ S!SecondWarden(k))
  \/ \E k \in Patrols : SessionOnly(S!PatrolSecond(k))
  \/ \E k \in Patrols \cup Inspectors : WithOutD9Off(S!CheckPerson(k))

CheckTimer(t) ==
  \/ S!CheckFires(t) /\ UNCHANGED doorVars
  \/ WithOutD9Off(S!checkRecord(t))

EngineAnswer == PassEvent \/ SessionOnly(S!ScoreElsewhere)

Step ==
  \/ Frame
  \/ Handler
  \/ DoorOnly(D!AlarmTimeout)
  \/ \E t \in UTimers : DoorOnly(D!UBody(t))
  \/ \E t \in RTimers : DoorOnly(D!RBody(t))
  \/ LockUpEvent
  \/ onUser
  \/ \E t \in CheckTimers : CheckTimer(t)
  \/ \E p \in Posts : SessionOnly(S!Answer(p))
  \/ EngineAnswer
  \/ SessionOnly(S!recentPic \/ S!recentPicAnswered)
  \/ SessionOnly(S!Pages)

Next == Step /\ Settle

\* The looper's queue is FIFO and the computation threads run: what can happen
\* again and again happens.  Nothing is assumed of people, frames, pages or the server.
Fairness ==
  /\ WF_vars(Handler /\ Settle)
  /\ \A t \in UTimers : SF_vars(DoorOnly(D!UBody(t)) /\ Settle)
  /\ \A t \in RTimers : SF_vars(DoorOnly(D!RBody(t)) /\ Settle)
  /\ SF_vars(LockUpEvent /\ Settle)

Spec == Init /\ [][Next]_vars
FairSpec == Spec /\ Fairness

-----------------------------------------------------------------------------
(* What the whole promises.                                                *)

\* In every execution: once a score has unlocked the door, a timer or an undelivered
\* event will report it locked again, unless the door is not shut.  Openings, illegal ones
\* too, answers and pages in between dispose or forget nothing of that.
GrantWatched ==
  main = "idle" /\ unlocked # "no" /\ lastValue \in {None, "close"} =>
    \/ lockUps > 0
    \/ \E t \in UTimers : utimer[t] # "free"
    \/ \E t \in RTimers : rtimer[t] # "free"

\* The session and the door as one instrument.
InstrumentInv == TypeOK /\ GrantWatched

\* A settled session grants a clean pass, the premise of what DoorLock promises.
SettledGrantIsClean ==
  [][settled /\ main = "idle" /\ main' = "pass" => clean']_vars

\* In a settled session the lock is open only while two people are counted.
UnlockedByTwo == settled /\ lock = "Unlock" => op = "TwoUnlock"

\* In a settled session every legal opening that Door announces, and the first opening
\* after the grant even if the lock has closed again by then, is posted in the name of the
\* two people who were granted it.
OpeningsRecorded ==
  [][/\ settled
     /\ main \in {"isLockup", "isUnlock"}
     /\ opening'.event = "legal" \/ (opening'.event = "illegal" /\ unlocked = "granted")
     => \E p \in Posts : /\ posts[p] = S!NoRecord
                         /\ posts'[p] = S!Open(granted[1], granted[2])
                         /\ None \notin {granted[1], granted[2]}]_vars

\* Once a score has unlocked the door, the operation is brought back to its start,
\* unless the door is kept open: what module Session leaves to the door.
GrantEnds ==
  unlocked # "no" ~> \/ unlocked = "no" /\ op = "Locking"
                     \/ lastValue \notin {None, "close"}

-----------------------------------------------------------------------------
(***************************************************************************)
(* The inductive invariant.  Invariants of the two sides are part of it,   *)
(* with what only the whole can say: how a lock that is to be reported     *)
(* (Relocking), a pass (PassGranted) and a settled session (SettledShape)  *)
(* tie the door to the operation.                                          *)
(***************************************************************************)
Tested == main \in {"isLockup", "isUnlock"} => opening.event = "none"
DoorSide == D!TypeOK /\ D!Contact /\ Tested
SessionSide == S!TypeOK /\ S!QuietShape

\* A process that is not running counts nobody, and a pass is one of the session.
PassGranted == /\ page = "down" => op = "Locking" /\ unlocked = "no"
               /\ main = "pass" => unlocked # "no"

\* A lock that was closed after a grant has its LockUpEvent to come.
Relocking ==
  unlocked # "no" /\ lock = "Lockup" =>
    \/ lockUps > 0
    \/ \E t \in UTimers : utimer[t] = "post"
    \/ \E t \in RTimers : rtimer[t] \in {"door", "dispose", "record", "post"}

\* GrantWatched, outside the handler of a pass.
Watched ==
  unlocked # "no" /\ main # "pass" /\ lastValue \in {None, "close"} =>
    \/ lockUps > 0
    \/ \E t \in UTimers : utimer[t] # "free"
    \/ \E t \in RTimers : rtimer[t] # "free"

\* The door rests until the grant; from then on it has been opened at most once.
SettledShape ==
  settled =>
    /\ quiet
    /\ unlocked = "no" => D!AtRest
    /\ lock = "Unlock" =>
         /\ \A t \in RTimers : rtimer[t] \in {"free", "armed", "fired"}
         /\ unlocked = "opened" => door = "Open" /\ main \notin {"isLockup", "isUnlock"}
         /\ main \in {"isLockup", "isUnlock"} => door = "Open"

IInv == /\ DoorSide /\ SessionSide /\ settled \in BOOLEAN
        /\ PassGranted /\ Relocking /\ Watched /\ SettledShape
=============================================================================
