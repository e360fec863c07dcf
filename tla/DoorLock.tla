------------------------------ MODULE DoorLock ------------------------------
(***************************************************************************)
(* The electric lock of the warehouse door: the singletons Door and Lock   *)
(* and the part of HeBeiService that drives them (onGetPassEvent,          *)
(* onSwitchingText and the bodies of the three timers they start), for an  *)
(* instrument with a door contact (isHongWai() is FALSE).                  *)
(*                                                                         *)
(* Two kinds of thread touch this state without any lock:                  *)
(*   - the main thread, which runs the event handlers to completion, one   *)
(*     at a time: `main' says where it stands inside one;                  *)
(*   - RxJava's computation threads, which run the bodies of the 120 s     *)
(*     timer (unlock_noOpen) and of the 10 s timer (rx_delay): `utimer'    *)
(*     and `rtimer' say where each body stands.                            *)
(* Every read or write of a field that two threads share is a step.        *)
(***************************************************************************)
EXTENDS Naturals, FiniteSets

CONSTANTS
  UTimers,         \* bound: the 120 s timers that can be outstanding at once
  RTimers,         \* bound: the 10 s timers that can be outstanding at once
  MaxAlarmTimers,  \* bound: the 60 s siren timers outstanding at once
  MaxLockUps,      \* bound: the LockUpEvents posted and not yet delivered
  OtherFrames,     \* TRUE if the board also sends frames of other inputs
  DisAlarm,        \* AppInit.getInstrumentConfig().disAlarm()
  None             \* the null reference

ASSUME BoundsAssumption ==
  /\ MaxAlarmTimers \in Nat
  /\ MaxLockUps \in Nat
ASSUME ConfigAssumption ==
  /\ OtherFrames \in BOOLEAN
  /\ DisAlarm \in BOOLEAN
ASSUME TimersAssumption ==
  /\ IsFiniteSet(UTimers)
  /\ IsFiniteSet(RTimers)
  /\ None \notin UTimers \cup RTimers
  /\ None \notin {"open", "close", "other"}

\* Last_Value: the door contact is open, is closed, or the frame says
\* something else ("AAAAAA??????000000" with other bits).
Frames == {"open", "close"} \cup (IF OtherFrames THEN {"other"} ELSE {})

VARIABLES
  lock,           \* Lock.state
  door,           \* Door.mdoorState
  lastValue,      \* HeBeiService.Last_Value
  main,           \* where the main thread stands; "idle" between two handlers
  utimer,         \* the 120 s timers
  rtimer,         \* the 10 s timers
  unlock_noOpen,  \* HeBeiService.unlock_noOpen
  rx_delay,       \* HeBeiService.rx_delay
  alarm,          \* the siren, relay D9
  alarmTimers,    \* 60 s timers of Lock.doNext still to fire
  lockUps,        \* LockUpEvents posted from a timer thread, not delivered
  opening,        \* history: what has been reported of the last Close -> Open
  owed,           \* history: a legal opening has no close record yet
  clean           \* history: see "Clean passes" below

threads == <<main, utimer, rtimer, unlock_noOpen, rx_delay>>
vars == <<lock, door, lastValue, threads, alarm, alarmTimers, lockUps,
          opening, owed, clean>>

OpenSteps  == {"isLockup", "isUnlock", "doNext", "record", "dispose"}
MainSteps  == {"idle", "pass"} \cup OpenSteps
USteps     == {"free", "armed", "fired", "post"}
RSteps     == {"free", "armed", "fired", "door", "dispose", "record", "post"}
Events     == {"none", "legal", "illegal"}

TypeOK ==
  /\ lock \in {"Lockup", "Unlock"}
  /\ door \in {"Open", "Close"}
  /\ lastValue \in Frames \cup {None}
  /\ main \in MainSteps
  /\ utimer \in [UTimers -> USteps]
  /\ rtimer \in [RTimers -> RSteps]
  /\ unlock_noOpen \in UTimers \cup {None}
  /\ rx_delay \in RTimers \cup {None}
  /\ alarm \in BOOLEAN
  /\ alarmTimers \in Nat
  /\ lockUps \in 0..MaxLockUps
  /\ opening \in [event: Events, siren: BOOLEAN, recorded: BOOLEAN,
                 first: BOOLEAN]
  /\ owed \in BOOLEAN
  /\ clean \in BOOLEAN

\* A new opening: nothing of it is reported yet; `first' if the very first
\* frame received already showed the door open.
NewOpening(first) ==
  [event |-> "none", siren |-> FALSE, recorded |-> FALSE, first |-> first]

Init ==
  /\ lock = "Lockup"
  /\ door = "Close"
  /\ lastValue = None
  /\ main = "idle"
  /\ utimer = [t \in UTimers |-> "free"]
  /\ rtimer = [t \in RTimers |-> "free"]
  /\ unlock_noOpen = None
  /\ rx_delay = None
  /\ alarm = FALSE
  /\ alarmTimers = 0
  /\ lockUps = 0
  /\ opening = NewOpening(FALSE)
  /\ owed = FALSE
  /\ clean = TRUE

-----------------------------------------------------------------------------
(***************************************************************************)
(* Clean passes.  `clean' remembers whether the last pass was granted at   *)
(* rest, and whether since then every frame found the two timers either    *)
(* still pending or done with, never half-way through a body.              *)
(***************************************************************************)
AllFree == /\ \A t \in UTimers : utimer[t] = "free"
           /\ \A t \in RTimers : rtimer[t] = "free"
NoneInFlight == /\ \A t \in UTimers : utimer[t] \in {"free", "armed"}
                /\ \A t \in RTimers : rtimer[t] \in {"free", "armed"}
AtRest == /\ AllFree
          /\ lock = "Lockup"
          /\ door = "Close"
          /\ lastValue \in {None, "close"}

dispose_Forgotten(timers, ref) == timers

\* Disposable.dispose(): only a timer that has not fired yet is cancelled.
dispose(timers, ref) ==
  [t \in DOMAIN timers |->
     IF t = ref /\ timers[t] = "armed" THEN "free" ELSE timers[t]]

-----------------------------------------------------------------------------
(* The main thread.                                                        *)

Lock_doNext_NoTimer == alarm' = (lock = "Lockup") /\ UNCHANGED alarmTimers

\* Lock.doNext: the siren goes on while locked, off while unlocked.
Lock_doNext ==
  /\ alarm' = (lock = "Lockup")
  /\ alarmTimers' = IF lock = "Lockup" /\ DisAlarm THEN alarmTimers + 1
                                                   ELSE alarmTimers

\* onGetPassEvent, first statement: two keepers were accepted.
onGetPassEvent ==
  /\ main = "idle"
  /\ alarmTimers < MaxAlarmTimers
  /\ \E t \in UTimers : utimer[t] = "free"
  /\ lock' = "Unlock"
  /\ main' = "pass"
  /\ clean' = AtRest
  /\ owed' = FALSE
  /\ UNCHANGED <<door, lastValue, utimer, rtimer, unlock_noOpen, rx_delay,
                 alarm, alarmTimers, lockUps, opening>>

StartUnlockTimer_NotKept(t) ==
  utimer' = [utimer EXCEPT ![t] = "armed"] /\ UNCHANGED <<unlock_noOpen, rx_delay>>
StartUnlockTimer_WrongField(t) ==
  utimer' = [utimer EXCEPT ![t] = "armed"] /\ rx_delay' = t /\ UNCHANGED unlock_noOpen

\* The 120 s timer; its onSubscribe overwrites unlock_noOpen, which is not disposed.
StartUnlockTimer(t) ==
  /\ utimer' = [utimer EXCEPT ![t] = "armed"]
  /\ unlock_noOpen' = t
  /\ UNCHANGED rx_delay

\* onGetPassEvent, the rest.
PassDoNext ==
  /\ main = "pass"
  /\ Lock_doNext
  /\ \E t \in UTimers :
       utimer[t] = "free" /\ StartUnlockTimer(t)
  /\ main' = "idle"
  /\ UNCHANGED <<lock, door, lastValue, rtimer, lockUps, opening, owed, clean>>

\* onSwitchingText, the first status frame ever received.
FirstFrame(value) ==
  /\ main = "idle"
  /\ lastValue = None
  /\ alarmTimers < MaxAlarmTimers
  /\ lastValue' = value
  /\ IF value = "open"
       THEN /\ door' = "Open"
            /\ main' = "isLockup"
            /\ opening' = NewOpening(TRUE)
            /\ clean' = (clean /\ AllFree)
       ELSE /\ clean' = (clean /\ (value = "close" \/ lock = "Lockup"))
            /\ UNCHANGED <<door, main, opening>>
  /\ UNCHANGED <<lock, utimer, rtimer, unlock_noOpen, rx_delay, alarm,
                 alarmTimers, lockUps, owed>>

\* onSwitchingText, the frame changes to "door open".
OpenFrame ==
  /\ main = "idle"
  /\ lastValue \notin {None, "open"}
  /\ alarmTimers < MaxAlarmTimers
  /\ lastValue' = "open"
  /\ clean' = (clean /\ NoneInFlight)
  /\ IF door = "Close"
       THEN /\ door' = "Open"
            /\ opening' = NewOpening(FALSE)
            /\ main' = "isLockup"
       ELSE /\ main' = "dispose"
            /\ UNCHANGED <<door, opening>>
  /\ UNCHANGED <<lock, utimer, rtimer, unlock_noOpen, rx_delay, alarm,
                 alarmTimers, lockUps, owed>>


\* Door.doNext, first test: a locked door was opened.
IsLockup ==
  /\ main = "isLockup"
  /\ IF lock = "Lockup"
       THEN /\ opening' = [opening EXCEPT !.event = "illegal"]
            /\ main' = "doNext"
       ELSE /\ main' = "isUnlock"
            /\ UNCHANGED opening
  /\ UNCHANGED <<lock, door, lastValue, utimer, rtimer, unlock_noOpen, rx_delay,
                 alarm, alarmTimers, lockUps, owed, clean>>

\* Door.doNext, the else-if, which reads the lock again.
IsUnlock ==
  /\ main = "isUnlock"
  /\ IF lock = "Unlock"
       THEN /\ opening' = [opening EXCEPT !.event = "legal"]
            /\ owed' = TRUE
       ELSE UNCHANGED <<opening, owed>>
  /\ main' = "doNext"
  /\ UNCHANGED <<lock, door, lastValue, utimer, rtimer, unlock_noOpen, rx_delay,
                 alarm, alarmTimers, lockUps, clean>>

\* Door.doNext calls Lock.doNext.
OpenDoNext ==
  /\ main = "doNext"
  /\ Lock_doNext
  /\ opening' = [opening EXCEPT !.siren = (lock = "Lockup")]
  /\ main' = "record"
  /\ UNCHANGED <<lock, door, lastValue, utimer, rtimer, unlock_noOpen, rx_delay,
                 lockUps, owed, clean>>

MustRecord_Always == TRUE
MustRecord_Never == opening.first

\* The record: always for the first frame, else if the lock reads locked.
MustRecord == opening.first \/ lock = "Lockup"

alarmRecord ==
  /\ main = "record"
  /\ opening' = [opening EXCEPT !.recorded = MustRecord]
  /\ main' = IF opening.first THEN "idle" ELSE "dispose"
  /\ UNCHANGED <<lock, door, lastValue, utimer, rtimer, unlock_noOpen, rx_delay,
                 alarm, alarmTimers, lockUps, owed, clean>>

\* The opened door cancels the timers the two fields refer to.
DisposeTimers ==
  /\ main = "dispose"
  /\ utimer' = dispose(utimer, unlock_noOpen)
  /\ rtimer' = dispose(rtimer, rx_delay)
  /\ main' = "idle"
  /\ UNCHANGED <<lock, door, lastValue, unlock_noOpen, rx_delay, alarm,
                 alarmTimers, lockUps, opening, owed, clean>>

StartCloseTimer_Never(t) == UNCHANGED <<rtimer, rx_delay>>

\* The 10 s timer; its onSubscribe overwrites rx_delay.
StartCloseTimer(t) ==
  /\ rtimer' = [rtimer EXCEPT ![t] = "armed"]
  /\ rx_delay' = t

\* onSwitchingText, the frame changes to "door closed".
CloseFrame ==
  /\ main = "idle"
  /\ lastValue \notin {None, "close"}
  /\ lastValue' = "close"
  /\ IF lock = "Unlock"
       THEN \E t \in RTimers :
              /\ rtimer[t] = "free"
              /\ StartCloseTimer(t)
              /\ UNCHANGED door
       ELSE /\ door' = "Close"
            /\ UNCHANGED <<rtimer, rx_delay>>
  /\ UNCHANGED <<lock, main, utimer, unlock_noOpen, alarm, alarmTimers, lockUps,
                 opening, owed, clean>>

\* onSwitchingText, a frame of the other inputs: only Last_Value remembers it.
OtherFrame ==
  /\ main = "idle"
  /\ OtherFrames
  /\ lastValue \notin {None, "other"}
  /\ lastValue' = "other"
  /\ clean' = (clean /\ lock = "Lockup")
  /\ UNCHANGED <<lock, door, threads, alarm, alarmTimers, lockUps, opening, owed>>

\* The 60 s timer of Lock.doNext, delivered on the main thread.
AlarmTimeout ==
  /\ main = "idle"
  /\ alarmTimers > 0
  /\ alarmTimers' = alarmTimers - 1
  /\ alarm' = FALSE
  /\ UNCHANGED <<lock, door, lastValue, threads, lockUps, opening, owed, clean>>

\* HebeiMainActivity.checkRecord turns the siren off whatever the door does.
OutD9Off ==
  /\ main = "idle"
  /\ alarm' = FALSE
  /\ UNCHANGED <<lock, door, lastValue, threads, alarmTimers, lockUps, opening,
                 owed, clean>>

\* EventBus delivers a LockUpEvent on the main thread (its consumer is the UI).
LockUpDelivered ==
  /\ main = "idle"
  /\ lockUps > 0
  /\ lockUps' = lockUps - 1
  /\ UNCHANGED <<lock, door, lastValue, threads, alarm, alarmTimers, opening,
                 owed, clean>>

-----------------------------------------------------------------------------
(* The timer threads.  A timer that has fired can no longer be disposed.   *)

CleanFire == clean' = (clean /\ main \notin OpenSteps)

UFire(t) ==
  /\ utimer[t] = "armed"
  /\ utimer' = [utimer EXCEPT ![t] = "fired"]
  /\ CleanFire
  /\ UNCHANGED <<lock, door, lastValue, main, rtimer, unlock_noOpen, rx_delay,
                 alarm, alarmTimers, lockUps, opening, owed>>

ULock(t) ==
  /\ utimer[t] = "fired"
  /\ utimer' = [utimer EXCEPT ![t] = "post"]
  /\ lock' = "Lockup"
  /\ UNCHANGED <<door, lastValue, main, rtimer, unlock_noOpen, rx_delay, alarm,
                 alarmTimers, lockUps, opening, owed, clean>>

UPost(t) ==
  /\ utimer[t] = "post"
  /\ lockUps < MaxLockUps
  /\ utimer' = [utimer EXCEPT ![t] = "free"]
  /\ lockUps' = lockUps + 1
  /\ UNCHANGED <<lock, door, lastValue, main, rtimer, unlock_noOpen, rx_delay,
                 alarm, alarmTimers, opening, owed, clean>>

RFire(t) ==
  /\ rtimer[t] = "armed"
  /\ rtimer' = [rtimer EXCEPT ![t] = "fired"]
  /\ CleanFire
  /\ UNCHANGED <<lock, door, lastValue, main, utimer, unlock_noOpen, rx_delay,
                 alarm, alarmTimers, lockUps, opening, owed>>

RLock(t) ==
  /\ rtimer[t] = "fired"
  /\ rtimer' = [rtimer EXCEPT ![t] = "door"]
  /\ lock' = "Lockup"
  /\ UNCHANGED <<door, lastValue, main, utimer, unlock_noOpen, rx_delay, alarm,
                 alarmTimers, lockUps, opening, owed, clean>>

ShutDoor_Forgotten == UNCHANGED door

\* Door.setMdoorState(State_Close).
ShutDoor == door' = "Close"

RDoor(t) ==
  /\ rtimer[t] = "door"
  /\ rtimer' = [rtimer EXCEPT ![t] = "dispose"]
  /\ ShutDoor
  /\ UNCHANGED <<lock, lastValue, main, utimer, unlock_noOpen, rx_delay, alarm,
                 alarmTimers, lockUps, opening, owed, clean>>

RDispose(t) ==
  /\ rtimer[t] = "dispose"
  /\ rtimer' = [rtimer EXCEPT ![t] = "record"]
  /\ utimer' = dispose(utimer, unlock_noOpen)
  /\ UNCHANGED <<lock, door, lastValue, main, unlock_noOpen, rx_delay, alarm,
                 alarmTimers, lockUps, opening, owed, clean>>

\* CloseDoorRecord(closeDoorTime).
RRecord(t) ==
  /\ rtimer[t] = "record"
  /\ rtimer' = [rtimer EXCEPT ![t] = "post"]
  /\ owed' = FALSE
  /\ UNCHANGED <<lock, door, lastValue, main, utimer, unlock_noOpen, rx_delay,
                 alarm, alarmTimers, lockUps, opening, clean>>

RPost(t) ==
  /\ rtimer[t] = "post"
  /\ lockUps < MaxLockUps
  /\ rtimer' = [rtimer EXCEPT ![t] = "free"]
  /\ lockUps' = lockUps + 1
  /\ UNCHANGED <<lock, door, lastValue, main, utimer, unlock_noOpen, rx_delay,
                 alarm, alarmTimers, opening, owed, clean>>

-----------------------------------------------------------------------------
(* Handlers run to completion; frames and passes come from outside.        *)
InHandler == \/ PassDoNext
             \/ IsLockup
             \/ IsUnlock
             \/ OpenDoNext
             \/ alarmRecord
             \/ DisposeTimers
UBody(t) == UFire(t) \/ ULock(t) \/ UPost(t)
RBody(t) == \/ RFire(t)
            \/ RLock(t)
            \/ RDoor(t)
            \/ RDispose(t)
            \/ RRecord(t)
            \/ RPost(t)

Next ==
  \/ onGetPassEvent
  \/ \E value \in Frames : FirstFrame(value)
  \/ OpenFrame
  \/ CloseFrame
  \/ OtherFrame
  \/ InHandler
  \/ AlarmTimeout
  \/ OutD9Off
  \/ LockUpDelivered
  \/ \E t \in UTimers : UBody(t)
  \/ \E t \in RTimers : RBody(t)

\* The looper and the computation threads are scheduled: a handler goes on, a
\* posted event is delivered, an armed timer that is not disposed fires.  (The
\* strong fairness of the deliveries says that the looper's queue is FIFO.)
Fairness ==
  /\ WF_vars(InHandler)
  /\ SF_vars(AlarmTimeout)
  /\ SF_vars(LockUpDelivered)
  /\ \A t \in UTimers : SF_vars(UBody(t))
  /\ \A t \in RTimers : SF_vars(RBody(t))

Spec == Init /\ [][Next]_vars
FairSpec == Spec /\ Fairness

-----------------------------------------------------------------------------
(* What the door promises.                                                 *)

\* Every opening found illegal sounds the siren and is recorded, and the siren
\* never sounds for an opening that is not recorded, although Door.doNext,
\* Lock.doNext and onSwitchingText read the lock one after the other while the
\* timer threads write it.
OpeningReported ==
  main = "idle" =>
    /\ opening.event = "illegal" => opening.siren /\ opening.recorded
    /\ opening.siren => opening.recorded

\* After a clean pass the reports of an opening also agree with each other: it
\* is announced, and recorded as an alarm exactly if it is not a legal one.
OpeningAgrees ==
  main = "idle" /\ clean /\ lastValue = "open" =>
    \/ opening.event = "legal" /\ ~opening.siren /\ ~opening.recorded
    \/ opening.event = "illegal" /\ opening.siren /\ opening.recorded

\* After a clean pass a lock that is open while the door is shut is never left
\* without a timer that will lock it: no path of the handlers disposes or
\* forgets the last one.
UnlockWatched ==
  clean /\ main = "idle" /\ lock = "Unlock" /\ lastValue # "open" =>
    \/ \E t \in UTimers : utimer[t] \in {"armed", "fired"}
    \/ \E t \in RTimers : rtimer[t] \in {"armed", "fired"}

\* After a clean pass at most one relock is ever pending, so no timer that the
\* two fields have forgotten can lock the door under a later visitor.
NoForgottenTimer ==
  clean => /\ \A t \in UTimers : utimer[t] = "armed" => t = unlock_noOpen
           /\ \A t \in RTimers : rtimer[t] = "armed" => t = rx_delay
           /\ \A t \in UTimers, r \in RTimers :
                ~(utimer[t] = "armed" /\ rtimer[r] = "armed")

\* After a clean pass the lock never closes under an open door.
RelockShut ==
  [][clean /\ lock = "Unlock" /\ lock' = "Lockup" => lastValue # "open"]_vars

\* After a clean pass a legal opening whose door is shut again always has the
\* timer running that writes its close record.
CloseRecordOwed ==
  clean /\ main = "idle" /\ owed /\ lastValue = "close" =>
    \E t \in RTimers : rtimer[t] \notin {"free", "post"}

\* In every execution: if the contact says shut while Door still says open, the
\* 10 s timer that corrects Door is on its way; nothing disposes it.
OpenStateWatched ==
  lastValue = "close" /\ door = "Open" =>
    \E t \in RTimers : rtimer[t] \in {"armed", "fired", "door"}

\* After a clean pass Door never says shut while the contact says open.
DoorFollowsContact ==
  clean /\ main = "idle" /\ lastValue = "open" => door = "Open"

\* What the three timers owe comes.  A siren that sounds is always silenced, if the
\* configuration asks for it.
SirenSilenced == DisAlarm => (alarm ~> ~alarm)

\* After a clean pass the lock is locked again, unless the door is held open.
Relocked ==
  lock = "Unlock" ~> lock = "Lockup" \/ lastValue = "open" \/ ~clean

\* A shut door is eventually taken for shut.
ShutNoticed == lastValue = "close" ~> door = "Close" \/ lastValue # "close"

\* HeBeiService and Lock.doNext: left alone the instrument comes to rest, locked, shut
\* and silent.
ComesToRest == SirenSilenced /\ Relocked /\ ShutNoticed

-----------------------------------------------------------------------------
(***************************************************************************)
(* The inductive invariant behind these properties, in three parts: how    *)
(* far the report of an opening has come (Reports), what the contact says  *)
(* (Contact), and the shape of the whole state after a clean pass, when at *)
(* most one timer is not free (CleanShape, CleanReports).                  *)
(***************************************************************************)
Reports ==
  /\ main = "isLockup" => opening.event = "none" /\ ~opening.siren
  /\ main = "isUnlock" => opening.event = "none" /\ ~opening.siren
  /\ main = "doNext" => ~opening.siren /\ (opening.event = "illegal" => lock = "Lockup")
  /\ main = "record" => /\ opening.event = "illegal" => opening.siren
                        /\ opening.siren => lock = "Lockup"
  /\ main \notin {"isLockup", "isUnlock", "doNext", "record"} =>
       /\ opening.event = "illegal" => opening.siren /\ opening.recorded
       /\ opening.siren => opening.recorded

Contact ==
  /\ main \in OpenSteps => lastValue = "open"
  /\ lastValue = None => door = "Close"

OnlyU(t) == /\ \A s \in UTimers : s # t => utimer[s] = "free"
            /\ \A r \in RTimers : rtimer[r] = "free"
OnlyR(t) == /\ \A s \in RTimers : s # t => rtimer[s] = "free"
            /\ \A u \in UTimers : utimer[u] = "free"

ShapeFree ==
  /\ AllFree
  /\ \/ /\ lock = "Unlock" /\ main = "pass" /\ ~owed
        /\ lastValue \in {None, "close"} /\ door = "Close"
     \/ /\ lock = "Unlock" /\ main = "idle"
        /\ lastValue = "open" /\ door = "Open"
     \/ /\ lock = "Lockup" /\ main # "pass" /\ ~owed
        /\ lastValue = "open" => door = "Open"

ShapeU(t) ==
  /\ OnlyU(t)
  /\ t = unlock_noOpen
  /\ \/ /\ utimer[t] \in {"armed", "fired"} /\ lock = "Unlock" /\ main = "idle"
        /\ lastValue \in {None, "close"} /\ door = "Close" /\ ~owed
     \/ /\ utimer[t] = "armed" /\ lock = "Unlock" /\ main \in OpenSteps
        /\ lastValue = "open" /\ door = "Open"
     \/ /\ utimer[t] = "post" /\ lock = "Lockup" /\ main = "idle"
        /\ lastValue # "open" /\ ~owed

ShapeR(t) ==
  /\ OnlyR(t)
  /\ t = rx_delay
  /\ \/ /\ rtimer[t] \in {"armed", "fired"} /\ lock = "Unlock" /\ main = "idle"
        /\ lastValue = "close" /\ door = "Open"
     \/ /\ rtimer[t] = "armed" /\ lock = "Unlock" /\ main = "dispose"
        /\ lastValue = "open" /\ door = "Open"
     \/ /\ rtimer[t] \in {"door", "dispose", "record", "post"}
        /\ lock = "Lockup" /\ main = "idle" /\ lastValue # "open"
        /\ rtimer[t] = "post" => ~owed

CleanShape ==
  clean => \/ ShapeFree
           \/ \E t \in UTimers : ShapeU(t)
           \/ \E t \in RTimers : ShapeR(t)

Legal   == opening.event = "legal" /\ ~opening.siren /\ ~opening.recorded
Illegal == opening.event = "illegal" /\ opening.siren /\ opening.recorded

CleanReports ==
  clean /\ door = "Open" =>
    /\ main = "isUnlock" => lock = "Unlock"
    /\ main \in {"isLockup", "isUnlock", "doNext"} => ~opening.recorded
    /\ main = "doNext" => opening.event = IF lock = "Unlock" THEN "legal" ELSE "illegal"
    /\ main = "record" => /\ opening.event = IF lock = "Unlock" THEN "legal" ELSE "illegal"
                          /\ opening.siren = (lock = "Lockup")
                          /\ opening.first => lock = "Lockup"
    /\ main \in {"isLockup", "isUnlock", "doNext", "record"} /\ opening.first =>
         lock = "Lockup"
    /\ main \in {"idle", "dispose"} => Legal \/ Illegal

IInv == /\ TypeOK
        /\ Reports
        /\ Contact
        /\ OpenStateWatched
        /\ CleanShape
        /\ CleanReports
=============================================================================
