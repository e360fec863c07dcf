------------------------------ MODULE EventLock ------------------------------
(***************************************************************************)
(* Who handles the events of a libusb context (libusb/io.c, core.c,        *)
(* sync.c): libuvc's event thread and the threads in a synchronous         *)
(* transfer compete for events_lock; the losers sleep on event_waiters_cond*)
(* until a transfer completes or the handler stops.  A thread that opens   *)
(* or closes a device pushes the handler off the lock with pollfd_modify   *)
(* and a byte in the control pipe.                                         *)
(*                                                                         *)
(* The pthread mutex events_lock is recursive.  What happens under         *)
(* event_waiters_lock is one step where nobody else can tell.  The kernel  *)
(* is external: a URB completes at some time.  Timeouts may end a sleep,   *)
(* a poll or a transfer, and no property relies on them.                   *)
(***************************************************************************)
EXTENDS Naturals, FiniteSets

CONSTANTS
  Callers,     \* threads that make synchronous transfers
  Event,       \* libuvc's event thread
  Closer,      \* the thread that opens and closes devices
  None,
  MaxChanges,  \* bound: devices opened or closed beside the last one
  WriteFails   \* writing the control pipe may fail

ASSUME EventLockAssumption ==
  /\ IsFiniteSet(Callers)
  /\ Event # Closer /\ {Event, Closer} \cap Callers = {}
  /\ None \notin Callers \cup {Event, Closer}
  /\ MaxChanges \in Nat
  /\ WriteFails \in BOOLEAN

VARIABLES
  pc,                    \* pc[t]: where thread t is
  owner, depth,          \* events_lock
  event_handler_active,
  pollfd_modify,
  ctrl_pipe,             \* bytes in the control pipe
  waiters_lock,          \* the owner of event_waiters_lock
  urb,                   \* urb[c]: the URB of caller c's transfer
  completed,             \* completed[c]: the flag its callback sets
  timed_out,             \* the callers whose transfer has been timed out
  kill_handler_thread,
  task, changes,         \* what the closer is about, and how often it was
  write_failed           \* history: the control pipe could not be written

locks == <<owner, depth>>
transfers == <<urb, completed, timed_out>>
closing == <<kill_handler_thread, task, changes, write_failed>>
vars == <<pc, locks, event_handler_active, pollfd_modify, ctrl_pipe, waiters_lock,
          transfers, closing>>

Handlers == Callers \cup {Event}

HandlerSteps == {"idle", "test", "begin", "try", "trylock", "active", "check", "poll",
                 "reap", "told", "unlock", "release", "tell", "waiters", "modify?",
                 "active?", "asleep", "woken", "ended"}
CloserSteps == {"idle", "notify", "write", "lock", "locked", "read", "doLock", "doLocked",
                "doUnlock", "doRelease", "doTell", "close", "unmodify", "unlock",
                "release", "tell", "join", "ended"}

TypeOK ==
  /\ pc \in [Handlers \cup {Closer} -> HandlerSteps \cup CloserSteps]
  /\ \A h \in Handlers : pc[h] \in HandlerSteps
  /\ pc[Closer] \in CloserSteps
  /\ owner \in Handlers \cup {Closer, None}
  /\ depth \in 0..2 /\ (depth = 0 <=> owner = None)
  /\ event_handler_active \in BOOLEAN
  /\ pollfd_modify \in 0..1 /\ ctrl_pipe \in 0..1
  /\ waiters_lock \in Handlers \cup {None}
  /\ urb \in [Callers -> {"none", "kernel", "done"}]
  /\ completed \in [Callers -> BOOLEAN]
  /\ timed_out \subseteq Callers
  /\ kill_handler_thread \in BOOLEAN
  /\ task \in {"none", "open", "close", "last"}
  /\ changes \in 0..MaxChanges
  /\ write_failed \in BOOLEAN

Init ==
  /\ pc = [t \in Handlers \cup {Closer} |-> IF t = Event THEN "test" ELSE "idle"]
  /\ owner = None /\ depth = 0
  /\ event_handler_active = FALSE
  /\ pollfd_modify = 0 /\ ctrl_pipe = 0
  /\ waiters_lock = None
  /\ urb = [c \in Callers |-> "none"]
  /\ completed = [c \in Callers |-> FALSE]
  /\ timed_out = {}
  /\ kill_handler_thread = FALSE
  /\ task = "none" /\ changes = 0 /\ write_failed = FALSE

Go(t, from, to) == pc[t] = from /\ pc' = [pc EXCEPT ![t] = to]

-----------------------------------------------------------------------------
(* libusb_unlock_events, in three steps, and the broadcast on              *)
(* event_waiters_cond.                                                     *)

Told(t, to) ==
  [h \in DOMAIN pc |-> IF h = t THEN to ELSE IF pc[h] = "asleep" THEN "woken" ELSE pc[h]]

Broadcast(t, from, to) ==
  /\ pc[t] = from
  /\ waiters_lock = None
  /\ pc' = Told(t, to)
  /\ UNCHANGED <<locks, event_handler_active, pollfd_modify, ctrl_pipe, waiters_lock, transfers>>

ClearActive(t, from, to) ==
  /\ Go(t, from, to)
  /\ event_handler_active' = FALSE
  /\ UNCHANGED <<locks, pollfd_modify, ctrl_pipe, waiters_lock, transfers, closing>>

\* Mutant: the lock is not recursive.
ReleaseLock_Flat(t, from, to) ==
  /\ Go(t, from, to)
  /\ depth' = 0 /\ owner' = None
  /\ UNCHANGED <<event_handler_active, pollfd_modify, ctrl_pipe, waiters_lock, transfers, closing>>

ReleaseLock(t, from, to) ==
  /\ Go(t, from, to)
  /\ depth' = depth - 1
  /\ owner' = IF depth = 1 THEN None ELSE owner
  /\ UNCHANGED <<event_handler_active, pollfd_modify, ctrl_pipe, waiters_lock, transfers, closing>>

\* libusb_lock_events, in two steps.
TakeLock(t, from, to) ==
  /\ owner \in {t, None}
  /\ Go(t, from, to)
  /\ owner' = t /\ depth' = depth + 1
  /\ UNCHANGED <<event_handler_active, pollfd_modify, ctrl_pipe, waiters_lock, transfers, closing>>

SetActive(t, from, to) ==
  /\ Go(t, from, to)
  /\ event_handler_active' = TRUE
  /\ UNCHANGED <<locks, pollfd_modify, ctrl_pipe, waiters_lock, transfers, closing>>

-----------------------------------------------------------------------------
(* A caller: libusb_control_transfer submits a transfer and handles events *)
(* until the callback has set completed.  The event thread goes on until   *)
(* uvc_close tells it to end.                                              *)

libusb_control_transfer(c) ==
  /\ ~kill_handler_thread
  /\ Go(c, "idle", "test")
  /\ urb' = [urb EXCEPT ![c] = "kernel"]
  /\ completed' = [completed EXCEPT ![c] = FALSE]
  /\ timed_out' = timed_out \ {c}
  /\ UNCHANGED <<locks, event_handler_active, pollfd_modify, ctrl_pipe, waiters_lock, closing>>

TestCompleted(c) ==
  /\ Go(c, "test", IF completed[c] THEN "idle" ELSE "begin")
  /\ UNCHANGED <<locks, event_handler_active, pollfd_modify, ctrl_pipe, waiters_lock, transfers,
                 closing>>

_uvc_handle_events ==
  /\ Go(Event, "test", IF kill_handler_thread THEN "ended" ELSE "begin")
  /\ UNCHANGED <<locks, event_handler_active, pollfd_modify, ctrl_pipe, waiters_lock, transfers,
                 closing>>

\* The kernel completes a URB, perhaps because it has been discarded.
KernelCompletes(c) ==
  /\ urb[c] = "kernel"
  /\ urb' = [urb EXCEPT ![c] = "done"]
  /\ UNCHANGED <<pc, locks, event_handler_active, pollfd_modify, ctrl_pipe, waiters_lock,
                 completed, timed_out, closing>>

-----------------------------------------------------------------------------
(* libusb_handle_events_timeout_completed.                                 *)

\* The flag is looked at where one was given.
Done(h) == h \in Callers /\ completed[h]

\* A transfer is timed out once (handle_timeouts_locked).
Expired == {c \in Callers \ timed_out : urb[c] # "none"}
handle_timeouts == \E s \in SUBSET Expired : timed_out' = timed_out \cup s

\* get_next_timeout says that a timeout has expired already.
TimeoutExpired(h) ==
  /\ Expired # {}
  /\ Go(h, "begin", "test")
  /\ \E c \in Expired : timed_out' = timed_out \cup {c}
  /\ UNCHANGED <<locks, event_handler_active, pollfd_modify, ctrl_pipe, waiters_lock,
                 urb, completed, closing>>

\* Mutant: a thread that wants the lock does not look at pollfd_modify.
TryModify_Not(h) ==
  /\ \E from \in {"begin", "try"} : Go(h, from, "trylock")
  /\ UNCHANGED <<locks, event_handler_active, pollfd_modify, ctrl_pipe, waiters_lock, transfers,
                 closing>>

\* libusb_try_lock_events: not while somebody modifies the poll fds.
TryModify(h) ==
  /\ \E from \in {"begin", "try"} :
       Go(h, from, IF pollfd_modify > 0 THEN "waiters" ELSE "trylock")
  /\ UNCHANGED <<locks, event_handler_active, pollfd_modify, ctrl_pipe, waiters_lock, transfers,
                 closing>>

TryLock(h) ==
  \/ owner = None /\ TakeLock(h, "trylock", "active")
  \/ /\ owner # None
     /\ Go(h, "trylock", "waiters")
     /\ UNCHANGED <<locks, event_handler_active, pollfd_modify, ctrl_pipe, waiters_lock,
                    transfers, closing>>

\* Under the lock the flag is looked at again.
\* Mutant: it is not.
CheckCompleted_Not(h) ==
  /\ Go(h, "check", "poll")
  /\ UNCHANGED <<locks, event_handler_active, pollfd_modify, ctrl_pipe, waiters_lock, transfers,
                 closing>>

CheckCompleted(h) ==
  /\ Go(h, "check", IF Done(h) THEN "unlock" ELSE "poll")
  /\ UNCHANGED <<locks, event_handler_active, pollfd_modify, ctrl_pipe, waiters_lock, transfers,
                 closing>>

\* handle_events: poll returns when the pipe or a device has something, or late.
Ready == \E c \in Callers : urb[c] = "done"

Poll(h) ==
  /\ ctrl_pipe > 0 \/ Ready
  /\ Go(h, "poll", IF Ready THEN "reap" ELSE "unlock")
  /\ UNCHANGED <<locks, event_handler_active, pollfd_modify, ctrl_pipe, waiters_lock, transfers,
                 closing>>

PollTimeout(h) ==
  /\ ctrl_pipe = 0 /\ ~Ready
  /\ Go(h, "poll", "unlock")
  /\ handle_timeouts
  /\ UNCHANGED <<locks, event_handler_active, pollfd_modify, ctrl_pipe, waiters_lock,
                 urb, completed, closing>>

\* reap_for_handle until nothing is left: the callback sets completed, and
\* usbi_handle_transfer_completion tells the sleepers.
Reap(h) ==
  /\ \/ \E c \in Callers :
          /\ urb[c] = "done"
          /\ Go(h, "reap", "told")
          /\ urb' = [urb EXCEPT ![c] = "none"]
          /\ completed' = [completed EXCEPT ![c] = TRUE]
     \/ /\ ~Ready
        /\ Go(h, "reap", "unlock")
        /\ UNCHANGED <<urb, completed>>
  /\ UNCHANGED <<locks, event_handler_active, pollfd_modify, ctrl_pipe, waiters_lock,
                 timed_out, closing>>

TellCompletion(h) == Broadcast(h, "told", "reap") /\ UNCHANGED closing

UnlockEvents(h) ==
  \/ ClearActive(h, "unlock", "release")
  \/ ReleaseLock(h, "release", "tell")
  \/ Broadcast(h, "tell", "test") /\ UNCHANGED closing

\* Somebody else handles events: under event_waiters_lock the flag and the handler
\* are looked at again before the thread sleeps.
\* Mutant: the flag is not.
LockWaiters_NoCheck(h) ==
  /\ waiters_lock = None
  /\ Go(h, "waiters", "modify?") /\ waiters_lock' = h
  /\ UNCHANGED <<locks, event_handler_active, pollfd_modify, ctrl_pipe, transfers, closing>>

LockWaiters(h) ==
  /\ waiters_lock = None
  /\ \/ Done(h) /\ Go(h, "waiters", "test") /\ UNCHANGED waiters_lock
     \/ ~Done(h) /\ Go(h, "waiters", "modify?") /\ waiters_lock' = h
  /\ UNCHANGED <<locks, event_handler_active, pollfd_modify, ctrl_pipe, transfers, closing>>

\* libusb_event_handler_active reads one after the other; libusb_wait_for_event
\* gives the lock back in the same step.
WaitIfModified(h) ==
  /\ \/ pollfd_modify > 0 /\ Go(h, "modify?", "asleep") /\ waiters_lock' = None
     \/ pollfd_modify = 0 /\ Go(h, "modify?", "active?") /\ UNCHANGED waiters_lock
  /\ UNCHANGED <<locks, event_handler_active, pollfd_modify, ctrl_pipe, transfers, closing>>

\* Mutant: it sleeps without looking.
WaitIfActive_Always(h) ==
  /\ Go(h, "active?", "asleep")
  /\ waiters_lock' = None
  /\ UNCHANGED <<locks, event_handler_active, pollfd_modify, ctrl_pipe, transfers, closing>>

WaitIfActive(h) ==
  /\ Go(h, "active?", IF event_handler_active THEN "asleep" ELSE "try")
  /\ waiters_lock' = None
  /\ UNCHANGED <<locks, event_handler_active, pollfd_modify, ctrl_pipe, transfers, closing>>

\* It wakes when told, or late; with the lock taken and given back it returns.
WaitTimeout(h) ==
  /\ Go(h, "asleep", "woken")
  /\ handle_timeouts
  /\ UNCHANGED <<locks, event_handler_active, pollfd_modify, ctrl_pipe, waiters_lock,
                 urb, completed, closing>>

Woken(h) ==
  /\ waiters_lock = None
  /\ Go(h, "woken", "test")
  /\ UNCHANGED <<locks, event_handler_active, pollfd_modify, ctrl_pipe, waiters_lock, transfers,
                 closing>>

-----------------------------------------------------------------------------
(* The closer: usbi_fd_notification after a device was opened,             *)
(* libusb_close, and uvc_close of the last device, which ends the event    *)
(* thread and is called when nobody uses the device any more.              *)

StartChange ==
  /\ Go(Closer, "idle", "notify")
  /\ \/ /\ changes < MaxChanges /\ changes' = changes + 1
        /\ task' \in {"open", "close"}
        /\ UNCHANGED kill_handler_thread
     \/ /\ \A c \in Callers : pc[c] = "idle"
        /\ task' = "last"
        /\ kill_handler_thread' = TRUE
        /\ UNCHANGED changes
  /\ UNCHANGED <<locks, event_handler_active, pollfd_modify, ctrl_pipe, waiters_lock, transfers,
                 write_failed>>

CountModify(from, to, n) ==
  /\ Go(Closer, from, to)
  /\ pollfd_modify' = n
  /\ UNCHANGED <<locks, event_handler_active, ctrl_pipe, waiters_lock, transfers, closing>>

\* The byte is written; if it cannot be, a device is closed all the same.
WritePipe ==
  /\ \/ /\ Go(Closer, "write", "lock") /\ ctrl_pipe' = ctrl_pipe + 1
        /\ UNCHANGED write_failed
     \/ /\ WriteFails /\ write_failed' = TRUE
        /\ Go(Closer, "write", IF task = "open" THEN "unmodify" ELSE "doLock")
        /\ UNCHANGED ctrl_pipe
  /\ UNCHANGED <<locks, event_handler_active, pollfd_modify, waiters_lock, transfers,
                 kill_handler_thread, task, changes>>

\* Mutant: the byte stays.
ReadPipe_Not ==
  /\ Go(Closer, "read", IF task = "open" THEN "unmodify" ELSE "doLock")
  /\ UNCHANGED <<locks, event_handler_active, pollfd_modify, ctrl_pipe, waiters_lock, transfers,
                 closing>>

ReadPipe ==
  /\ Go(Closer, "read", IF task = "open" THEN "unmodify" ELSE "doLock")
  /\ ctrl_pipe' = ctrl_pipe - 1
  /\ UNCHANGED <<locks, event_handler_active, pollfd_modify, waiters_lock, transfers, closing>>

\* do_close takes and releases the lock again and closes the descriptor.
do_close ==
  \/ TakeLock(Closer, "doLock", "doLocked")
  \/ SetActive(Closer, "doLocked", "doUnlock")
  \/ ClearActive(Closer, "doUnlock", "doRelease")
  \/ ReleaseLock(Closer, "doRelease", "doTell")
  \/ Broadcast(Closer, "doTell", "close") /\ UNCHANGED closing
  \/ /\ Go(Closer, "close", "unmodify")
     /\ UNCHANGED <<locks, event_handler_active, pollfd_modify, ctrl_pipe, waiters_lock,
                    transfers, closing>>

\* Without the lock, after a failed write, nobody is told.
Finished == IF task = "last" THEN "join" ELSE "idle"
EndModify ==
  /\ Go(Closer, "unmodify", IF owner = Closer THEN "unlock" ELSE Finished)
  /\ pollfd_modify' = 0
  /\ task' = IF owner = Closer THEN task ELSE "none"
  /\ UNCHANGED <<locks, event_handler_active, ctrl_pipe, waiters_lock, transfers,
                 kill_handler_thread, changes, write_failed>>

CloserTells ==
  /\ Broadcast(Closer, "tell", Finished)
  /\ task' = "none"
  /\ UNCHANGED <<kill_handler_thread, changes, write_failed>>

JoinEventThread ==
  /\ pc[Event] = "ended"
  /\ Go(Closer, "join", "ended")
  /\ UNCHANGED <<locks, event_handler_active, pollfd_modify, ctrl_pipe, waiters_lock, transfers,
                 closing>>

libusb_close ==
  \/ CountModify("notify", "write", 1)
  \/ WritePipe
  \/ TakeLock(Closer, "lock", "locked")
  \/ SetActive(Closer, "locked", "read")
  \/ ReadPipe
  \/ do_close
  \/ EndModify
  \/ ClearActive(Closer, "unlock", "release")
  \/ ReleaseLock(Closer, "release", "tell")
  \/ CloserTells
  \/ JoinEventThread

-----------------------------------------------------------------------------
libusb_handle_events(h) ==
  \/ TimeoutExpired(h) \/ TryModify(h) \/ TryLock(h) \/ SetActive(h, "active", "check")
  \/ CheckCompleted(h) \/ Poll(h) \/ Reap(h) \/ TellCompletion(h) \/ UnlockEvents(h)
  \/ LockWaiters(h) \/ WaitIfModified(h) \/ WaitIfActive(h) \/ Woken(h)

Late(h) == PollTimeout(h) \/ WaitTimeout(h)

Next ==
  \/ \E c \in Callers : libusb_control_transfer(c) \/ TestCompleted(c) \/ KernelCompletes(c)
  \/ _uvc_handle_events
  \/ \E h \in Handlers : libusb_handle_events(h) \/ Late(h)
  \/ StartChange \/ libusb_close

Spec == Init /\ [][Next]_vars

\* Threads run, event_waiters_lock is granted in the end to whoever asks for it again
\* and again (the only step of a handler that can be disabled), and the kernel completes
\* every URB.  Timeouts are not fair.
CloserBroadcasts == CloserTells \/ (Broadcast(Closer, "doTell", "close") /\ UNCHANGED closing)

FairSpec ==
  /\ Spec
  /\ \A c \in Callers : WF_vars(TestCompleted(c)) /\ WF_vars(KernelCompletes(c))
  /\ WF_vars(_uvc_handle_events)
  /\ \A h \in Handlers : SF_vars(libusb_handle_events(h))
  /\ WF_vars(libusb_close) /\ SF_vars(CloserBroadcasts)

-----------------------------------------------------------------------------
(* Properties.                                                             *)

\* A thread sleeps only while somebody has yet to tell it: the thread that handles
\* events, or the one that modifies the poll fds ("if any events are to complete,
\* another thread needs to step up", io.c:1845).  After a failed write of the
\* control pipe pollfd_modify is taken back and nobody is told.
WillTell(t) ==
  IF t = Closer
  THEN pc[t] \in CloserSteps \ {"idle", "notify", "join", "ended"}
  ELSE pc[t] \in {"active", "check", "poll", "reap", "told", "unlock", "release", "tell"}
SleepersWatched ==
  ~write_failed =>
    \A h \in Handlers : pc[h] = "asleep" => \E t \in DOMAIN pc : WillTell(t)

\* A thread whose transfer is complete does not sleep on, nor does it poll for
\* events it does not need: whoever ran the callback is about to tell it.
CompletedAwake ==
  \A c \in Callers :
    completed[c] => /\ pc[c] # "poll"
                    /\ pc[c] = "asleep" => \E h \in Handlers : pc[h] = "told"

\* While the descriptor is closed nobody polls it or reaps from it.  After a failed
\* write the closer does not hold the lock when it closes.
ClosedAlone ==
  pc[Closer] = "close" /\ ~write_failed =>
    /\ owner = Closer
    /\ \A h \in Handlers : pc[h] \notin {"poll", "reap", "told"}

\* What the locks, the flags and the control pipe of a context are for.
EventLockInv == TypeOK /\ SleepersWatched /\ CompletedAwake /\ ClosedAlone

\* Reaping goes on while there is something to reap, so a promise to return needs
\* that the callers pause in the end.
TransfersPause == \A c \in Callers : <>[][~libusb_control_transfer(c)]_vars

\* A thread in poll that no byte reaches goes on until its timeout.
PipeWorks == []~write_failed

\* A synchronous transfer returns, without the help of a timeout, whoever handles
\* the events and whoever opens or closes other devices meanwhile.
TransferReturns ==
  TransfersPause /\ PipeWorks => \A c \in Callers : pc[c] = "test" ~> pc[c] = "idle"

\* Opening and closing a device are not starved by the handlers: weak fairness is
\* enough for events_lock, since pollfd_modify keeps them off.
ChangeReturns ==
  TransfersPause /\ PipeWorks => (pc[Closer] = "notify" ~> pc[Closer] \in {"idle", "join"})

-----------------------------------------------------------------------------
(***************************************************************************)
(* The inductive invariant: who holds the two locks, and what the flags    *)
(* and the control pipe say of the place the closer has come to.           *)
(***************************************************************************)
Handling == {"active", "check", "poll", "reap", "told", "unlock", "release"}

\* events_lock.  A closer that could not write the control pipe comes to doLock without
\* it, takes it once, and closes the descriptor without it.
CloserHolds ==
  /\ pc[Closer] \in {"locked", "read", "unlock", "release"} => owner = Closer /\ depth = 1
  /\ pc[Closer] \in {"doLocked", "doUnlock", "doRelease"} =>
       owner = Closer /\ (depth = 2 \/ write_failed)
  /\ pc[Closer] \in {"doLock", "doTell", "close", "unmodify"} =>
       IF owner = Closer THEN depth = 1 ELSE write_failed
  /\ owner = Closer => pc[Closer] \in {"locked", "read", "doLock", "doLocked", "doUnlock",
                         "doRelease", "doTell", "close", "unmodify", "unlock", "release"}
Holders ==
  /\ CloserHolds
  /\ \A h \in Handlers : /\ pc[h] \in Handling <=> owner = h
                         /\ owner = h => depth = 1

\* event_handler_active is set by whoever has events_lock, and taken back before it is
\* released.
ActiveHolder ==
  event_handler_active => owner # None /\ pc[owner] \notin {"release", "doRelease"}

\* pollfd_modify and the byte in the control pipe are the closer's.
CloserFlags ==
  /\ pollfd_modify = IF pc[Closer] \in CloserSteps \ {"idle", "notify", "unlock", "release",
                                                       "tell", "join", "ended"} THEN 1 ELSE 0
  /\ ctrl_pipe = IF pc[Closer] \in {"lock", "locked", "read"} THEN 1 ELSE 0

\* Who decides whether to sleep has event_waiters_lock, so a transfer that completes
\* meanwhile is told of afterwards.
Deciding ==
  /\ \A h \in Handlers : waiters_lock = h <=> pc[h] \in {"modify?", "active?"}
  /\ \A c \in Callers : completed[c] /\ pc[c] \in {"modify?", "active?"} =>
                          \E h \in Handlers : pc[h] = "told"

IInv == EventLockInv /\ Holders /\ ActiveHolder /\ CloserFlags /\ Deciding
=============================================================================
