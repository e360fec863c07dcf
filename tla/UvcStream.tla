------------------------------ MODULE UvcStream ------------------------------
(***************************************************************************)
(* The life of a video stream in libuvc (libuvc/src/stream.c): the USB     *)
(* transfers that circulate between the kernel and the event thread, the   *)
(* thread that calls the user's function, and the thread that opens,       *)
(* starts, stops and closes the stream.                                    *)
(*                                                                         *)
(* cb_mutex protects the array of transfers and the frame that is held; a  *)
(* critical section is one step.  running is read and written unlocked, so *)
(* the tests of it are steps of their own.  The frames are in UvcFrames;   *)
(* here a payload may or may not publish one.  The kernel and libusb are   *)
(* external: a transfer in flight completes with some status.              *)
(***************************************************************************)
EXTENDS Naturals, FiniteSets

CONSTANTS
  NumTransfers, \* LIBUVC_NUM_TRANSFER_BUFS
  CanUnplug,    \* the cable may be pulled out
  StartFails    \* starting may fail, before or while the transfers are submitted

ASSUME StreamAssumption ==
  /\ NumTransfers \in Nat \ {0}
  /\ {CanUnplug, StartFails} \subseteq BOOLEAN

VARIABLES
  running,
  transfers,   \* transfers[t]: what has become of the t-th transfer
  cancelled,   \* the transfers libusb has been asked to cancel
  event,       \* the event thread: what it does for which transfer
  fresh,       \* last_seq # hold_seq: a frame the caller has not noticed
  caller,      \* _uvc_user_caller
  app,         \* the thread that calls libuvc
  plugged,
  clean        \* history: since the stream was opened no transfer failed to go out
               \* and the camera was there

camera == <<plugged, clean>>
vars == <<running, transfers, cancelled, event, fresh, caller, app, camera>>

Transfers == 1..NumTransfers
Stages == {"none", "filled", "flight", "returned", "deleted"}
Steps  == {"poll", "test", "submit", "delete"}
NoTransfer == 0

TypeOK ==
  /\ running \in BOOLEAN /\ fresh \in BOOLEAN
  /\ plugged \in BOOLEAN /\ clean \in BOOLEAN
  /\ transfers \in [Transfers -> Stages]
  /\ cancelled \subseteq {t \in Transfers : transfers[t] = "flight"}
  /\ event \in [step : Steps, transfer : {NoTransfer} \cup Transfers, resubmit : BOOLEAN]
  /\ caller \in {"none", "loop", "wait", "call", "ended"}
  /\ app \in {"closed", "start", "submit", "streaming", "close", "stop", "cancel",
              "check", "wait", "join", "free"}

Polling == [step |-> "poll", transfer |-> NoTransfer, resubmit |-> FALSE]

Init ==
  /\ running = FALSE
  /\ transfers = [t \in Transfers |-> "none"]
  /\ cancelled = {}
  /\ event = Polling
  /\ fresh = FALSE
  /\ caller = "none"
  /\ app = "closed"
  /\ plugged = TRUE /\ clean = TRUE

\* Whatever still uses the stream's memory.
Gone(t) == transfers[t] \in {"none", "deleted"}
Users ==
  \/ \E t \in Transfers : transfers[t] \in {"flight", "returned"}
  \/ caller \notin {"none", "ended"}
  \/ event # Polling

-----------------------------------------------------------------------------
(* pthread_cond_broadcast(&cb_cond): the caller and uvc_stream_stop wait.  *)

\* Mutants: only one of the two is told.
Broadcast_Caller ==
  /\ caller' = IF caller = "wait" THEN "loop" ELSE caller
  /\ UNCHANGED app
Broadcast_Stop ==
  /\ app' = IF app = "wait" THEN "check" ELSE app
  /\ UNCHANGED caller

Broadcast ==
  /\ caller' = IF caller = "wait" THEN "loop" ELSE caller
  /\ app' = IF app = "wait" THEN "check" ELSE app

-----------------------------------------------------------------------------
(* The thread that calls libuvc.                                           *)

\* uvc_stream_open_ctrl: a new handle.  (Not again while an old one's memory is
\* in use: from there on the program's behaviour is undefined.)
uvc_stream_open_ctrl ==
  /\ app = "closed" /\ ~Users
  /\ app' = "start"
  /\ running' = FALSE /\ fresh' = FALSE /\ caller' = "none" /\ cancelled' = {}
  /\ transfers' = [t \in Transfers |-> "none"]
  /\ clean' = plugged
  /\ UNCHANGED <<event, plugged>>

\* uvc_stream_start_bandwidth up to the creation of the caller's thread.
uvc_stream_start_bandwidth ==
  /\ app = "start"
  /\ \/ /\ plugged
        /\ app' = "submit"
        /\ running' = TRUE
        /\ transfers' = [t \in Transfers |-> "filled"]
        /\ caller' = "loop"
     \/ /\ StartFails \/ ~plugged
        /\ app' = "close"
        /\ UNCHANGED <<running, transfers, caller>>
  /\ UNCHANGED <<cancelled, event, fresh, camera>>

\* The transfers are submitted one after the other; the first failure ends it,
\* and running is cleared.
SubmitTransfers ==
  /\ app = "submit"
  /\ LET left == {t \in Transfers : transfers[t] = "filled"}
     IN \/ /\ left = {}
           /\ app' = "streaming"
           /\ UNCHANGED <<running, transfers, clean>>
        \/ \E t \in left :
             /\ \A u \in left : t <= u
             /\ plugged
             /\ transfers' = [transfers EXCEPT ![t] = "flight"]
             /\ UNCHANGED <<running, app, clean>>
        \/ /\ left # {}
           /\ StartFails \/ ~plugged
           /\ running' = FALSE /\ clean' = FALSE
           /\ app' = "close"
           /\ UNCHANGED transfers
  /\ UNCHANGED <<cancelled, event, fresh, caller, plugged>>

uvc_stop_streaming ==
  /\ app = "streaming"
  /\ app' = "close"
  /\ UNCHANGED <<running, transfers, cancelled, event, fresh, caller, camera>>

\* uvc_stream_close: only a running stream is stopped.
uvc_stream_close ==
  /\ app = "close"
  /\ app' = IF running THEN "stop" ELSE "free"
  /\ UNCHANGED <<running, transfers, cancelled, event, fresh, caller, camera>>

\* uvc_stream_stop looks at running again and clears it.
ClearRunning ==
  /\ app = "stop"
  /\ app' = IF running THEN "cancel" ELSE "free"
  /\ running' = FALSE
  /\ UNCHANGED <<transfers, cancelled, event, fresh, caller, camera>>

\* libusb_cancel_transfer finds those in flight only.
\* Mutant: those that are not in flight are counted as cancelled.
CancelTransfers_All ==
  /\ app = "cancel"
  /\ app' = "check"
  /\ cancelled' = Transfers
  /\ UNCHANGED <<running, transfers, event, fresh, caller, camera>>

CancelTransfers ==
  /\ app = "cancel"
  /\ app' = "check"
  /\ cancelled' = {t \in Transfers : transfers[t] = "flight"}
  /\ UNCHANGED <<running, transfers, event, fresh, caller, camera>>

\* Mutants: it does not wait for the transfers; it does not kick the caller.
uvc_stream_stop_NoWait ==
  /\ app = "check"
  /\ app' = "join"
  /\ caller' = IF caller = "wait" THEN "loop" ELSE caller
  /\ UNCHANGED <<running, transfers, cancelled, event, fresh, camera>>
uvc_stream_stop_NoKick ==
  /\ app = "check"
  /\ app' = IF \A t \in Transfers : Gone(t) THEN "join" ELSE "wait"
  /\ UNCHANGED <<running, transfers, cancelled, event, fresh, caller, camera>>

\* uvc_stream_stop waits until the callbacks have deleted every transfer, and
\* then kicks the caller awake.
uvc_stream_stop ==
  /\ app = "check"
  /\ IF \A t \in Transfers : Gone(t)
     THEN /\ app' = "join"
          /\ caller' = IF caller = "wait" THEN "loop" ELSE caller
     ELSE /\ app' = "wait"
          /\ UNCHANGED caller
  /\ UNCHANGED <<running, transfers, cancelled, event, fresh, camera>>

JoinCaller ==
  /\ app = "join"
  /\ caller = "ended"
  /\ app' = "free"
  /\ UNCHANGED <<running, transfers, cancelled, event, fresh, caller, camera>>

FreeStream ==
  /\ app = "free"
  /\ app' = "closed"
  /\ UNCHANGED <<running, transfers, cancelled, event, fresh, caller, camera>>

-----------------------------------------------------------------------------
(* The event thread: _uvc_stream_callback.                                 *)

Statuses == {"completed", "retry", "gone", "cancelled", "error"}

\* The kernel gives a transfer back, perhaps one it completed before the cable was
\* pulled.  (TIMED_OUT, STALL and OVERFLOW are "retry".)
Possible(t, status) ==
  CASE status = "cancelled" -> t \in cancelled
    [] status = "gone"      -> ~plugged
    [] OTHER                -> TRUE

\* The status decides, and a good payload may complete a frame.
_uvc_stream_callback(t, status) ==
  /\ event = Polling
  /\ transfers[t] = "flight" /\ Possible(t, status)
  /\ transfers' = [transfers EXCEPT ![t] = "returned"]
  /\ cancelled' = cancelled \ {t}
  /\ event' = [step |-> "test", transfer |-> t,
               resubmit |-> status \in {"completed", "retry"}]
  /\ running' = (running /\ status # "gone")
  /\ \/ UNCHANGED <<fresh, caller, app>>
     \/ status = "completed" /\ fresh' = TRUE /\ Broadcast
  /\ UNCHANGED camera

\* Mutant: a transfer that is not submitted again is not deleted either.
TestRunning_NoDelete ==
  /\ event.step = "test"
  /\ event' = IF running /\ event.resubmit THEN [event EXCEPT !.step = "submit"] ELSE Polling
  /\ UNCHANGED <<running, transfers, cancelled, fresh, caller, app, camera>>

\* if (running && resubmit)
TestRunning ==
  /\ event.step = "test"
  /\ event' = [event EXCEPT !.step = IF running /\ event.resubmit THEN "submit" ELSE "delete"]
  /\ UNCHANGED <<running, transfers, cancelled, fresh, caller, app, camera>>

\* libusb_submit_transfer, whose result nobody looks at: without the device it
\* fails, and no callback will follow.
Resubmit ==
  /\ event.step = "submit"
  /\ event' = Polling
  /\ \/ /\ plugged
        /\ transfers' = [transfers EXCEPT ![event.transfer] = "flight"]
     \/ /\ ~plugged
        /\ UNCHANGED transfers
  /\ UNCHANGED <<running, cancelled, fresh, caller, app, camera>>

\* Mutant: the deleted transfer is submitted.
_uvc_delete_transfer_Submit ==
  /\ event.step = "delete"
  /\ event' = [event EXCEPT !.step = "submit"]
  /\ transfers' = [transfers EXCEPT ![event.transfer] = "deleted"]
  /\ Broadcast
  /\ UNCHANGED <<running, cancelled, fresh, camera>>

_uvc_delete_transfer ==
  /\ event.step = "delete"
  /\ event' = Polling
  /\ transfers' = [transfers EXCEPT ![event.transfer] = "deleted"]
  /\ Broadcast
  /\ UNCHANGED <<running, cancelled, fresh, camera>>

-----------------------------------------------------------------------------
(* The caller: _uvc_user_caller.                                           *)

_uvc_user_caller ==
  /\ caller = "loop"
  /\ \/ ~running /\ caller' = "ended" /\ UNCHANGED fresh
     \/ running /\ fresh /\ caller' = "call" /\ fresh' = FALSE
     \/ running /\ ~fresh /\ caller' = "wait" /\ UNCHANGED fresh
  /\ UNCHANGED <<running, transfers, cancelled, event, app, camera>>

\* user_cb returns (or is not called, for a broken frame).
UserCallbackReturns ==
  /\ caller = "call"
  /\ caller' = "loop"
  /\ UNCHANGED <<running, transfers, cancelled, event, fresh, app, camera>>

\* The cable; a camera is plugged in again only when nobody uses the old one.
Unplug ==
  /\ CanUnplug /\ plugged
  /\ plugged' = FALSE /\ clean' = FALSE
  /\ UNCHANGED <<running, transfers, cancelled, event, fresh, caller, app>>

PlugIn ==
  /\ ~plugged /\ app = "closed" /\ ~Users
  /\ plugged' = TRUE
  /\ UNCHANGED <<running, transfers, cancelled, event, fresh, caller, app, clean>>

-----------------------------------------------------------------------------
AppThread ==
  \/ uvc_stream_start_bandwidth \/ SubmitTransfers
  \/ uvc_stream_close \/ ClearRunning \/ CancelTransfers \/ uvc_stream_stop \/ JoinCaller \/ FreeStream

EventThread ==
  \/ \E t \in Transfers, status \in Statuses : _uvc_stream_callback(t, status)
  \/ TestRunning \/ Resubmit \/ _uvc_delete_transfer

CallerThread == _uvc_user_caller \/ UserCallbackReturns

Next ==
  \/ uvc_stream_open_ctrl \/ uvc_stop_streaming \/ AppThread
  \/ EventThread \/ CallerThread
  \/ Unplug \/ PlugIn

Spec == Init /\ [][Next]_vars

\* Threads run, the user's function returns, and libusb gives every transfer back.
Returned(t) == \E status \in Statuses : _uvc_stream_callback(t, status)
FairSpec ==
  /\ Spec
  /\ WF_vars(AppThread) /\ WF_vars(CallerThread)
  /\ WF_vars(TestRunning) /\ WF_vars(Resubmit) /\ WF_vars(_uvc_delete_transfer)
  /\ \A t \in Transfers : SF_vars(Returned(t))

-----------------------------------------------------------------------------
(* Properties.                                                             *)

\* uvc_stream_close frees the handle, its buffers and its mutex when nobody uses
\* them: no transfer is in flight, no callback and no caller runs ("Closes all
\* streams, ends threads and cancels pollers", stream.c:1776).  The code keeps
\* this while the stream is clean only: a callback that finds the camera gone, or
\* a transfer that could not be submitted, clears running and the stop is left out.
FreedAlone == clean /\ app \in {"free", "closed"} => ~Users

\* uvc_stream_stop never waits for a transfer that will not come back: every
\* transfer that is left is in flight or in the hands of its callback.  (Without
\* the camera a resubmission fails unnoticed, and the wait has no end.)
Coming(t) == transfers[t] = "flight" \/ event.transfer = t
WaitsForTheLiving == clean /\ app = "wait" => \A t \in Transfers : Gone(t) \/ Coming(t)

\* ... and it does wait for one: the last deletion wakes it.
WokenByTheLast == app = "wait" => \E t \in Transfers : ~Gone(t)

\* The caller does not sleep on a frame it has not seen, nor past the end of
\* the stream when neither a callback nor uvc_stream_stop is left to wake it.
CallerAwake ==
  caller = "wait" => /\ ~fresh
                     /\ \/ running \/ app \in {"cancel", "check"}
                        \/ \E t \in Transfers : ~Gone(t)

\* The memory, the waits and the wakeups of uvc_stream_stop, uvc_stream_close and the caller.
StreamInv == TypeOK /\ FreedAlone /\ WaitsForTheLiving /\ WokenByTheLast /\ CallerAwake

\* uvc_stop_streaming returns, and so does a failed start.
StopReturns == clean /\ app = "close" ~> app = "closed" \/ ~clean

\* When the stream stops running the caller's thread ends; when a callback has found the
\* camera gone it does so without a stop ("this needs for unexpected disconnect of cable
\* otherwise hangup").
CallerEnds ==
  /\ clean /\ ~running /\ caller # "none" ~> caller = "ended" \/ ~clean
  /\ app = "streaming" /\ ~running ~> caller = "ended"

-----------------------------------------------------------------------------
(***************************************************************************)
(* The inductive invariant behind StreamInv: the event thread and a new    *)
(* stream (EventShape, StartShape), and what a clean stream is like in     *)
(* each place of the thread that calls libuvc (CleanShape).                *)
(***************************************************************************)
\* The event thread has a transfer that was given back and not deleted.
EventShape ==
  event # Polling => /\ event.step # "poll" /\ event.transfer \in Transfers
                     /\ transfers[event.transfer] = "returned"

StartShape ==
  app = "start" => /\ \A t \in Transfers : transfers[t] = "none"
                   /\ event = Polling /\ caller = "none"

\* While the stream is clean it runs from the start to the stop, a transfer given back
\* is in the event thread's hands, and outside the two nobody uses anything.
CleanShape ==
  /\ plugged
  /\ running => app \in {"submit", "streaming", "close", "stop"}
  /\ app \in {"submit", "streaming", "stop"} => running
  /\ (app \in {"closed", "start", "free"} \/ (app = "close" /\ ~running)) => ~Users
  /\ app = "join" => \A t \in Transfers : Gone(t)
  /\ \A t \in Transfers : /\ transfers[t] = "returned" => event.transfer = t
                          /\ transfers[t] = "filled" => app = "submit"

IInv ==
  /\ TypeOK /\ EventShape /\ StartShape
  /\ clean => CleanShape
  /\ WokenByTheLast /\ CallerAwake
=============================================================================
