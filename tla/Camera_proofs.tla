---------------------------- MODULE Camera_proofs ----------------------------
(***************************************************************************)
(* Machine-checked proofs about the camera.  First UvcStream: memory,      *)
(* waits and wakeups of a stream of any number of transfers.  Then         *)
(* Preview: the buffers and the frames on their way from libuvc to the     *)
(* Java callback, for queues and pools of any length.                      *)
(***************************************************************************)
EXTENDS UvcStream, Preview, FiniteSetTheorems, TLAPS

-----------------------------------------------------------------------------
(* UvcStream.                                                              *)

LEMMA StreamInitInv == Init => IInv
<1> SUFFICES ASSUME Init PROVE IInv
  OBVIOUS
<1>1. TypeOK
  BY DEF Init, TypeOK, Polling, Steps, Stages, NoTransfer
<1>2. ~Users
  BY DEF Init, Users
<1>3. clean => CleanShape
  BY <1>2 DEF Init, CleanShape
<1> QED
  BY <1>1, <1>3 DEF Init, IInv, EventShape, StartShape, WokenByTheLast, CallerAwake

LEMMA TypeStep ==
  ASSUME TypeOK, EventShape, StartShape, [Next]_vars
  PROVE  TypeOK'
<1> USE DEF TypeOK, camera
<1>1. CASE uvc_stream_open_ctrl
  BY <1>1 DEF uvc_stream_open_ctrl, Stages
<1>2. CASE uvc_stream_start_bandwidth
  BY <1>2 DEF uvc_stream_start_bandwidth, Stages, StartShape
<1>3. CASE SubmitTransfers
  BY <1>3 DEF SubmitTransfers, Stages
<1>4. CASE uvc_stop_streaming \/ uvc_stream_close \/ ClearRunning \/ CancelTransfers
             \/ uvc_stream_stop \/ JoinCaller \/ FreeStream
  BY <1>4 DEF uvc_stop_streaming, uvc_stream_close, ClearRunning, CancelTransfers,
              uvc_stream_stop, JoinCaller, FreeStream
<1>5. CASE \E t \in Transfers, status \in Statuses : _uvc_stream_callback(t, status)
  <2> PICK t \in Transfers, status \in Statuses : _uvc_stream_callback(t, status)
    BY <1>5
  <2>1. transfers' \in [Transfers -> Stages] /\ cancelled' \subseteq {u \in Transfers : transfers'[u] = "flight"}
    BY DEF _uvc_stream_callback, Stages
  <2>2. event' \in [step : Steps, transfer : {NoTransfer} \cup Transfers, resubmit : BOOLEAN]
    BY DEF _uvc_stream_callback, Steps
  <2>3. running' \in BOOLEAN
    BY Zenon DEF _uvc_stream_callback
  <2> QED
    BY <2>1, <2>2, <2>3 DEF _uvc_stream_callback, Broadcast
<1>6. CASE TestRunning
  BY <1>6 DEF TestRunning, Steps
<1>7. CASE Resubmit
  BY <1>7 DEF Resubmit, EventShape, Polling, Steps, NoTransfer, Stages
<1>8. CASE _uvc_delete_transfer
  BY <1>8 DEF _uvc_delete_transfer, EventShape, Polling, Steps, NoTransfer, Stages, Broadcast
<1>9. CASE CallerThread \/ Unplug \/ PlugIn
  BY <1>9 DEF CallerThread, _uvc_user_caller, UserCallbackReturns, Unplug, PlugIn
<1>10. CASE UNCHANGED vars
  BY <1>10 DEF vars
<1> QED
  BY <1>1, <1>2, <1>3, <1>4, <1>5, <1>6, <1>7, <1>8, <1>9, <1>10
     DEF Next, AppThread, EventThread

(* The event thread and a stream that is about to start.                   *)
LEMMA ShapeStep ==
  ASSUME TypeOK, EventShape, StartShape, [Next]_vars
  PROVE  EventShape' /\ StartShape'
<1> USE DEF TypeOK, EventShape, StartShape
<1>1. CASE uvc_stream_open_ctrl
  BY <1>1 DEF uvc_stream_open_ctrl, Users
<1>2. CASE uvc_stream_start_bandwidth
  BY <1>2 DEF uvc_stream_start_bandwidth
<1>3. CASE SubmitTransfers
  BY <1>3 DEF SubmitTransfers
<1>4. CASE uvc_stop_streaming \/ uvc_stream_close \/ ClearRunning \/ CancelTransfers
             \/ uvc_stream_stop \/ JoinCaller \/ FreeStream
  BY <1>4 DEF uvc_stop_streaming, uvc_stream_close, ClearRunning, CancelTransfers,
              uvc_stream_stop, JoinCaller, FreeStream
<1>5. CASE \E t \in Transfers, status \in Statuses : _uvc_stream_callback(t, status)
  BY <1>5 DEF _uvc_stream_callback, Broadcast, Stages
<1>6. CASE TestRunning
  BY <1>6 DEF TestRunning, Polling
<1>7. CASE Resubmit
  BY <1>7 DEF Resubmit, Polling
<1>8. CASE _uvc_delete_transfer
  BY <1>8 DEF _uvc_delete_transfer, Polling, Broadcast
<1>9. CASE CallerThread \/ Unplug \/ PlugIn
  BY <1>9 DEF CallerThread, _uvc_user_caller, UserCallbackReturns, Unplug, PlugIn
<1>10. CASE UNCHANGED vars
  BY <1>10 DEF vars
<1> QED
  BY <1>1, <1>2, <1>3, <1>4, <1>5, <1>6, <1>7, <1>8, <1>9, <1>10
     DEF Next, AppThread, EventThread

(* Whoever waits for cb_cond is woken.                                     *)
LEMMA WaitStep ==
  ASSUME TypeOK, EventShape, WokenByTheLast, CallerAwake, [Next]_vars
  PROVE  WokenByTheLast' /\ CallerAwake'
<1> USE DEF TypeOK, EventShape, WokenByTheLast, CallerAwake, Gone
<1>1. CASE uvc_stream_open_ctrl
  BY <1>1 DEF uvc_stream_open_ctrl
<1>2. CASE uvc_stream_start_bandwidth
  BY <1>2 DEF uvc_stream_start_bandwidth
<1>3. CASE SubmitTransfers
  BY <1>3 DEF SubmitTransfers
<1>4. CASE uvc_stop_streaming \/ uvc_stream_close \/ ClearRunning \/ CancelTransfers
             \/ JoinCaller \/ FreeStream
  BY <1>4 DEF uvc_stop_streaming, uvc_stream_close, ClearRunning, CancelTransfers,
              JoinCaller, FreeStream
<1>5. CASE uvc_stream_stop
  BY <1>5 DEF uvc_stream_stop
<1>6. CASE \E t \in Transfers, status \in Statuses : _uvc_stream_callback(t, status)
  <2> PICK t \in Transfers, status \in Statuses : _uvc_stream_callback(t, status)
    BY <1>6
  <2>1. transfers'[t] = "returned"
    BY DEF _uvc_stream_callback
  <2> QED
    BY <2>1 DEF _uvc_stream_callback, Broadcast
<1>7. CASE TestRunning
  BY <1>7 DEF TestRunning
<1>8. CASE Resubmit
  BY <1>8 DEF Resubmit, Polling
<1>9. CASE _uvc_delete_transfer
  BY <1>9 DEF _uvc_delete_transfer, Broadcast
<1>10. CASE CallerThread \/ Unplug \/ PlugIn
  BY <1>10 DEF CallerThread, _uvc_user_caller, UserCallbackReturns, Unplug, PlugIn
<1>11. CASE UNCHANGED vars
  BY <1>11 DEF vars
<1> QED
  BY <1>1, <1>2, <1>3, <1>4, <1>5, <1>6, <1>7, <1>8, <1>9, <1>10, <1>11
     DEF Next, AppThread, EventThread

(* A clean stream.  (A stream that is opened is clean, whatever was before.) *)
LEMMA CleanStep ==
  ASSUME TypeOK, EventShape, StartShape, clean => CleanShape, [Next]_vars
  PROVE  clean' => CleanShape'
<1> SUFFICES ASSUME clean' PROVE CleanShape'
  OBVIOUS
<1> USE DEF TypeOK, EventShape, Gone, Users
<1>1. CASE uvc_stream_open_ctrl
  BY <1>1 DEF uvc_stream_open_ctrl, CleanShape
<1>2. CASE ~uvc_stream_open_ctrl
  <2>0. CleanShape
    BY <1>2 DEF Next, AppThread, EventThread, CallerThread, camera, vars,
      uvc_stream_start_bandwidth, SubmitTransfers, uvc_stop_streaming, uvc_stream_close,
      ClearRunning, CancelTransfers, uvc_stream_stop, JoinCaller, FreeStream,
      _uvc_stream_callback, TestRunning, Resubmit, _uvc_delete_transfer,
      _uvc_user_caller, UserCallbackReturns, Unplug, PlugIn
  <2> USE <2>0 DEF CleanShape, camera
  <2>1. CASE uvc_stream_start_bandwidth
    BY <2>1 DEF uvc_stream_start_bandwidth, StartShape
  <2>2. CASE SubmitTransfers
    BY <2>2 DEF SubmitTransfers
  <2>3. CASE uvc_stop_streaming \/ uvc_stream_close \/ ClearRunning \/ CancelTransfers
               \/ JoinCaller \/ FreeStream
    <3>1. CASE JoinCaller
      <4>1. event = Polling
        BY <3>1 DEF JoinCaller
      <4> QED
        BY <3>1, <4>1 DEF JoinCaller
    <3>2. CASE uvc_stop_streaming
      BY <3>2 DEF uvc_stop_streaming
    <3>3. CASE uvc_stream_close
      BY <3>3 DEF uvc_stream_close
    <3>4. CASE ClearRunning \/ CancelTransfers
      <4>1. app' \in {"cancel", "check"} /\ running' = FALSE
        BY <3>4 DEF ClearRunning, CancelTransfers
      <4>2. UNCHANGED <<transfers, event, plugged>> /\ app # "submit"
        BY <3>4 DEF ClearRunning, CancelTransfers
      <4> QED
        BY <4>1, <4>2
    <3>5. CASE FreeStream
      BY <3>5 DEF FreeStream
    <3> QED
      BY <2>3, <3>1, <3>2, <3>3, <3>4, <3>5
  <2>4. CASE uvc_stream_stop
    BY <2>4 DEF uvc_stream_stop
  <2>5. CASE \E t \in Transfers, status \in Statuses : _uvc_stream_callback(t, status)
    <3> PICK t \in Transfers, status \in Statuses : _uvc_stream_callback(t, status)
      BY <2>5
    <3>1. status # "gone" /\ running' = running
      BY DEF _uvc_stream_callback, Possible
    <3>2. transfers' = [transfers EXCEPT ![t] = "returned"] /\ event'.transfer = t
          /\ event = Polling /\ transfers[t] = "flight"
      BY DEF _uvc_stream_callback
    <3>3. app' = app \/ (app = "wait" /\ app' = "check")
      BY DEF _uvc_stream_callback, Broadcast
    <3>4. plugged'
      BY DEF _uvc_stream_callback
    <3>5. \A u \in Transfers : transfers[u] # "returned"
      BY <3>2 DEF Polling, NoTransfer, Transfers
    <3> QED
      BY <3>1, <3>2, <3>3, <3>4, <3>5
  <2>6. CASE TestRunning
    <3>1. event # Polling /\ event'.transfer = event.transfer
      BY <2>6 DEF TestRunning, Polling
    <3>2. UNCHANGED <<running, transfers, caller, app, plugged>>
      BY <2>6 DEF TestRunning
    <3> QED
      BY <3>1, <3>2
  <2>7. CASE Resubmit
    BY <2>7 DEF Resubmit, Polling
  <2>8. CASE _uvc_delete_transfer
    BY <2>8 DEF _uvc_delete_transfer, Polling, Broadcast
  <2>9. CASE CallerThread \/ Unplug \/ PlugIn
    <3>1. CASE CallerThread
      <4>1. caller \in {"loop", "call"} /\ UNCHANGED <<running, transfers, event, app, plugged>>
        BY <3>1 DEF CallerThread, _uvc_user_caller, UserCallbackReturns
      <4> QED
        BY <4>1
    <3>2. CASE Unplug \/ PlugIn
      BY <3>2 DEF Unplug, PlugIn
    <3> QED
      BY <2>9, <3>1, <3>2
  <2>10. CASE UNCHANGED vars
    BY <2>10 DEF vars
  <2> QED
    BY <1>2, <2>1, <2>2, <2>3, <2>4, <2>5, <2>6, <2>7, <2>8, <2>9, <2>10
       DEF Next, AppThread, EventThread
<1> QED
  BY <1>1, <1>2

(* The strengthened invariant of a stream.                                 *)
THEOREM Inductive == Spec => []IInv
<1>1. IInv /\ [Next]_vars => IInv'
  BY TypeStep, ShapeStep, CleanStep, WaitStep DEF IInv
<1> QED
  BY StreamInitInv, <1>1, PTL DEF Spec

LEMMA StreamShape == IInv => StreamInv
<1> SUFFICES ASSUME IInv PROVE StreamInv
  OBVIOUS
<1>1. FreedAlone
  BY DEF IInv, CleanShape, FreedAlone
<1>2. WaitsForTheLiving
  BY DEF IInv, CleanShape, WaitsForTheLiving, TypeOK, Stages, Gone, Coming
<1> QED
  BY <1>1, <1>2 DEF IInv, StreamInv

(* stream.c: while a stream is clean its memory is freed when nobody uses  *)
(* it and its stop waits for transfers that come back; and always the last *)
(* deletion wakes the stop, and the caller does not sleep on a frame or    *)
(* past the end.  For any number of transfers.                             *)
THEOREM StreamAlways == Spec => []StreamInv
  BY Inductive, StreamShape, PTL

-----------------------------------------------------------------------------
(* Preview.                                                                *)

USE PreviewAssumption

(* What a capture thread leaves alone, what it may clear and whom it wakes. *)
LEMMA CaptureThreadLeaves ==
  ASSUME NEW t \in Threads, CaptureThread(t)
  PROVE  /\ UNCHANGED <<mIsRunning, previewQ, appArg, uvcThreadVars, previewVars, settled>>
         /\ captureQueu' \in {captureQueu, NoFrame}
         /\ application' = application \/ (App \in captureWait /\ application' = "cbWoken")
<1> USE DEF flags, captureQ, appVars
<1>1. CASE CaptureBegins(t) \/ do_capture(t) \/ do_capture_idle_loop(t) \/ CaptureWaits(t)
  BY <1>1 DEF CaptureBegins, do_capture, do_capture_idle_loop, CaptureWaits, ClearCapture
<1>2. CASE waitCaptureFrame(t)
  BY <1>2 DEF waitCaptureFrame, TakeCaptureFrame
<1>3. CASE do_capture_callback(t) \/ CallOnFrame(t) \/ OnFrameReturns(t) \/ CaptureBroadcasts(t)
  BY <1>3 DEF do_capture_callback, CallOnFrame, OnFrameReturns, CaptureBroadcasts
<1> QED
  BY <1>1, <1>2, <1>3 DEF CaptureThread

(* The pool.                                                               *)
Bufs == [pool : 0..PoolSize, all : Nat]

LEMMA GetFrame ==
  ASSUME NEW b \in Bufs
  PROVE  /\ get_frame(b) \in Bufs
         /\ get_frame(b).all - get_frame(b).pool = b.all - b.pool + 1
BY DEF get_frame, Bufs

LEMMA RecycleFrame ==
  ASSUME NEW b \in Bufs, b.pool < b.all
  PROVE  /\ recycle_frame(b) \in Bufs
         /\ recycle_frame(b).all - recycle_frame(b).pool = b.all - b.pool - 1
BY DEF recycle_frame, Bufs

LEMMA RecycledFrames ==
  ASSUME NEW b \in Bufs, NEW n \in Nat, b.pool + n <= b.all
  PROVE  /\ Recycled(b, n) \in Bufs
         /\ Recycled(b, n).all - Recycled(b, n).pool = b.all - b.pool - n
BY DEF Recycled, Bufs

LEMMA ConvertedFrame ==
  ASSUME NEW b \in Bufs, b.pool <= b.all
  PROVE  /\ Converted(b) \in Bufs
         /\ Converted(b).all - Converted(b).pool = b.all - b.pool
<1>1. /\ get_frame(b) \in Bufs
      /\ get_frame(b).all - get_frame(b).pool = b.all - b.pool + 1
  BY GetFrame
<1>2. get_frame(b).pool < get_frame(b).all
  BY <1>1 DEF Bufs
<1>3. /\ Converted(b) \in Bufs
      /\ Converted(b).all - Converted(b).pool = get_frame(b).all - get_frame(b).pool - 1
  BY <1>1, <1>2, RecycleFrame, Zenon DEF Converted
<1>4. Converted(b).all \in Nat /\ Converted(b).pool \in Nat /\ b.all \in Nat /\ b.pool \in Nat
  BY <1>3 DEF Bufs
<1> QED
  BY <1>1, <1>3, <1>4

(* The capture threads that hold a frame.                                  *)
Holding == {t \in Threads : taken[t] # NoFrame}

LEMMA HoldingIsFinite == IsFiniteSet(Holding) /\ Cardinality(Holding) \in Nat
<1>1. IsFiniteSet(Threads)
  BY FS_Interval DEF Threads
<1>2. IsFiniteSet(Holding)
  BY <1>1, FS_Subset DEF Holding
<1> QED
  BY <1>2, FS_CardinalityType

LEMMA HoldingSame ==
  ASSUME taken' = taken
  PROVE  Cardinality(Holding)' = Cardinality(Holding)
BY DEF Holding

LEMMA HoldingTakes ==
  ASSUME taken \in [Threads -> Nums \cup {NoFrame}], NEW t \in Threads, NEW n \in Nums,
         taken[t] = NoFrame, taken' = [taken EXCEPT ![t] = n]
  PROVE  Cardinality(Holding)' = Cardinality(Holding) + 1
<1>1. n # NoFrame
  BY DEF Nums, NoFrame
<1>2. Holding' = Holding \cup {t} /\ t \notin Holding
  BY <1>1 DEF Holding
<1> QED
  BY <1>2, HoldingIsFinite, FS_AddElement

LEMMA HoldingGivesBack ==
  ASSUME taken \in [Threads -> Nums \cup {NoFrame}], NEW t \in Threads,
         taken[t] # NoFrame, taken' = [taken EXCEPT ![t] = NoFrame]
  PROVE  /\ Cardinality(Holding) > 0
         /\ Cardinality(Holding)' = Cardinality(Holding) - 1
<1>1. Holding' = Holding \ {t} /\ t \in Holding
  BY DEF Holding
<1>2. Cardinality(Holding)' = Cardinality(Holding) - 1
  BY <1>1, HoldingIsFinite, FS_RemoveElement
<1>3. Cardinality(Holding) # 0
  BY <1>1, HoldingIsFinite, FS_EmptySet
<1> QED
  BY <1>2, <1>3, HoldingIsFinite

LEMMA Parts ==
  /\ InUse = Len(previewFrames) + CaptureCount + Held(uvcThread, {"add"})
               + Held(preview, {"draw", "add"}) + Cardinality(Holding)
  /\ CaptureCount \in {0, 1} /\ Held(uvcThread, {"add"}) \in {0, 1}
  /\ Held(preview, {"draw", "add"}) \in {0, 1} /\ Cardinality(Holding) \in Nat
BY HoldingIsFinite DEF InUse, Holding, CaptureCount, Held

LEMMA PartsThen ==
  /\ InUse' = Len(previewFrames') + CaptureCount' + Held(uvcThread', {"add"})
               + Held(preview', {"draw", "add"}) + Cardinality(Holding)'
BY DEF InUse, Holding, CaptureCount, Held

(* The count of the buffers over a step that neither takes nor gives back. *)
CountInv == PreviewTypeOK /\ StoppedIsQuiet /\ Holders /\ StartsAndStops /\ BuffersCounted

LEMMA Counted ==
  ASSUME PreviewTypeOK, BuffersCounted
  PROVE  /\ bufs \in Bufs /\ bufs.pool \in Nat /\ bufs.all \in Nat
         /\ Len(previewFrames) \in Nat /\ InUse \in Nat /\ starts \in Nat
         /\ InUse <= bufs.all - bufs.pool
         /\ bufs.all - bufs.pool + (IF MayLose THEN 1 ELSE 0) <= InUse + starts
<1>1. /\ bufs \in Bufs /\ bufs.pool \in Nat /\ bufs.all \in Nat
      /\ Len(previewFrames) \in Nat /\ starts \in Nat
  BY DEF PreviewTypeOK, Bufs
<1>2. InUse \in Nat
  BY <1>1, Parts
<1> QED
  BY <1>1, <1>2 DEF BuffersCounted, Owned

LEMMA PartsBound ==
  ASSUME PreviewTypeOK
  PROVE  /\ CaptureCount \in Nat /\ Len(previewFrames) \in Nat
         /\ Len(previewFrames) + CaptureCount <= InUse
         /\ Len(previewFrames) <= InUse /\ CaptureCount <= InUse
         /\ Held(uvcThread, {"add"}) = 1 => InUse > 0
         /\ Held(preview, {"draw", "add"}) = 1 => InUse > 0
         /\ Cardinality(Holding) > 0 => InUse > 0
<1>1. Len(previewFrames) \in Nat
  BY DEF PreviewTypeOK
<1> QED
  BY <1>1, Parts

LEMMA PartsAreNat ==
  ASSUME PreviewTypeOK
  PROVE  /\ InUse = Len(previewFrames) + CaptureCount + Held(uvcThread, {"add"})
                      + Held(preview, {"draw", "add"}) + Cardinality(Holding)
         /\ CaptureCount \in Nat /\ Len(previewFrames) \in Nat /\ Cardinality(Holding) \in Nat
         /\ Held(uvcThread, {"add"}) \in Nat /\ Held(preview, {"draw", "add"}) \in Nat
<1>1. Len(previewFrames) \in Nat
  BY DEF PreviewTypeOK
<1> QED
  BY <1>1, Parts

LEMMA RoomFor ==
  ASSUME PreviewTypeOK, BuffersCounted
  PROVE  /\ bufs \in Bufs /\ CaptureCount \in Nat
         /\ bufs.pool + CaptureCount <= bufs.all
BY Counted, PartsBound

LEMMA CountedThen ==
  ASSUME bufs' \in Bufs, starts' \in Nat, InUse' \in Nat, InUse' <= bufs'.all - bufs'.pool,
         bufs'.all - bufs'.pool + (IF MayLose' THEN 1 ELSE 0) <= InUse' + starts'
  PROVE  BuffersCounted'
<1>1. bufs'.all \in Nat /\ bufs'.pool \in Nat
  BY DEF Bufs
<1> QED
  BY <1>1 DEF BuffersCounted, Owned

LEMMA QuietCount ==
  ASSUME PreviewTypeOK, BuffersCounted, UNCHANGED <<bufs, starts, taken>>,
         CaptureCount' = CaptureCount, Len(previewFrames') = Len(previewFrames),
         Held(uvcThread', {"add"}) = Held(uvcThread, {"add"}),
         Held(preview', {"draw", "add"}) = Held(preview, {"draw", "add"}),
         MayLose' => MayLose
  PROVE  bufs' \in Bufs /\ BuffersCounted'
<1>1. InUse' = InUse
  BY Parts, PartsThen, HoldingSame
<1> QED
  BY <1>1, Counted, CountedThen

(* The count over the steps of the application's thread and of libuvc's.   *)
LEMMA BuffersOfApp ==
  ASSUME CountInv, AppCalls \/ AppReturns
  PROVE  bufs' \in Bufs /\ BuffersCounted'
<1> USE DEF CountInv
<1>1. ASSUME NEW on \in BOOLEAN, setPreviewDisplay(on) PROVE bufs' \in Bufs /\ BuffersCounted'
  BY <1>1, QuietCount DEF setPreviewDisplay, flags, previewQ, captureQ, appVars, uvcThreadVars,
     previewVars, captureVars, history, MayLose, CaptureCount
<1>2. ASSUME NEW obj \in Callbacks \cup {None}, setFrameCallback(obj)
      PROVE  bufs' \in Bufs /\ BuffersCounted'
  BY <1>2, QuietCount DEF setFrameCallback, previewQ, uvcThreadVars, previewVars, history,
     MayLose, CaptureCount
<1>3. CASE startPreview
  <2>1. /\ UNCHANGED <<bufs, taken, previewFrames, captureQueu, uvcThread>> /\ starts' = starts + 1
        /\ preview' = "prepare" /\ application = "idle" /\ ~mIsRunning
    BY <1>3 DEF startPreview, previewQ, captureQ, uvcThreadVars, captureVars
  <2>2. preview = "ended" /\ ~MayLose
    BY <2>1 DEF StoppedIsQuiet, Stopped, MayLose
  <2>3. InUse' = InUse
    BY <2>1, <2>2, Parts, PartsThen, HoldingSame DEF Held, CaptureCount
  <2> QED
    BY <2>1, <2>2, <2>3, Counted, CountedThen
<1>4. CASE stopPreview
  BY <1>4, QuietCount DEF stopPreview, previewQ, captureQ, uvcThreadVars, previewVars,
     captureVars, settled, history, MayLose, CaptureCount
<1>5. CASE WaitCapturing \/ StopSignalsCapture \/ JoinPreview
  BY <1>5, QuietCount DEF WaitCapturing, StopSignalsCapture, JoinPreview, flags, previewQ,
     captureQ, uvcThreadVars, previewVars, captureVars, settled, history, MayLose, CaptureCount
<1>6. CASE FrameCallbackSet \/ JoinCapture
  BY <1>6, QuietCount DEF FrameCallbackSet, JoinCapture, flags, previewQ, captureQ, uvcThreadVars,
     previewVars, captureVars, history, MayLose, CaptureCount
<1>7. CASE StopSignalsPreview
  BY <1>7, QuietCount DEF StopSignalsPreview, SignalPreview, StartsAndStops, flags, captureQ,
     uvcThreadVars, captureVars, settled, history, MayLose, CaptureCount, Held
<1>8. CASE StopClears
  <2>1. /\ previewFrames' = <<>> /\ captureQueu' = NoFrame
        /\ UNCHANGED <<uvcThread, preview, taken>>
        /\ bufs' = Recycled(bufs, Len(previewFrames) + CaptureCount)
        /\ starts' = starts /\ MayLose' = MayLose
    BY <1>8 DEF StopClears, ClearPreview, ClearCapture, flags, uvcThreadVars, previewVars,
       captureVars, history, MayLose
  <2>2. Len(previewFrames') = 0 /\ CaptureCount' = 0
    BY <2>1 DEF CaptureCount
  <2>3. InUse' = InUse - (Len(previewFrames) + CaptureCount)
    BY <2>1, <2>2, Parts, PartsThen, HoldingSame, Counted
  <2>4. Len(previewFrames) + CaptureCount \in Nat /\ Len(previewFrames) + CaptureCount <= InUse
    BY Parts, Counted
  <2>5. /\ bufs' \in Bufs
        /\ bufs'.all - bufs'.pool = bufs.all - bufs.pool - (Len(previewFrames) + CaptureCount)
    BY <2>1, <2>4, RecycledFrames, Counted
  <2> QED
    BY <2>1, <2>3, <2>4, <2>5, Counted, CountedThen
<1> QED
  BY <1>1, <1>2, <1>3, <1>4, <1>5, <1>6, <1>7, <1>8 DEF AppCalls, AppReturns

LEMMA BuffersOfLibuvc ==
  ASSUME CountInv, FrameArrives \/ addPreviewFrame
  PROVE  bufs' \in Bufs /\ BuffersCounted'
<1> USE DEF CountInv
<1>1. CASE FrameArrives
  <2>1. /\ UNCHANGED <<starts, taken, previewFrames, captureQueu, preview>>
        /\ bufs' = get_frame(bufs)
        /\ uvcThread = "idle" /\ uvcThread' = "add" /\ MayLose' = MayLose
    BY <1>1 DEF FrameArrives, flags, previewQ, captureQ, previewVars, captureVars, MayLose
  <2>4. /\ Held(uvcThread, {"add"}) = 0 /\ Held(uvcThread', {"add"}) = 1
        /\ Held(preview', {"draw", "add"}) = Held(preview, {"draw", "add"})
        /\ CaptureCount' = CaptureCount
    BY <2>1 DEF Held, CaptureCount
  <2>2. InUse' = InUse + 1
    BY <2>1, <2>4, Parts, PartsThen, HoldingSame, Counted
  <2>3. bufs' \in Bufs /\ bufs'.all - bufs'.pool = bufs.all - bufs.pool + 1
    BY <2>1, GetFrame, Counted
  <2> QED
    BY <2>1, <2>2, <2>3, Counted, CountedThen
<1>2. CASE addPreviewFrame
  <2>1. /\ UNCHANGED <<starts, taken, captureQueu, mIsRunning>>
        /\ uvcThread = "add" /\ uvcThread' = "idle"
    BY <1>2 DEF addPreviewFrame, flags, captureQ, captureVars, settled, history
  <2>4. /\ Held(uvcThread, {"add"}) = 1 /\ Held(uvcThread', {"add"}) = 0
        /\ CaptureCount' = CaptureCount
    BY <2>1 DEF Held, CaptureCount
  <2>2. CASE mIsRunning /\ Len(previewFrames) < MaxFrame
    <3>1. previewFrames' = Append(previewFrames, copy) /\ bufs' = bufs /\ SignalPreview
      BY <1>2, <2>2 DEF addPreviewFrame
    <3>2. Len(previewFrames') = Len(previewFrames) + 1
      BY <3>1 DEF PreviewTypeOK
    <3>3. (MayLose' => MayLose) /\ Held(preview', {"draw", "add"}) = Held(preview, {"draw", "add"})
      BY <2>1, <3>1 DEF SignalPreview, StartsAndStops, MayLose, Held
    <3>4. InUse' = InUse
      BY <2>1, <2>4, <3>2, <3>3, Parts, PartsThen, HoldingSame, Counted
    <3> QED
      BY <2>1, <3>1, <3>3, <3>4, Counted, CountedThen
  <2>3. CASE ~(mIsRunning /\ Len(previewFrames) < MaxFrame)
    <3>1. UNCHANGED <<previewFrames, preview>> /\ bufs' = recycle_frame(bufs) /\ MayLose' = MayLose
      BY <1>2, <2>1, <2>3 DEF addPreviewFrame, MayLose
    <3>21. InUse > 0
      BY <2>1, <2>4, <3>1, PartsBound
    <3>22. InUse' = InUse - 1
      BY <2>1, <2>4, <3>1, Parts, PartsThen, HoldingSame, Counted
    <3>2. InUse' = InUse - 1 /\ InUse > 0
      BY <3>21, <3>22
    <3>3. bufs' \in Bufs /\ bufs'.all - bufs'.pool = bufs.all - bufs.pool - 1
      BY <3>1, <3>2, RecycleFrame, Counted
    <3> QED
      BY <2>1, <3>1, <3>2, <3>3, Counted, CountedThen
  <2> QED
    BY <2>2, <2>3
<1> QED
  BY <1>1, <1>2

(* The count over the steps of the preview thread.                         *)
LEMMA BuffersOfPreview ==
  ASSUME CountInv, PreviewThread
  PROVE  bufs' \in Bufs /\ BuffersCounted'
<1> USE DEF CountInv
<1>1. CASE PreparePreview \/ StartStreaming \/ PreviewLoop \/ PreviewWaits
  <2>1. /\ UNCHANGED <<bufs, starts, taken, captureQueu, previewFrames, mIsRunning>>
        /\ preview \notin {"draw", "add"} /\ preview' \notin {"draw", "add"}
        /\ (MayLose' => MayLose)
    BY <1>1 DEF PreparePreview, StartStreaming, PreviewLoop, PreviewWaits, GoPreview, flags,
       previewQ, captureQ, captureVars, settled, history, MayLose
  <2>2. (uvcThread # "add" /\ uvcThread' # "add") \/ uvcThread' = uvcThread
    BY <1>1 DEF PreparePreview, StartStreaming, PreviewLoop, PreviewWaits, GoPreview,
       uvcThreadVars, StartsAndStops
  <2> QED
    BY <2>1, <2>2, QuietCount DEF Held, CaptureCount
<1>2. CASE PreviewSignals \/ StopStreaming
  <2>1. /\ UNCHANGED <<bufs, starts, taken, captureQueu, previewFrames, mIsRunning>>
        /\ preview \notin {"draw", "add"} /\ preview' \in {"stop", "ended"}
    BY <1>2 DEF PreviewSignals, StopStreaming, GoPreview, flags, previewQ, captureQ, captureVars,
       settled, history
  <2>2. (uvcThread # "add" /\ uvcThread' # "add") \/ uvcThread' = uvcThread
    BY <1>2 DEF PreviewSignals, StopStreaming, uvcThreadVars
  <2> QED
    BY <2>1, <2>2, QuietCount DEF Held, CaptureCount, MayLose
<1>3. CASE StartCapture
  <2>1. /\ UNCHANGED <<starts, taken, captureQueu, uvcThread>>
        /\ previewFrames' = <<>> /\ bufs' = Recycled(bufs, Len(previewFrames))
        /\ preview = "clear" /\ preview' = "loop" /\ MayLose
    BY <1>3 DEF StartCapture, GoPreview, ClearPreview, captureQ, uvcThreadVars, history, MayLose
  <2>2. /\ Len(previewFrames') = 0 /\ CaptureCount' = CaptureCount
        /\ Held(preview, {"draw", "add"}) = 0 /\ Held(preview', {"draw", "add"}) = 0
    BY <2>1 DEF CaptureCount, Held
  <2>31. Len(previewFrames) <= InUse
    BY <2>1, <2>2, PartsBound
  <2>32. InUse' = InUse - Len(previewFrames)
    BY <2>1, <2>2, Parts, PartsThen, HoldingSame, Counted
  <2>3. InUse' = InUse - Len(previewFrames) /\ Len(previewFrames) <= InUse
    BY <2>31, <2>32
  <2>4. bufs' \in Bufs /\ bufs'.all - bufs'.pool = bufs.all - bufs.pool - Len(previewFrames)
    BY <2>1, <2>3, RecycledFrames, Counted
  <2> QED
    BY <2>1, <2>3, <2>4, Counted, CountedThen
<1>4. CASE waitPreviewFrame
  <2>1. /\ UNCHANGED <<bufs, starts, taken, captureQueu, uvcThread, mIsRunning>>
        /\ preview \in {"test", "woken"}
    BY <1>4 DEF waitPreviewFrame, flags, captureQ, uvcThreadVars, captureVars, settled, history
  <2>2. CASE previewFrames # <<>> /\ preview' = "draw" /\ previewFrames' = Tail(previewFrames)
    <3>1. Len(previewFrames') = Len(previewFrames) - 1
      BY <2>2 DEF PreviewTypeOK
    <3>2. /\ CaptureCount' = CaptureCount /\ (MayLose' => MayLose)
          /\ Held(preview, {"draw", "add"}) = 0 /\ Held(preview', {"draw", "add"}) = 1
      BY <2>1, <2>2 DEF CaptureCount, Held, MayLose
    <3>3. InUse' = InUse
      BY <2>1, <3>1, <3>2, Parts, PartsThen, HoldingSame, Counted
    <3> QED
      BY <2>1, <3>2, <3>3, Counted, CountedThen
  <2>3. CASE preview' \in {"wait", "loop"} /\ previewFrames' = previewFrames
    BY <2>1, <2>3, QuietCount DEF Held, CaptureCount, MayLose
  <2> QED
    BY <1>4, <2>2, <2>3 DEF waitPreviewFrame, TakePreviewFrame
<1>5. CASE draw_preview_one
  <2>1. /\ UNCHANGED <<starts, taken, captureQueu, uvcThread, previewFrames, mIsRunning>>
        /\ preview = "draw"
    BY <1>5 DEF draw_preview_one, flags, previewQ, captureQ, uvcThreadVars, captureVars, settled,
       history
  <2>2. /\ Held(preview, {"draw", "add"}) = 1 /\ CaptureCount' = CaptureCount /\ MayLose
    BY <2>1 DEF Held, CaptureCount, MayLose
  <2>3. /\ Converted(bufs) \in Bufs
        /\ Converted(bufs).all - Converted(bufs).pool = bufs.all - bufs.pool
    BY ConvertedFrame, Counted
  <2>4. CASE preview' = "add" /\ bufs' \in {Converted(bufs), bufs}
    <3>1. Held(preview', {"draw", "add"}) = 1
      BY <2>4 DEF Held
    <3>2. InUse' = InUse
      BY <2>1, <2>2, <3>1, Parts, PartsThen, HoldingSame, Counted
    <3>3. bufs' \in Bufs /\ bufs'.all - bufs'.pool = bufs.all - bufs.pool
      BY <2>3, <2>4, Counted
    <3> QED
      BY <2>1, <2>2, <3>2, <3>3, Counted, CountedThen
  <2>5. CASE preview' = "loop" /\ bufs' = recycle_frame(Converted(bufs))
    <3>1. Held(preview', {"draw", "add"}) = 0
      BY <2>5 DEF Held
    <3>21. InUse > 0
      BY <2>1, <2>2, <3>1, PartsBound
    <3>22. InUse' = InUse - 1
      BY <2>1, <2>2, <3>1, Parts, PartsThen, HoldingSame, Counted
    <3>2. InUse' = InUse - 1 /\ InUse > 0
      BY <3>21, <3>22
    <3>3. Converted(bufs).pool < Converted(bufs).all
      BY <2>3, <3>2, Counted DEF Bufs
    <3>4. /\ bufs' \in Bufs
          /\ bufs'.all - bufs'.pool = Converted(bufs).all - Converted(bufs).pool - 1
      BY <2>3, <2>5, <3>3, RecycleFrame, Zenon
    <3> QED
      BY <2>1, <2>2, <2>3, <3>2, <3>4, Counted, CountedThen
  <2> QED
    BY <1>5, <2>4, <2>5 DEF draw_preview_one
<1>6. CASE addCaptureFrame
  <2>1. /\ UNCHANGED <<starts, taken, uvcThread, previewFrames, mIsRunning>>
        /\ preview = "add" /\ preview' = "loop" /\ MayLose /\ frame # NoFrame
    BY <1>6 DEF addCaptureFrame, flags, previewQ, uvcThreadVars, settled, history, MayLose,
       Holders
  <2>2. /\ Held(preview, {"draw", "add"}) = 1 /\ Held(preview', {"draw", "add"}) = 0
    BY <2>1 DEF Held
  <2>3. CASE mIsRunning
    <3>1. /\ captureQueu' = frame /\ bufs' = Recycled(bufs, CaptureCount)
      BY <1>6, <2>3 DEF addCaptureFrame
    <3>2. CaptureCount' = 1
      BY <2>1, <3>1 DEF CaptureCount
    <3>31. CaptureCount <= InUse /\ CaptureCount \in Nat
      BY <2>1, <2>2, <3>2, PartsBound
    <3>32. InUse' = InUse - CaptureCount
      BY <2>1, <2>2, <3>2, PartsAreNat, PartsThen, HoldingSame
    <3>3. InUse' = InUse - CaptureCount /\ CaptureCount <= InUse /\ CaptureCount \in Nat
      BY <3>31, <3>32
    <3>4. bufs' \in Bufs /\ bufs'.all - bufs'.pool = bufs.all - bufs.pool - CaptureCount
      BY <3>1, <3>3, RecycledFrames, RoomFor
    <3> QED
      BY <2>1, <3>3, <3>4, Counted, CountedThen
  <2>4. CASE ~mIsRunning
    <3>1. UNCHANGED <<captureQueu, bufs>>
      BY <1>6, <2>4 DEF addCaptureFrame
    <3>2. CaptureCount' = CaptureCount /\ ~MayLose'
      BY <2>1, <2>4, <3>1 DEF CaptureCount, MayLose
    <3>31. InUse > 0
      BY <2>1, <2>2, <3>2, PartsBound
    <3>32. InUse' = InUse - 1
      BY <2>1, <2>2, <3>2, Parts, PartsThen, HoldingSame, Counted
    <3>3. InUse' = InUse - 1 /\ InUse > 0
      BY <3>31, <3>32
    <3> QED
      BY <2>1, <3>1, <3>2, <3>3, Counted, CountedThen
  <2> QED
    BY <2>3, <2>4
<1> QED
  BY <1>1, <1>2, <1>3, <1>4, <1>5, <1>6 DEF PreviewThread

(* ... and over those of a capture thread.                                 *)
LEMMA BuffersOfCapture ==
  ASSUME CountInv, NEW t \in Threads, CaptureThread(t)
  PROVE  bufs' \in Bufs /\ BuffersCounted'
<1> USE DEF CountInv
<1>1. /\ UNCHANGED <<starts, uvcThread, previewFrames, mIsRunning, preview>>
      /\ Held(uvcThread', {"add"}) = Held(uvcThread, {"add"})
      /\ Held(preview', {"draw", "add"}) = Held(preview, {"draw", "add"})
      /\ MayLose' = MayLose
  <2>1. UNCHANGED <<starts, uvcThread, previewFrames, mIsRunning, preview>>
    BY CaptureThreadLeaves DEF previewQ, uvcThreadVars, previewVars, settled, history
  <2> QED
    BY <2>1 DEF MayLose
<1>2. CASE do_capture(t) \/ do_capture_idle_loop(t) \/ CaptureWaits(t) \/ CallOnFrame(t)
             \/ CaptureBroadcasts(t)
  BY <1>1, <1>2, QuietCount DEF do_capture, do_capture_idle_loop, CaptureWaits, CallOnFrame,
     CaptureBroadcasts, captureQ, CaptureCount
<1>3. CASE CaptureBegins(t)
  <2>1. /\ captureQueu' = NoFrame /\ taken' = taken /\ bufs' = Recycled(bufs, CaptureCount)
    BY <1>3 DEF CaptureBegins, ClearCapture
  <2>2. CaptureCount' = 0
    BY <2>1 DEF CaptureCount
  <2>31. CaptureCount <= InUse /\ CaptureCount \in Nat
    BY <1>1, <2>1, <2>2, PartsBound
  <2>32. InUse' = InUse - CaptureCount
    BY <1>1, <2>1, <2>2, PartsAreNat, PartsThen, HoldingSame
  <2>3. InUse' = InUse - CaptureCount /\ CaptureCount <= InUse /\ CaptureCount \in Nat
    BY <2>31, <2>32
  <2>4. bufs' \in Bufs /\ bufs'.all - bufs'.pool = bufs.all - bufs.pool - CaptureCount
    BY <2>1, <2>3, RecycledFrames, RoomFor
  <2> QED
    BY <1>1, <2>3, <2>4, Counted, CountedThen
<1>4. CASE waitCaptureFrame(t)
  <2>1. bufs' = bufs /\ taken[t] = NoFrame
    BY <1>4 DEF waitCaptureFrame, Holders
  <2>2. CASE UNCHANGED <<taken, captureQueu>>
    BY <1>1, <2>1, <2>2, QuietCount DEF CaptureCount
  <2>3. CASE captureQueu # NoFrame /\ TakeCaptureFrame(t)
    <3>1. captureQueu \in Nums
      BY <2>3 DEF PreviewTypeOK
    <3>2. Cardinality(Holding)' = Cardinality(Holding) + 1
      BY <2>1, <2>3, <3>1, HoldingTakes DEF TakeCaptureFrame, PreviewTypeOK
    <3>3. CaptureCount = 1 /\ CaptureCount' = 0
      BY <2>3 DEF CaptureCount, TakeCaptureFrame
    <3>4. InUse' = InUse
      BY <1>1, <3>2, <3>3, Parts, PartsThen, Counted
    <3> QED
      BY <1>1, <2>1, <3>4, Counted, CountedThen
  <2> QED
    BY <1>4, <2>2, <2>3 DEF waitCaptureFrame
<1>5. ASSUME taken[t] # NoFrame, taken' = [taken EXCEPT ![t] = NoFrame], captureQueu' = captureQueu,
             bufs' = recycle_frame(bufs)
      PROVE  bufs' \in Bufs /\ BuffersCounted'
  <2>1. /\ Cardinality(Holding) > 0
        /\ Cardinality(Holding)' = Cardinality(Holding) - 1
    BY <1>5, HoldingGivesBack DEF PreviewTypeOK
  <2>2. CaptureCount' = CaptureCount
    BY <1>5 DEF CaptureCount
  <2>31. InUse > 0
    BY <1>1, <2>1, <2>2, PartsBound
  <2>32. InUse' = InUse - 1
    BY <1>1, <2>1, <2>2, Parts, PartsThen, Counted
  <2>3. InUse' = InUse - 1 /\ InUse > 0
    BY <2>31, <2>32
  <2>4. bufs' \in Bufs /\ bufs'.all - bufs'.pool = bufs.all - bufs.pool - 1
    BY <1>5, <2>3, RecycleFrame, Counted
  <2> QED
    BY <1>1, <2>3, <2>4, Counted, CountedThen
<1>6. CASE do_capture_callback(t)
  <2>1. captureQueu' = captureQueu /\ taken[t] # NoFrame
    BY <1>6 DEF do_capture_callback, GoCapture, captureQ, Holders
  <2>2. CASE mFrameCallbackObj = None
    BY <1>5, <1>6, <2>1, <2>2 DEF do_capture_callback
  <2>3. CASE mFrameCallbackObj # None
    <3>1. bufs' = Converted(bufs) /\ taken' = taken
      BY <1>6, <2>3 DEF do_capture_callback
    <3>2. bufs' \in Bufs /\ bufs'.all - bufs'.pool = bufs.all - bufs.pool
      BY <3>1, ConvertedFrame, Counted
    <3>3. CaptureCount' = CaptureCount
      BY <2>1 DEF CaptureCount
    <3>4. InUse' = InUse
      BY <1>1, <3>1, <3>3, Parts, PartsThen, HoldingSame, Counted
    <3> QED
      BY <1>1, <3>2, <3>4, Counted, CountedThen
  <2> QED
    BY <2>2, <2>3
<1>7. CASE OnFrameReturns(t)
  BY <1>5, <1>7 DEF OnFrameReturns, GoCapture, captureQ, Holders
<1> QED
  BY <1>2, <1>3, <1>4, <1>6, <1>7 DEF CaptureThread

LEMMA BuffersStep ==
  ASSUME CountInv, PreviewNext
  PROVE  bufs' \in Bufs /\ BuffersCounted'
BY BuffersOfApp, BuffersOfLibuvc, BuffersOfPreview, BuffersOfCapture DEF PreviewNext

(* Types.                                                                  *)
FlagTypes ==
  /\ mIsRunning \in BOOLEAN /\ mIsCapturing \in BOOLEAN /\ window \in BOOLEAN
  /\ previewLock \in BOOLEAN /\ previewWait \in BOOLEAN /\ captureLock \in BOOLEAN
StepTypes ==
  /\ mFrameCallbackObj \in Callbacks \cup {None} /\ appArg \in Callbacks \cup {None}
  /\ application \in AppSteps /\ uvcThread \in UvcThreadSteps /\ preview \in PreviewSteps
FrameTypes ==
  /\ captureQueu \in Nums \cup {NoFrame} /\ copy \in Nums \cup {NoFrame}
  /\ frame \in Nums \cup {NoFrame} /\ taken \in [Threads -> Nums \cup {NoFrame}]
  /\ seq \in 0..MaxSeq /\ since \in 0..MaxSeq
CaptureTypes ==
  /\ captureWait \subseteq {App} \cup Threads
  /\ capture \in [Threads -> CaptureSteps]
  /\ capture_thread \in {0} \cup Threads
  /\ starts \in 0..MaxStarts

LEMMA TypeParts ==
  PreviewTypeOK <=> /\ FlagTypes /\ StepTypes /\ FrameTypes /\ CaptureTypes /\ bufs \in Bufs
                    /\ previewFrames \in Seq(Nums) /\ Len(previewFrames) <= MaxFrame
BY DEF PreviewTypeOK, FlagTypes, StepTypes, FrameTypes, CaptureTypes, Bufs

LEMMA FlagTypesStep ==
  ASSUME FlagTypes, PreviewNext
  PROVE  FlagTypes'
<1> USE DEF FlagTypes, flags, previewQ, captureQ, appVars, uvcThreadVars, previewVars,
           captureVars, history, settled
<1>1. CASE AppCalls
  BY <1>1 DEF AppCalls, setPreviewDisplay, setFrameCallback, startPreview, stopPreview, SetObject
<1>2. CASE AppReturns
  BY <1>2 DEF AppReturns, WaitCapturing, FrameCallbackSet, StopSignalsPreview, StopSignalsCapture,
     JoinCapture, JoinPreview, StopClears, SetObject, SignalPreview
<1>3. CASE FrameArrives \/ addPreviewFrame
  BY <1>3 DEF FrameArrives, addPreviewFrame, SignalPreview
<1>4. CASE PreviewThread
  BY <1>4 DEF PreviewThread, PreparePreview, StartStreaming, StartCapture, PreviewLoop,
     waitPreviewFrame, PreviewWaits, draw_preview_one, addCaptureFrame, PreviewSignals,
     StopStreaming
<1>5. CASE \E t \in Threads : CaptureThread(t)
  BY <1>5 DEF CaptureThread, CaptureBegins, do_capture, do_capture_idle_loop, waitCaptureFrame,
     CaptureWaits, do_capture_callback, CallOnFrame, OnFrameReturns, CaptureBroadcasts
<1> QED
  BY <1>1, <1>2, <1>3, <1>4, <1>5 DEF PreviewNext

LEMMA StepTypesStep ==
  ASSUME StepTypes, PreviewNext
  PROVE  StepTypes'
<1> USE DEF StepTypes, AppSteps, UvcThreadSteps, PreviewSteps, flags, previewQ, captureQ, appVars,
           uvcThreadVars, previewVars, captureVars, history, settled
<1>1. CASE AppCalls
  BY <1>1 DEF AppCalls, setPreviewDisplay, setFrameCallback, startPreview, stopPreview, SetObject
<1>2. CASE AppReturns
  BY <1>2 DEF AppReturns, WaitCapturing, FrameCallbackSet, StopSignalsPreview, StopSignalsCapture,
     JoinCapture, JoinPreview, StopClears, SetObject, SignalPreview
<1>3. CASE FrameArrives \/ addPreviewFrame
  BY <1>3 DEF FrameArrives, addPreviewFrame, SignalPreview
<1>4. CASE PreviewThread
  BY <1>4 DEF PreviewThread, PreparePreview, StartStreaming, StartCapture, PreviewLoop,
     waitPreviewFrame, TakePreviewFrame, PreviewWaits, draw_preview_one, addCaptureFrame,
     PreviewSignals, StopStreaming, GoPreview, BroadcastCapture, SignalCapture, Wake
<1>5. CASE \E t \in Threads : CaptureThread(t)
  BY <1>5, CaptureThreadLeaves
<1> QED
  BY <1>1, <1>2, <1>3, <1>4, <1>5 DEF PreviewNext

LEMMA FrameTypesStep ==
  ASSUME FrameTypes, previewFrames \in Seq(Nums), PreviewNext
  PROVE  FrameTypes'
<1> USE DEF FrameTypes, Nums, flags, previewQ, captureQ, appVars, uvcThreadVars, previewVars,
           captureVars, history, settled
<1>1. CASE AppCalls
  BY <1>1 DEF AppCalls, setPreviewDisplay, setFrameCallback, startPreview, stopPreview
<1>2. CASE AppReturns
  BY <1>2 DEF AppReturns, WaitCapturing, FrameCallbackSet, StopSignalsPreview, StopSignalsCapture,
     JoinCapture, JoinPreview, StopClears, ClearCapture
<1>3. CASE FrameArrives \/ addPreviewFrame
  BY <1>3 DEF FrameArrives, addPreviewFrame
<1>4. CASE PreviewThread
  BY <1>4 DEF PreviewThread, PreparePreview, StartStreaming, StartCapture, PreviewLoop,
     waitPreviewFrame, TakePreviewFrame, PreviewWaits, draw_preview_one, addCaptureFrame,
     PreviewSignals, StopStreaming
<1>5. CASE \E t \in Threads : CaptureThread(t)
  BY <1>5 DEF CaptureThread, CaptureBegins, do_capture, do_capture_idle_loop, waitCaptureFrame,
     CaptureWaits, do_capture_callback, CallOnFrame, OnFrameReturns, CaptureBroadcasts,
     ClearCapture, TakeCaptureFrame
<1> QED
  BY <1>1, <1>2, <1>3, <1>4, <1>5 DEF PreviewNext

LEMMA CaptureTypesStep ==
  ASSUME CaptureTypes, PreviewNext
  PROVE  CaptureTypes'
<1> USE DEF CaptureTypes, CaptureSteps, flags, previewQ, captureQ, appVars, uvcThreadVars,
           previewVars, captureVars, history, settled
<1>1. CASE AppCalls
  <2>1. ASSUME NEW obj \in Callbacks \cup {None}, setFrameCallback(obj) PROVE CaptureTypes'
    BY <2>1 DEF setFrameCallback
  <2>2. CASE startPreview
    BY <2>2 DEF startPreview
  <2>3. CASE stopPreview \/ \E on \in BOOLEAN : setPreviewDisplay(on)
    BY <2>3 DEF stopPreview, setPreviewDisplay
  <2> QED
    BY <1>1, <2>1, <2>2, <2>3 DEF AppCalls
<1>2. CASE AppReturns
  BY <1>2 DEF AppReturns, WaitCapturing, FrameCallbackSet, StopSignalsPreview, StopSignalsCapture,
     JoinCapture, JoinPreview, StopClears
<1>3. CASE FrameArrives \/ addPreviewFrame
  BY <1>3 DEF FrameArrives, addPreviewFrame
<1>4. CASE PreviewThread
  <2>1. CASE StartCapture
    <3>1. starts \in {0} \cup Threads
      BY DEF Threads
    <3> QED
      BY <2>1, <3>1 DEF StartCapture
  <2>2. CASE addCaptureFrame
    BY <2>2 DEF addCaptureFrame, BroadcastCapture, Wake
  <2>3. CASE PreviewSignals
    BY <2>3 DEF PreviewSignals, SignalCapture, Wake
  <2>4. CASE PreparePreview \/ StartStreaming \/ PreviewLoop \/ waitPreviewFrame \/ PreviewWaits
               \/ draw_preview_one \/ StopStreaming
    BY <2>4 DEF PreparePreview, StartStreaming, PreviewLoop, waitPreviewFrame, PreviewWaits,
       draw_preview_one, StopStreaming
  <2> QED
    BY <1>4, <2>1, <2>2, <2>3, <2>4 DEF PreviewThread
<1>5. CASE \E t \in Threads : CaptureThread(t)
  BY <1>5 DEF CaptureThread, CaptureBegins, do_capture, do_capture_idle_loop, waitCaptureFrame,
     CaptureWaits, do_capture_callback, CallOnFrame, OnFrameReturns, CaptureBroadcasts, GoCapture
<1> QED
  BY <1>1, <1>2, <1>3, <1>4, <1>5 DEF PreviewNext

(* The preview queue is a sequence of at most MAX_FRAME frames.            *)
LEMMA QueueStep ==
  ASSUME PreviewTypeOK, Holders, PreviewNext
  PROVE  previewFrames' \in Seq(Nums) /\ Len(previewFrames') <= MaxFrame
<1> USE DEF PreviewTypeOK
<1>1. CASE UNCHANGED previewFrames
  BY <1>1
<1>2. CASE previewFrames' = <<>>
  BY <1>2
<1>3. CASE /\ Len(previewFrames) < MaxFrame /\ uvcThread = "add"
           /\ previewFrames' = Append(previewFrames, copy)
  <2>1. copy \in Nums
    BY <1>3 DEF Holders
  <2> QED
    BY <1>3, <2>1
<1>4. CASE previewFrames # <<>> /\ previewFrames' = Tail(previewFrames)
  BY <1>4
<1>5. CASE AppCalls
  BY <1>1, <1>5 DEF AppCalls, setPreviewDisplay, setFrameCallback, startPreview, stopPreview,
     previewQ
<1>6. CASE AppReturns
  BY <1>1, <1>2, <1>6 DEF AppReturns, WaitCapturing, FrameCallbackSet, StopSignalsPreview,
     StopSignalsCapture, JoinCapture, JoinPreview, StopClears, ClearPreview, previewQ
<1>7. CASE FrameArrives \/ addPreviewFrame
  BY <1>1, <1>3, <1>7 DEF FrameArrives, addPreviewFrame, previewQ
<1>8. CASE PreviewThread
  BY <1>1, <1>2, <1>4, <1>8 DEF PreviewThread, PreparePreview, StartStreaming, StartCapture,
     PreviewLoop, waitPreviewFrame, TakePreviewFrame, PreviewWaits, draw_preview_one,
     addCaptureFrame, PreviewSignals, StopStreaming, ClearPreview, previewQ
<1>9. CASE \E t \in Threads : CaptureThread(t)
  BY <1>1, <1>9, CaptureThreadLeaves DEF previewQ
<1> QED
  BY <1>5, <1>6, <1>7, <1>8, <1>9 DEF PreviewNext

LEMMA PreviewTypes ==
  ASSUME CountInv, PreviewNext
  PROVE  PreviewTypeOK'
<1>1. /\ FlagTypes /\ StepTypes /\ FrameTypes /\ CaptureTypes /\ previewFrames \in Seq(Nums)
  BY TypeParts DEF CountInv
<1>2. FlagTypes' /\ StepTypes' /\ FrameTypes' /\ CaptureTypes'
  BY <1>1, FlagTypesStep, StepTypesStep, FrameTypesStep, CaptureTypesStep
<1>3. previewFrames' \in Seq(Nums) /\ Len(previewFrames') <= MaxFrame
  BY QueueStep DEF CountInv
<1>4. bufs' \in Bufs
  BY BuffersStep
<1> QED
  BY <1>2, <1>3, <1>4 DEF PreviewTypeOK, FlagTypes, StepTypes, FrameTypes, CaptureTypes, Bufs

(* The other threads only wake a capture thread.                           *)
OnlyWake ==
  /\ taken' = taken
  /\ \A t \in Threads : \/ t \in captureWait /\ t \notin captureWait' /\ capture'[t] = "woken"
                        \/ capture'[t] = capture[t] /\ (t \in captureWait' <=> t \in captureWait)

LEMMA WakesOne ==
  ASSUME CaptureTypes, taken' = taken, NEW t, t \in captureWait, captureWait' = captureWait \ {t},
         capture' = [capture EXCEPT ![t] = "woken"]
  PROVE  OnlyWake
<1>1. ASSUME NEW u \in Threads
      PROVE  \/ u \in captureWait /\ u \notin captureWait' /\ capture'[u] = "woken"
             \/ capture'[u] = capture[u] /\ (u \in captureWait' <=> u \in captureWait)
  <2>1. CASE u = t
    BY <2>1 DEF CaptureTypes
  <2>2. CASE u # t
    BY <2>2 DEF CaptureTypes
  <2> QED
    BY <2>1, <2>2
<1> QED
  BY <1>1 DEF OnlyWake

LEMMA WakesSome ==
  ASSUME CaptureTypes, taken' = taken, NEW who, who \subseteq captureWait, Wake(who)
  PROVE  OnlyWake
<1>1. ASSUME NEW u \in Threads
      PROVE  \/ u \in captureWait /\ u \notin captureWait' /\ capture'[u] = "woken"
             \/ capture'[u] = capture[u] /\ (u \in captureWait' <=> u \in captureWait)
  <2>1. CASE u \in who
    BY <2>1 DEF Wake
  <2>2. CASE u \notin who
    BY <2>2 DEF Wake
  <2> QED
    BY <2>1, <2>2
<1> QED
  BY <1>1 DEF OnlyWake

LEMMA WakesNone ==
  ASSUME UNCHANGED <<taken, captureWait, capture>>
  PROVE  OnlyWake
BY DEF OnlyWake

LEMMA OthersOnlyWake ==
  ASSUME CaptureTypes, AppCalls \/ AppReturns \/ FrameArrives \/ addPreviewFrame \/ PreviewThread,
         ~StartCapture
  PROVE  OnlyWake
<1> USE DEF previewQ, captureQ, captureVars
<1>1. CASE AppCalls
  <2>1. ASSUME NEW obj \in Callbacks \cup {None}, setFrameCallback(obj) PROVE OnlyWake
    <3>1. taken' = taken
      BY <2>1 DEF setFrameCallback
    <3>2. UNCHANGED <<captureWait, capture>> \/ \E t \in captureWait :
            captureWait' = captureWait \ {t} /\ capture' = [capture EXCEPT ![t] = "woken"]
      BY <2>1 DEF setFrameCallback
    <3> QED
      BY <3>1, <3>2, WakesOne, WakesNone
  <2> QED
    BY <1>1, <2>1, WakesNone DEF AppCalls, setPreviewDisplay, startPreview, stopPreview
<1>2. CASE WaitCapturing
  BY <1>2 DEF WaitCapturing, OnlyWake, App, Threads
<1>3. CASE StopSignalsCapture
  BY <1>3, WakesOne, WakesNone DEF StopSignalsCapture
<1>4. CASE FrameCallbackSet \/ StopSignalsPreview \/ JoinCapture \/ JoinPreview \/ StopClears
             \/ FrameArrives \/ addPreviewFrame
  BY <1>4, WakesNone DEF FrameCallbackSet, StopSignalsPreview, JoinCapture, JoinPreview,
     StopClears, FrameArrives, addPreviewFrame
<1>5. CASE addCaptureFrame
  BY <1>5, WakesSome, WakesNone DEF addCaptureFrame, BroadcastCapture
<1>6. CASE PreviewSignals
  BY <1>6, WakesSome DEF PreviewSignals, SignalCapture
<1>7. CASE PreparePreview \/ StartStreaming \/ PreviewLoop \/ waitPreviewFrame \/ PreviewWaits
             \/ draw_preview_one \/ StopStreaming
  BY <1>7, WakesNone DEF PreparePreview, StartStreaming, PreviewLoop, waitPreviewFrame,
     PreviewWaits, draw_preview_one, StopStreaming
<1> QED
  BY <1>1, <1>2, <1>3, <1>4, <1>5, <1>6, <1>7 DEF AppReturns, PreviewThread

(* Who holds a frame.                                                      *)
LEMMA HoldersStep ==
  ASSUME PreviewTypeOK, Holders, StartsAndStops, StoppedIsQuiet, CaptureThreads, PreviewNext
  PROVE  Holders'
<1>0. /\ FlagTypes /\ StepTypes /\ FrameTypes /\ CaptureTypes /\ previewFrames \in Seq(Nums)
  BY TypeParts
<1>1. (copy # NoFrame <=> uvcThread = "add")'
  <2> USE DEF Holders, StartsAndStops, flags, previewQ, captureQ, appVars, uvcThreadVars,
             previewVars, captureVars, history, settled
  <2>1. CASE AppCalls
    BY <2>1 DEF AppCalls, setPreviewDisplay, setFrameCallback, startPreview, stopPreview
  <2>2. CASE AppReturns
    BY <2>2 DEF AppReturns, WaitCapturing, FrameCallbackSet, StopSignalsPreview,
       StopSignalsCapture, JoinCapture, JoinPreview, StopClears
  <2>3. CASE FrameArrives
    <3>1. (IF seq < MaxSeq THEN seq + 1 ELSE seq) # NoFrame
      BY <1>0 DEF FrameTypes, NoFrame
    <3> QED
      BY <2>3, <3>1 DEF FrameArrives
  <2>4. CASE addPreviewFrame
    BY <2>4 DEF addPreviewFrame
  <2>5. CASE PreviewThread
    BY <2>5 DEF PreviewThread, PreparePreview, StartStreaming, StartCapture, PreviewLoop,
       waitPreviewFrame, PreviewWaits, draw_preview_one, addCaptureFrame, PreviewSignals,
       StopStreaming, GoPreview
  <2>6. CASE \E t \in Threads : CaptureThread(t)
    BY <2>6, CaptureThreadLeaves
  <2> QED
    BY <2>1, <2>2, <2>3, <2>4, <2>5, <2>6 DEF PreviewNext
<1>2. (frame # NoFrame <=> preview \in {"draw", "add"})'
  <2> USE DEF Holders, StartsAndStops, flags, previewQ, captureQ, appVars, uvcThreadVars,
             previewVars, captureVars, history, settled
  <2>1. CASE AppCalls
    BY <2>1 DEF AppCalls, setPreviewDisplay, setFrameCallback, startPreview, stopPreview,
       StoppedIsQuiet, Stopped
  <2>2. CASE AppReturns
    BY <2>2 DEF AppReturns, WaitCapturing, FrameCallbackSet, StopSignalsPreview,
       StopSignalsCapture, JoinCapture, JoinPreview, StopClears, SignalPreview
  <2>3. CASE FrameArrives \/ addPreviewFrame
    BY <2>3 DEF FrameArrives, addPreviewFrame, SignalPreview
  <2>4. CASE waitPreviewFrame
    <3>1. previewFrames # <<>> => Head(previewFrames) # NoFrame
      BY <1>0 DEF Nums, NoFrame
    <3> QED
      BY <2>4, <3>1 DEF waitPreviewFrame, TakePreviewFrame
  <2>5. CASE PreparePreview \/ StartStreaming \/ StartCapture \/ PreviewLoop \/ PreviewWaits
    BY <2>5 DEF PreparePreview, StartStreaming, StartCapture, PreviewLoop, PreviewWaits, GoPreview
  <2>6. CASE draw_preview_one \/ addCaptureFrame \/ PreviewSignals \/ StopStreaming
    BY <2>6 DEF draw_preview_one, addCaptureFrame, PreviewSignals, StopStreaming, GoPreview
  <2>7. CASE \E t \in Threads : CaptureThread(t)
    BY <2>7, CaptureThreadLeaves
  <2> QED
    BY <2>1, <2>2, <2>3, <2>4, <2>5, <2>6, <2>7 DEF PreviewNext, PreviewThread
<1>3. (\A t \in Threads : taken[t] # NoFrame <=> capture[t] \in {"frame", "call", "onFrame"})'
  <2>1. CASE OnlyWake
    BY <2>1 DEF OnlyWake, Holders, StartsAndStops
  <2>2. CASE StartCapture
    BY <1>0, <2>2 DEF StartCapture, CaptureThreads, GoPreview, Holders, CaptureTypes
  <2>3. ASSUME NEW t \in Threads, CaptureThread(t)
        PROVE  \A u \in Threads :
                 taken'[u] # NoFrame <=> capture'[u] \in {"frame", "call", "onFrame"}
    <3> USE DEF Holders, FrameTypes, CaptureTypes, GoCapture
    <3>1. CASE CaptureBegins(t) \/ do_capture(t) \/ do_capture_idle_loop(t) \/ CaptureWaits(t)
      BY <1>0, <3>1 DEF CaptureBegins, do_capture, do_capture_idle_loop, CaptureWaits
    <3>2. CASE waitCaptureFrame(t)
      BY <1>0, <3>2 DEF waitCaptureFrame, TakeCaptureFrame
    <3>3. CASE do_capture_callback(t) \/ CallOnFrame(t) \/ OnFrameReturns(t)
      BY <1>0, <3>3 DEF do_capture_callback, CallOnFrame, OnFrameReturns
    <3>4. CASE CaptureBroadcasts(t)
      BY <1>0, <3>4 DEF CaptureBroadcasts, StartsAndStops
    <3> QED
      BY <2>3, <3>1, <3>2, <3>3, <3>4 DEF CaptureThread
  <2> QED
    BY <1>0, <2>1, <2>2, <2>3, OthersOnlyWake DEF PreviewNext
<1> QED
  BY <1>1, <1>2, <1>3 DEF Holders

(* The application and the threads of the preview.                         *)
LEMMA StepsFollow ==
  ASSUME StartsAndStops, StoppedIsQuiet, PreviewNext
  PROVE  /\ application' \in {"cbWait", "cbWaiting", "cbWoken"} => mIsRunning'
         /\ application' \in {"signalPreview", "signalCapture", "joinCapture", "joinPreview",
                              "clear"} => ~mIsRunning'
         /\ application' = "clear" => preview' = "ended"
         /\ uvcThread' # "none" => preview' \notin {"ended", "prepare", "start"}
         /\ previewWait' => preview' = "waiting"
         /\ App \in captureWait' => application' = "cbWaiting"
<1> USE DEF StartsAndStops, StoppedIsQuiet, Stopped, flags, previewQ, captureQ, appVars,
           uvcThreadVars, previewVars, captureVars, history, settled
<1>1. CASE AppCalls
  <2>1. CASE \E obj \in Callbacks \cup {None} : setFrameCallback(obj)
    BY <2>1 DEF setFrameCallback
  <2>2. CASE startPreview \/ stopPreview \/ \E on \in BOOLEAN : setPreviewDisplay(on)
    BY <2>2 DEF startPreview, stopPreview, setPreviewDisplay
  <2> QED
    BY <1>1, <2>1, <2>2 DEF AppCalls
<1>2. CASE AppReturns
  BY <1>2 DEF AppReturns, WaitCapturing, FrameCallbackSet, StopSignalsPreview, StopSignalsCapture,
     JoinCapture, JoinPreview, StopClears, SignalPreview
<1>3. CASE FrameArrives \/ addPreviewFrame
  BY <1>3 DEF FrameArrives, addPreviewFrame, SignalPreview
<1>4. CASE PreviewThread
  BY <1>4 DEF PreviewThread, PreparePreview, StartStreaming, StartCapture, PreviewLoop,
     waitPreviewFrame, TakePreviewFrame, PreviewWaits, draw_preview_one, addCaptureFrame,
     PreviewSignals, StopStreaming, GoPreview, BroadcastCapture, SignalCapture, Wake
<1>5. CASE \E t \in Threads : CaptureThread(t)
  <2>1. App \notin Threads
    BY DEF App, Threads
  <2>2. PICK t \in Threads : CaptureThread(t)
    BY <1>5
  <2>3. CASE CaptureBroadcasts(t) \/ CaptureWaits(t)
    BY <2>1, <2>2, <2>3 DEF CaptureBroadcasts, CaptureWaits
  <2>4. CASE ~(CaptureBroadcasts(t) \/ CaptureWaits(t))
    BY <2>2, <2>4 DEF CaptureThread, CaptureBegins, do_capture, do_capture_idle_loop,
       waitCaptureFrame, do_capture_callback, CallOnFrame, OnFrameReturns
  <2> QED
    BY <2>3, <2>4
<1> QED
  BY <1>1, <1>2, <1>3, <1>4, <1>5 DEF PreviewNext

LEMMA QuietStep ==
  ASSUME StartsAndStops, StoppedIsQuiet, PreviewNext
  PROVE  StoppedIsQuiet'
<1> USE DEF StartsAndStops, StoppedIsQuiet, Stopped, flags, previewQ, captureQ, appVars,
           uvcThreadVars, previewVars, captureVars, history, settled
<1>1. CASE AppCalls
  BY <1>1 DEF AppCalls, setPreviewDisplay, setFrameCallback, startPreview, stopPreview
<1>2. CASE AppReturns
  BY <1>2 DEF AppReturns, WaitCapturing, FrameCallbackSet, StopSignalsPreview, StopSignalsCapture,
     JoinCapture, JoinPreview, StopClears, ClearPreview, ClearCapture
<1>3. CASE FrameArrives \/ addPreviewFrame
  BY <1>3 DEF FrameArrives, addPreviewFrame
<1>4. CASE PreviewThread
  BY <1>4 DEF PreviewThread, PreparePreview, StartStreaming, StartCapture, PreviewLoop,
     waitPreviewFrame, PreviewWaits, draw_preview_one, addCaptureFrame, PreviewSignals,
     StopStreaming, GoPreview, SignalCapture, Wake
<1>5. CASE \E t \in Threads : CaptureThread(t)
  BY <1>5, CaptureThreadLeaves
<1> QED
  BY <1>1, <1>2, <1>3, <1>4, <1>5 DEF PreviewNext

LEMMA WaitersWait ==
  ASSUME CaptureTypes, StartsAndStops, CaptureThreads, PreviewNext
  PROVE  (\A t \in Threads \cap captureWait : capture[t] = "waiting")'
<1>1. CASE OnlyWake
  BY <1>1 DEF OnlyWake, StartsAndStops
<1>2. CASE StartCapture
  BY <1>2 DEF StartCapture, GoPreview, CaptureThreads, CaptureTypes, StartsAndStops, captureQ
<1>3. ASSUME NEW t \in Threads, CaptureThread(t)
      PROVE  \A u \in Threads \cap captureWait' : capture'[u] = "waiting"
  <2> USE DEF CaptureTypes, StartsAndStops, captureQ, GoCapture
  <2>1. CASE CaptureBegins(t) \/ do_capture(t) \/ do_capture_idle_loop(t)
    BY <2>1 DEF CaptureBegins, do_capture, do_capture_idle_loop
  <2>2. CASE waitCaptureFrame(t)
    BY <2>2 DEF waitCaptureFrame
  <2>3. CASE do_capture_callback(t) \/ CallOnFrame(t) \/ OnFrameReturns(t)
    BY <2>3 DEF do_capture_callback, CallOnFrame, OnFrameReturns
  <2>4. CASE CaptureWaits(t)
    BY <2>4 DEF CaptureWaits
  <2>5. CASE CaptureBroadcasts(t)
    BY <2>5 DEF CaptureBroadcasts
  <2> QED
    BY <1>3, <2>1, <2>2, <2>3, <2>4, <2>5 DEF CaptureThread
<1> QED
  BY <1>1, <1>2, <1>3, OthersOnlyWake DEF PreviewNext

LEMMA StartsAndStopsStep ==
  ASSUME CaptureTypes, StartsAndStops, StoppedIsQuiet, CaptureThreads, PreviewNext
  PROVE  StartsAndStops'
BY StepsFollow, WaitersWait DEF StartsAndStops

(* The capture threads and the starts that create them.                    *)
LEMMA EndedStays ==
  ASSUME CaptureTypes, StartsAndStops, PreviewNext, ~StartCapture,
         NEW u \in Threads, capture[u] = "ended"
  PROVE  capture'[u] = "ended"
<1>1. CASE OnlyWake
  BY <1>1 DEF OnlyWake, StartsAndStops
<1>2. ASSUME NEW t \in Threads, CaptureThread(t) PROVE capture'[u] = "ended"
  <2>1. CASE CaptureBroadcasts(t)
    BY <2>1 DEF CaptureBroadcasts, StartsAndStops
  <2>2. CASE ~CaptureBroadcasts(t)
    <3>1. \/ capture' = capture
          \/ \E x : capture' = [capture EXCEPT ![t] = x]
      BY <1>2, <2>2 DEF CaptureThread, CaptureBegins, do_capture, do_capture_idle_loop,
         waitCaptureFrame, CaptureWaits, do_capture_callback, CallOnFrame, OnFrameReturns,
         GoCapture
    <3>2. capture[t] # "ended"
      BY <1>2 DEF CaptureThread, CaptureBegins, do_capture, do_capture_idle_loop,
         waitCaptureFrame, CaptureWaits, do_capture_callback, CallOnFrame, OnFrameReturns,
         CaptureBroadcasts, GoCapture
    <3> QED
      BY <3>1, <3>2 DEF CaptureTypes
  <2> QED
    BY <2>1, <2>2
<1> QED
  BY <1>1, <1>2, OthersOnlyWake DEF PreviewNext

LEMMA StartsStep ==
  ASSUME PreviewNext
  PROVE  starts' = starts \/ startPreview
<1> USE DEF flags, previewQ, captureQ, appVars, uvcThreadVars, previewVars, captureVars, history,
           settled
<1>1. CASE AppCalls
  BY <1>1 DEF AppCalls, setPreviewDisplay, setFrameCallback, stopPreview
<1>2. CASE AppReturns
  BY <1>2 DEF AppReturns, WaitCapturing, FrameCallbackSet, StopSignalsPreview, StopSignalsCapture,
     JoinCapture, JoinPreview, StopClears
<1>3. CASE FrameArrives \/ addPreviewFrame
  BY <1>3 DEF FrameArrives, addPreviewFrame
<1>4. CASE PreviewThread
  BY <1>4 DEF PreviewThread, PreparePreview, StartStreaming, StartCapture, PreviewLoop,
     waitPreviewFrame, PreviewWaits, draw_preview_one, addCaptureFrame, PreviewSignals,
     StopStreaming
<1>5. CASE \E t \in Threads : CaptureThread(t)
  BY <1>5, CaptureThreadLeaves
<1> QED
  BY <1>1, <1>2, <1>3, <1>4, <1>5 DEF PreviewNext


LEMMA LaterThreadsEnded ==
  ASSUME CaptureTypes, StartsAndStops, CaptureThreads, PreviewNext
  PROVE  (\A t \in Threads : t > starts => capture[t] = "ended")'
<1>1. starts \in Nat /\ starts' \in Nat /\ starts <= starts'
  <2>1. starts \in Nat
    BY DEF CaptureTypes
  <2>2. starts' = starts \/ starts' = starts + 1
    BY StartsStep, Zenon DEF startPreview
  <2> QED
    BY <2>1, <2>2
<1>2. CASE ~StartCapture
  BY <1>1, <1>2, EndedStays DEF CaptureThreads, Threads
<1>3. CASE StartCapture
  BY <1>1, <1>3 DEF StartCapture, CaptureThreads, CaptureTypes, Threads, history
<1> QED
  BY <1>2, <1>3

LEMMA ThreadToCome ==
  ASSUME CaptureTypes, StartsAndStops, CaptureThreads, PreviewNext
  PROVE  (preview \in {"prepare", "start", "clear"} => starts # 0 /\ capture[starts] = "ended")'
<1> SUFFICES ASSUME preview' \in {"prepare", "start", "clear"}
             PROVE  starts' # 0 /\ capture'[starts'] = "ended"
  OBVIOUS
<1>1. CASE startPreview
  <2>1. starts' = starts + 1 /\ starts' \in Threads /\ capture' = capture
    BY <1>1 DEF startPreview, CaptureTypes, Threads, captureVars
  <2> QED
    BY <2>1 DEF CaptureThreads, CaptureTypes
<1>2. CASE ~startPreview
  <2>1. preview \in {"prepare", "start", "clear"} /\ ~StartCapture
    <3> USE DEF flags, previewQ, captureQ, appVars, uvcThreadVars, previewVars, captureVars,
               history, settled
    <3>1. CASE AppCalls
      BY <1>2, <3>1 DEF AppCalls, setPreviewDisplay, setFrameCallback, stopPreview, StartCapture,
         GoPreview
    <3>2. CASE AppReturns
      BY <3>2 DEF AppReturns, WaitCapturing, FrameCallbackSet, StopSignalsPreview,
         StopSignalsCapture, JoinCapture, JoinPreview, StopClears, SignalPreview, StartCapture
    <3>3. CASE FrameArrives \/ addPreviewFrame
      BY <3>3 DEF FrameArrives, addPreviewFrame, SignalPreview, StartCapture
    <3>4. CASE PreviewThread
      BY <3>4 DEF PreviewThread, PreparePreview, StartStreaming, StartCapture, PreviewLoop,
         waitPreviewFrame, TakePreviewFrame, PreviewWaits, draw_preview_one, addCaptureFrame,
         PreviewSignals, StopStreaming, GoPreview
    <3>5. CASE \E t \in Threads : CaptureThread(t)
      BY <3>5, CaptureThreadLeaves DEF StartCapture, GoPreview
    <3> QED
      BY <3>1, <3>2, <3>3, <3>4, <3>5 DEF PreviewNext
  <2>2. starts \in Threads /\ starts' = starts /\ starts # 0 /\ capture[starts] = "ended"
    BY <1>2, <2>1, StartsStep DEF CaptureThreads, CaptureTypes, Threads
  <2> QED
    BY <2>1, <2>2, EndedStays
<1> QED
  BY <1>1, <1>2

LEMMA JoinedHoldsNone ==
  ASSUME PreviewTypeOK, Holders, StartsAndStops, CaptureThreads, PreviewNext
  PROVE  (~mIsRunning /\ application \notin {"signalPreview", "signalCapture", "joinCapture"} =>
            \A t \in Threads : t = capture_thread => taken[t] = NoFrame)'
<1> USE DEF CaptureThreads, flags, previewQ, captureQ, appVars, uvcThreadVars, previewVars,
           captureVars, history, settled
<1>1. CASE AppCalls
  BY <1>1 DEF AppCalls, setPreviewDisplay, setFrameCallback, startPreview, stopPreview
<1>2. CASE AppReturns
  BY <1>2 DEF AppReturns, WaitCapturing, FrameCallbackSet, StopSignalsPreview, StopSignalsCapture,
     JoinCapture, JoinPreview, StopClears, StartsAndStops, Threads
<1>3. CASE FrameArrives \/ addPreviewFrame
  BY <1>3 DEF FrameArrives, addPreviewFrame
<1>4. CASE PreviewThread
  <2>1. CASE StartCapture
    BY <2>1 DEF StartCapture, GoPreview, Holders
  <2>2. CASE addCaptureFrame \/ PreviewSignals
    <3>1. /\ UNCHANGED <<mIsRunning, taken, capture_thread>>
          /\ application' \in {application, "cbWoken"}
      BY <2>2 DEF addCaptureFrame, PreviewSignals, BroadcastCapture, SignalCapture, Wake
    <3>2. application' = "cbWoken" => application \in {"cbWaiting", "cbWoken"}
      BY <2>2 DEF addCaptureFrame, PreviewSignals, BroadcastCapture, SignalCapture, Wake,
         StartsAndStops
    <3> QED
      BY <3>1, <3>2
  <2>3. CASE ~(StartCapture \/ addCaptureFrame \/ PreviewSignals)
    <3>1. UNCHANGED <<mIsRunning, application, taken, capture_thread>>
      BY <1>4, <2>3 DEF PreviewThread, PreparePreview, StartStreaming, PreviewLoop,
         waitPreviewFrame, PreviewWaits, draw_preview_one, StopStreaming
    <3> QED
      BY <3>1
  <2> QED
    BY <2>1, <2>2, <2>3
<1>5. ASSUME NEW t \in Threads, CaptureThread(t), ~mIsRunning'
      PROVE  /\ UNCHANGED <<mIsRunning, capture_thread>>
             /\ application' = application \/ application = "cbWaiting"
             /\ \A u \in Threads : taken[u] = NoFrame => taken'[u] = NoFrame
  <2> USE DEF CaptureThread, CaptureBegins, do_capture, do_capture_idle_loop, waitCaptureFrame,
             CaptureWaits, do_capture_callback, CallOnFrame, OnFrameReturns, CaptureBroadcasts
  <2>1. UNCHANGED <<mIsRunning, capture_thread>>
    BY <1>5
  <2>2. application' = application \/ application = "cbWaiting"
    BY <1>5 DEF StartsAndStops
  <2>3. taken' = taken \/ taken' = [taken EXCEPT ![t] = NoFrame]
    BY <1>5, <2>1
  <2> QED
    BY <2>1, <2>2, <2>3 DEF PreviewTypeOK
<1>6. CASE \E t \in Threads : CaptureThread(t)
  BY <1>5, <1>6
<1> QED
  BY <1>1, <1>2, <1>3, <1>4, <1>6 DEF PreviewNext

LEMMA CaptureThreadsStep ==
  ASSUME PreviewTypeOK, Holders, StartsAndStops, CaptureThreads, PreviewNext
  PROVE  CaptureThreads'
<1>1. CaptureTypes
  BY TypeParts
<1> QED
  BY <1>1, LaterThreadsEnded, ThreadToCome, JoinedHoldsNone DEF CaptureThreads

(* The order of the frames, without the concatenation.                     *)
InOrder(q, f, s, c, held) ==
  /\ Newer(q, f) /\ Newer(q, c) /\ Newer(f, c)
  /\ \A i \in 1..Len(s) : Newer(q, s[i]) /\ Newer(f, s[i]) /\ Newer(s[i], c)
  /\ \A i, j \in 1..Len(s) : i < j => Newer(s[i], s[j])
  /\ \A t \in Threads : /\ Newer(held[t], q) /\ Newer(held[t], f) /\ Newer(held[t], c)
                         /\ \A i \in 1..Len(s) : Newer(held[t], s[i])

LEMMA PipelineAt ==
  ASSUME NEW q \in Nat, NEW f \in Nat, NEW s \in Seq(Nat), NEW c \in Nat
  PROVE  LET P == <<q, f>> \o s \o <<c>>
         IN /\ DOMAIN P = 1 .. (Len(s) + 3)
            /\ P[1] = q /\ P[2] = f /\ P[Len(s) + 3] = c
            /\ \A i \in 1..Len(s) : P[i + 2] = s[i]
<1> DEFINE Q == <<q, f>> \o s
<1>1. Q \in Seq(Nat) /\ Len(Q) = Len(s) + 2
  OBVIOUS
<1>2. Q[1] = q /\ Q[2] = f /\ \A i \in 1..Len(s) : Q[i + 2] = s[i]
  OBVIOUS
<1> HIDE DEF Q
<1>3. /\ DOMAIN (Q \o <<c>>) = 1 .. (Len(Q) + 1) /\ (Q \o <<c>>)[Len(Q) + 1] = c
      /\ \A i \in 1..Len(Q) : (Q \o <<c>>)[i] = Q[i]
  BY <1>1
<1>4. /\ DOMAIN (Q \o <<c>>) = 1 .. (Len(s) + 3) /\ (Q \o <<c>>)[Len(s) + 3] = c
      /\ (Q \o <<c>>)[1] = q /\ (Q \o <<c>>)[2] = f
      /\ \A i \in 1..Len(s) : (Q \o <<c>>)[i + 2] = s[i]
  BY <1>1, <1>2, <1>3
<1> QED
  BY <1>4 DEF Q

LEMMA OrderIs ==
  ASSUME NEW q \in Nat, NEW f \in Nat, NEW s \in Seq(Nat), NEW c \in Nat, NEW held
  PROVE  LET P == <<q, f>> \o s \o <<c>>
         IN InOrder(q, f, s, c, held) <=>
              /\ \A i, j \in DOMAIN P : i < j => Newer(P[i], P[j])
              /\ \A t \in Threads, i \in DOMAIN P : Newer(held[t], P[i])
<1> DEFINE P == <<q, f>> \o s \o <<c>>
<1>1. /\ DOMAIN P = 1 .. (Len(s) + 3) /\ Len(s) \in Nat
      /\ P[1] = q /\ P[2] = f /\ P[Len(s) + 3] = c
      /\ \A i \in 1..Len(s) : P[i + 2] = s[i]
  BY PipelineAt
<1> HIDE DEF P
<1>2. ASSUME NEW i \in DOMAIN P
      PROVE  i = 1 \/ i = 2 \/ i = Len(s) + 3 \/ \E k \in 1..Len(s) : i = k + 2
  <2>1. CASE i \in 3..(Len(s) + 2)
    <3>1. i - 2 \in 1..Len(s) /\ i = (i - 2) + 2
      BY <1>1, <2>1
    <3> QED
      BY <3>1
  <2>2. CASE i \notin 3..(Len(s) + 2)
    BY <1>1, <2>2
  <2> QED
    BY <2>1, <2>2
<1>3. ASSUME InOrder(q, f, s, c, held)
      PROVE  \A i, j \in DOMAIN P : i < j => Newer(P[i], P[j])
  <2> SUFFICES ASSUME NEW i \in DOMAIN P, NEW j \in DOMAIN P, i < j PROVE Newer(P[i], P[j])
    OBVIOUS
  <2>1. CASE j = 2
    <3>1. i = 1
      BY <1>1, <2>1
    <3> QED
      BY <1>1, <1>3, <2>1, <3>1 DEF InOrder
  <2>2. CASE j = Len(s) + 3
    <3>1. i = 1 \/ i = 2 \/ \E k \in 1..Len(s) : i = k + 2
      BY <1>1, <1>2, <2>2
    <3> QED
      BY <1>1, <1>3, <2>2, <3>1 DEF InOrder
  <2>3. ASSUME NEW k \in 1..Len(s), j = k + 2 PROVE Newer(P[i], P[j])
    <3>1. i = 1 \/ i = 2 \/ \E m \in 1..Len(s) : i = m + 2
      BY <1>1, <1>2, <2>3
    <3>2. ASSUME NEW m \in 1..Len(s), i = m + 2 PROVE Newer(P[i], P[j])
      <4>1. m < k /\ P[i] = s[m] /\ P[j] = s[k]
        BY <1>1, <2>3, <3>2
      <4> QED
        BY <1>3, <4>1 DEF InOrder
    <3>3. P[j] = s[k]
      BY <1>1, <2>3
    <3> QED
      BY <1>1, <1>3, <3>1, <3>2, <3>3 DEF InOrder
  <2>4. j # 1
    BY <1>1
  <2> QED
    BY <1>2, <2>1, <2>2, <2>3, <2>4
<1>4. ASSUME InOrder(q, f, s, c, held)
      PROVE  \A t \in Threads, i \in DOMAIN P : Newer(held[t], P[i])
  BY <1>1, <1>2, <1>4 DEF InOrder
<1>5. ASSUME \A i, j \in DOMAIN P : i < j => Newer(P[i], P[j]),
             \A t \in Threads, i \in DOMAIN P : Newer(held[t], P[i])
      PROVE  InOrder(q, f, s, c, held)
  <2>1. Newer(q, f) /\ Newer(q, c) /\ Newer(f, c)
    <3>1. /\ 1 \in DOMAIN P /\ 2 \in DOMAIN P /\ Len(s) + 3 \in DOMAIN P
          /\ 1 < Len(s) + 3 /\ 2 < Len(s) + 3
      BY <1>1
    <3> QED
      BY <1>1, <1>5, <3>1
  <2>2. ASSUME NEW i \in 1..Len(s) PROVE Newer(q, s[i]) /\ Newer(f, s[i]) /\ Newer(s[i], c)
    <3>1. /\ 1 \in DOMAIN P /\ 2 \in DOMAIN P /\ i + 2 \in DOMAIN P /\ Len(s) + 3 \in DOMAIN P
          /\ 1 < i + 2 /\ 2 < i + 2 /\ i + 2 < Len(s) + 3 /\ P[i + 2] = s[i]
      BY <1>1
    <3> QED
      BY <1>1, <1>5, <3>1
  <2>3. ASSUME NEW i \in 1..Len(s), NEW j \in 1..Len(s), i < j PROVE Newer(s[i], s[j])
    <3>1. /\ i + 2 \in DOMAIN P /\ j + 2 \in DOMAIN P /\ i + 2 < j + 2
          /\ P[i + 2] = s[i] /\ P[j + 2] = s[j]
      BY <1>1, <2>3
    <3> QED
      BY <1>5, <3>1
  <2>4. ASSUME NEW t \in Threads
        PROVE  /\ Newer(held[t], q) /\ Newer(held[t], f) /\ Newer(held[t], c)
               /\ \A i \in 1..Len(s) : Newer(held[t], s[i])
    <3>1. 1 \in DOMAIN P /\ 2 \in DOMAIN P /\ Len(s) + 3 \in DOMAIN P
      BY <1>1
    <3>2. \A i \in 1..Len(s) : i + 2 \in DOMAIN P
      BY <1>1
    <3> QED
      BY <1>1, <1>5, <3>1, <3>2
  <2> QED
    BY <2>1, <2>2, <2>3, <2>4 DEF InOrder
<1> QED
  BY <1>3, <1>4, <1>5 DEF P

(* How frames move.  Every step of the module does one of these.           *)
Restarts ==
  /\ captureQueu = NoFrame /\ frame = NoFrame /\ copy = NoFrame /\ previewFrames = <<>>
  /\ \A t \in Threads : t = capture_thread => taken[t] = NoFrame
  /\ since' = seq
  /\ UNCHANGED <<captureQueu, frame, copy, previewFrames, taken, seq>>
Drops ==
  /\ captureQueu' \in {captureQueu, NoFrame} /\ frame' \in {frame, NoFrame}
  /\ copy' \in {copy, NoFrame} /\ previewFrames' \in {previewFrames, <<>>}
  /\ \A t \in Threads : taken'[t] \in {taken[t], NoFrame}
  /\ UNCHANGED <<seq, since>>
Arrives ==
  /\ copy' = seq' /\ (seq' = seq + 1 \/ (seq' = seq /\ seq = MaxSeq))
  /\ UNCHANGED <<captureQueu, frame, previewFrames, taken, since>>
Queues ==
  /\ previewFrames' = Append(previewFrames, copy) /\ copy' = NoFrame
  /\ UNCHANGED <<captureQueu, frame, taken, seq, since>>
Draws ==
  /\ previewFrames # <<>> /\ frame' = Head(previewFrames) /\ previewFrames' = Tail(previewFrames)
  /\ UNCHANGED <<captureQueu, copy, taken, seq, since>>
HandsOn ==
  /\ captureQueu' = frame /\ frame' = NoFrame
  /\ UNCHANGED <<copy, previewFrames, taken, seq, since>>
Takes(t) ==
  /\ taken' = [taken EXCEPT ![t] = captureQueu] /\ captureQueu' = NoFrame
  /\ UNCHANGED <<frame, copy, previewFrames, seq, since>>

LEMMA Moves ==
  ASSUME PreviewTypeOK, Holders, StoppedIsQuiet, CaptureThreads, PreviewNext
  PROVE  Restarts \/ Drops \/ Arrives \/ Queues \/ Draws \/ HandsOn \/ \E t \in Threads : Takes(t)
<1> USE DEF flags, previewQ, captureQ, appVars, uvcThreadVars, previewVars, captureVars, history,
           settled
<1>0. ASSUME UNCHANGED <<captureQueu, frame, copy, previewFrames, taken, seq, since>> PROVE Drops
  BY <1>0 DEF Drops
<1>1. CASE AppCalls
  <2>1. CASE startPreview
    <3>1. Stopped /\ ~mIsRunning /\ application = "idle"
      BY <2>1 DEF startPreview, Stopped
    <3>2. /\ captureQueu = NoFrame /\ frame = NoFrame /\ copy = NoFrame /\ previewFrames = <<>>
      BY <3>1 DEF StoppedIsQuiet, Holders
    <3>3. \A t \in Threads : t = capture_thread => taken[t] = NoFrame
      BY <3>1 DEF CaptureThreads
    <3> QED
      BY <2>1, <3>2, <3>3 DEF startPreview, Restarts
  <2>2. CASE ~startPreview
    BY <1>0, <1>1, <2>2 DEF AppCalls, setPreviewDisplay, setFrameCallback, stopPreview
  <2> QED
    BY <2>1, <2>2
<1>2. CASE AppReturns
  <2>1. CASE StopClears
    BY <2>1 DEF StopClears, ClearPreview, ClearCapture, Drops
  <2>2. CASE ~StopClears
    BY <1>0, <1>2, <2>2 DEF AppReturns, WaitCapturing, FrameCallbackSet, StopSignalsPreview,
       StopSignalsCapture, JoinCapture, JoinPreview
  <2> QED
    BY <2>1, <2>2
<1>3. CASE FrameArrives
  <2>1. seq \in 0..MaxSeq
    BY DEF PreviewTypeOK
  <2>2. copy' = seq' /\ (seq < MaxSeq => seq' = seq + 1) /\ (~(seq < MaxSeq) => seq' = seq)
    BY <1>3 DEF FrameArrives
  <2>3. UNCHANGED <<captureQueu, frame, previewFrames, taken, since>>
    BY <1>3 DEF FrameArrives
  <2>4. seq' = seq + 1 \/ (seq' = seq /\ seq = MaxSeq)
    <3>1. CASE seq < MaxSeq
      BY <2>1, <2>2, <3>1
    <3>2. CASE ~(seq < MaxSeq)
      <4>1. seq = MaxSeq
        BY <2>1, <3>2
      <4> QED
        BY <2>2, <3>2, <4>1
    <3> QED
      BY <3>1, <3>2
  <2> QED
    BY <2>2, <2>3, <2>4 DEF Arrives
<1>4. CASE addPreviewFrame
  BY <1>4 DEF addPreviewFrame, Queues, Drops
<1>5. CASE PreviewThread
  <2>1. CASE StartCapture
    BY <2>1 DEF StartCapture, ClearPreview, Drops
  <2>2. CASE waitPreviewFrame
    BY <1>0, <2>2 DEF waitPreviewFrame, TakePreviewFrame, Draws
  <2>3. CASE draw_preview_one
    BY <2>3 DEF draw_preview_one, Drops
  <2>4. CASE addCaptureFrame
    BY <2>4 DEF addCaptureFrame, HandsOn, Drops
  <2>5. CASE PreparePreview \/ StartStreaming \/ PreviewLoop \/ PreviewWaits
             \/ PreviewSignals \/ StopStreaming
    BY <1>0, <2>5 DEF PreparePreview, StartStreaming, PreviewLoop, PreviewWaits, PreviewSignals,
       StopStreaming
  <2> QED
    BY <1>5, <2>1, <2>2, <2>3, <2>4, <2>5 DEF PreviewThread
<1>6. ASSUME NEW t \in Threads, CaptureThread(t) PROVE Drops \/ Takes(t)
  <2>1. CASE waitCaptureFrame(t)
    <3>1. CASE UNCHANGED <<taken, captureQueu>>
      BY <1>0, <2>1, <3>1 DEF waitCaptureFrame
    <3>2. CASE TakeCaptureFrame(t)
      BY <2>1, <3>2 DEF waitCaptureFrame, TakeCaptureFrame, Takes
    <3> QED
      BY <2>1, <3>1, <3>2 DEF waitCaptureFrame
  <2>2. CASE ~waitCaptureFrame(t)
    <3>1. /\ UNCHANGED <<frame, copy, previewFrames, seq, since>>
          /\ captureQueu' \in {captureQueu, NoFrame}
      BY <1>6, <2>2 DEF CaptureThread, CaptureBegins, do_capture, do_capture_idle_loop,
         CaptureWaits, do_capture_callback, CallOnFrame, OnFrameReturns, CaptureBroadcasts,
         ClearCapture
    <3>2. taken' = taken \/ taken' = [taken EXCEPT ![t] = NoFrame]
      BY <1>6, <2>2 DEF CaptureThread, CaptureBegins, do_capture, do_capture_idle_loop,
         CaptureWaits, do_capture_callback, CallOnFrame, OnFrameReturns, CaptureBroadcasts
    <3>3. \A u \in Threads : taken'[u] \in {taken[u], NoFrame}
      BY <3>2 DEF PreviewTypeOK
    <3> QED
      BY <3>1, <3>3 DEF Drops
  <2> QED
    BY <2>1, <2>2
<1> QED
  BY <1>1, <1>2, <1>3, <1>4, <1>5, <1>6 DEF PreviewNext

LEMMA FrameNumbers ==
  ASSUME PreviewTypeOK
  PROVE  /\ captureQueu \in Nat /\ frame \in Nat /\ copy \in Nat /\ previewFrames \in Seq(Nat)
         /\ \A t \in Threads : taken[t] \in Nat
         /\ seq \in Nat /\ since \in Nat
<1>1. Nums \cup {NoFrame} \subseteq Nat
  BY DEF Nums, NoFrame
<1> QED
  BY <1>1 DEF PreviewTypeOK

LEMMA OrderStep ==
  ASSUME PreviewTypeOK, PreviewTypeOK', FramesInOrder, FramesOfThisStart, Holders,
         StoppedIsQuiet, CaptureThreads, PreviewNext
  PROVE  FramesInOrder'
<1>1. InOrder(captureQueu, frame, previewFrames, copy, taken)
  BY FrameNumbers, OrderIs DEF FramesInOrder, Pipeline
<1>2. SUFFICES InOrder(captureQueu', frame', previewFrames', copy', taken')
  <2>1. /\ captureQueu' \in Nat /\ frame' \in Nat /\ copy' \in Nat /\ previewFrames' \in Seq(Nat)
    <3>1. Nums \cup {NoFrame} \subseteq Nat
      BY DEF Nums, NoFrame
    <3> QED
      BY <3>1 DEF PreviewTypeOK
  <2> QED
    BY <1>2, <2>1, OrderIs DEF FramesInOrder, Pipeline
<1>3. CASE Restarts
  BY <1>1, <1>3 DEF Restarts
<1>4. CASE Drops
  BY <1>1, <1>4 DEF Drops, InOrder, Newer
<1>5. CASE Arrives
  BY <1>1, <1>5, FrameNumbers DEF Arrives, InOrder, Newer, FramesOfThisStart
<1>6. CASE Queues
  <2>1. previewFrames \in Seq(Nat) /\ copy \in Nat
    BY FrameNumbers
  <2>2. /\ Len(previewFrames') = Len(previewFrames) + 1
        /\ previewFrames'[Len(previewFrames) + 1] = copy
        /\ \A i \in 1..Len(previewFrames) : previewFrames'[i] = previewFrames[i]
    BY <1>6, <2>1 DEF Queues
  <2>3. Len(previewFrames) \in Nat
    BY <2>1
  <2> QED
    BY <1>1, <1>6, <2>2, <2>3 DEF Queues, InOrder, Newer
<1>7. CASE Draws
  <2>1. previewFrames \in Seq(Nat)
    BY FrameNumbers
  <2>2. /\ Len(previewFrames') = Len(previewFrames) - 1 /\ frame' = previewFrames[1]
        /\ \A i \in 1..(Len(previewFrames) - 1) : previewFrames'[i] = previewFrames[i + 1]
    BY <1>7, <2>1 DEF Draws
  <2>3. Len(previewFrames) \in Nat \ {0}
    BY <1>7, <2>1 DEF Draws
  <2> QED
    BY <1>1, <1>7, <2>2, <2>3 DEF Draws, InOrder, Newer
<1>8. CASE HandsOn
  BY <1>1, <1>8 DEF HandsOn, InOrder, Newer
<1>9. ASSUME NEW t \in Threads, Takes(t)
      PROVE  InOrder(captureQueu', frame', previewFrames', copy', taken')
  <2>1. \A u \in Threads : taken'[u] = IF u = t THEN captureQueu ELSE taken[u]
    BY <1>9 DEF Takes, PreviewTypeOK
  <2> QED
    BY <1>1, <1>9, <2>1 DEF Takes, InOrder, Newer
<1> QED
  BY <1>3, <1>4, <1>5, <1>6, <1>7, <1>8, <1>9, Moves

LEMMA FreshStep ==
  ASSUME PreviewTypeOK, PreviewTypeOK', FramesOfThisStart, Holders, StoppedIsQuiet,
         CaptureThreads, PreviewNext
  PROVE  FramesOfThisStart'
<1>0. /\ captureQueu \in Nat /\ frame \in Nat /\ copy \in Nat /\ previewFrames \in Seq(Nat)
      /\ seq \in Nat /\ since \in Nat /\ DOMAIN previewFrames = 1..Len(previewFrames)
      /\ \A t \in Threads : taken[t] \in Nat
  BY FrameNumbers
<1> USE <1>0 DEF FramesOfThisStart, Fresh
<1>1. CASE Restarts
  BY <1>1 DEF Restarts
<1>2. CASE Drops
  BY <1>2 DEF Drops, NoFrame
<1>3. CASE Arrives
  BY <1>3 DEF Arrives
<1>4. CASE Queues
  <2>1. /\ DOMAIN previewFrames' = 1..(Len(previewFrames) + 1)
        /\ previewFrames'[Len(previewFrames) + 1] = copy
        /\ \A i \in 1..Len(previewFrames) : previewFrames'[i] = previewFrames[i]
        /\ Len(previewFrames) \in Nat
    BY <1>4 DEF Queues
  <2> QED
    BY <1>4, <2>1 DEF Queues, NoFrame
<1>5. CASE Draws
  <2>1. /\ DOMAIN previewFrames' = 1..(Len(previewFrames) - 1) /\ frame' = previewFrames[1]
        /\ \A i \in 1..(Len(previewFrames) - 1) : previewFrames'[i] = previewFrames[i + 1]
        /\ Len(previewFrames) \in Nat \ {0}
    BY <1>5 DEF Draws
  <2> QED
    BY <1>5, <2>1 DEF Draws
<1>6. CASE HandsOn
  BY <1>6 DEF HandsOn, NoFrame
<1>7. ASSUME NEW t \in Threads, Takes(t) PROVE FramesOfThisStart'
  <2>1. \A u \in Threads : taken'[u] = IF u = t THEN captureQueu ELSE taken[u]
    BY <1>7 DEF Takes, PreviewTypeOK
  <2> QED
    BY <1>7, <2>1 DEF Takes, NoFrame
<1> QED
  BY <1>1, <1>2, <1>3, <1>4, <1>5, <1>6, <1>7, Moves

LEMMA JoinableThread ==
  ASSUME PreviewNext
  PROVE  capture_thread' \in {capture_thread, 0} \/ StartCapture
<1> USE DEF settled
<1>1. CASE AppCalls \/ AppReturns
  BY <1>1 DEF AppCalls, setPreviewDisplay, setFrameCallback, startPreview, stopPreview,
     AppReturns, WaitCapturing, FrameCallbackSet, StopSignalsPreview, StopSignalsCapture,
     JoinCapture, JoinPreview, StopClears
<1>2. CASE FrameArrives \/ addPreviewFrame
  BY <1>2 DEF FrameArrives, addPreviewFrame
<1>3. CASE PreviewThread
  BY <1>3 DEF PreviewThread, PreparePreview, StartStreaming, PreviewLoop, waitPreviewFrame,
     PreviewWaits, draw_preview_one, addCaptureFrame, PreviewSignals, StopStreaming
<1>4. CASE \E t \in Threads : CaptureThread(t)
  BY <1>4, CaptureThreadLeaves
<1> QED
  BY <1>1, <1>2, <1>3, <1>4 DEF PreviewNext

LEMMA StaleStep ==
  ASSUME PreviewTypeOK, NoStaleFrame, FramesOfThisStart, Holders, StoppedIsQuiet,
         CaptureThreads, PreviewNext
  PROVE  NoStaleFrame'
<1>1. CASE StartCapture
  <2>1. capture_thread' = starts /\ taken' = taken /\ capture[starts] = "ended"
    BY <1>1 DEF StartCapture, GoPreview, CaptureThreads
  <2> QED
    BY <2>1 DEF NoStaleFrame, Holders, Fresh
<1>2. CASE ~StartCapture
  <2> SUFFICES ASSUME NEW t \in Threads, t = capture_thread' PROVE Fresh(taken[t])'
    BY DEF NoStaleFrame
  <2>1. t = capture_thread
    BY <1>2, JoinableThread DEF Threads
  <2>2. Fresh(taken[t])
    BY <2>1 DEF NoStaleFrame
  <2>3. CASE Restarts
    BY <2>1, <2>3 DEF Restarts, Fresh
  <2>4. CASE Drops
    BY <2>2, <2>4 DEF Drops, Fresh
  <2>5. CASE Arrives \/ Queues \/ Draws \/ HandsOn
    BY <2>2, <2>5 DEF Arrives, Queues, Draws, HandsOn, Fresh
  <2>6. ASSUME NEW u \in Threads, Takes(u) PROVE Fresh(taken[t])'
    <3>1. taken'[t] \in {taken[t], captureQueu} /\ since' = since
      BY <2>6 DEF Takes, PreviewTypeOK
    <3> QED
      BY <2>2, <3>1 DEF Fresh, FramesOfThisStart
  <2> QED
    BY <2>3, <2>4, <2>5, <2>6, Moves
<1> QED
  BY <1>1, <1>2

(* The inductive invariant.                                                *)
LEMMA PreviewInitInv == PreviewInit => PreviewIInv
<1> SUFFICES ASSUME PreviewInit PROVE PreviewIInv
  OBVIOUS
<1> USE DEF PreviewInit
<1>1. PreviewTypeOK
  <2>1. FlagTypes /\ StepTypes
    BY DEF FlagTypes, StepTypes, AppSteps, UvcThreadSteps, PreviewSteps
  <2>2. FrameTypes
    BY DEF FrameTypes
  <2>3. CaptureTypes
    BY DEF CaptureTypes, CaptureSteps
  <2>4. bufs \in Bufs /\ previewFrames \in Seq(Nums) /\ Len(previewFrames) <= MaxFrame
    BY DEF Bufs
  <2> QED
    BY <2>1, <2>2, <2>3, <2>4, TypeParts
<1>2. StoppedIsQuiet /\ Holders /\ StartsAndStops /\ CaptureThreads
  BY DEF StoppedIsQuiet, Holders, StartsAndStops, CaptureThreads
<1>3. FramesOfThisStart /\ NoStaleFrame
  <2>1. DOMAIN previewFrames = {}
    OBVIOUS
  <2>2. Fresh(NoFrame)
    BY DEF Fresh
  <2>3. NoFrame <= seq /\ since <= seq /\ \A t \in Threads : taken[t] = NoFrame
    BY DEF NoFrame
  <2> QED
    BY <2>1, <2>2, <2>3 DEF FramesOfThisStart, NoStaleFrame
<1>4. FramesInOrder
  <2>1. InOrder(captureQueu, frame, previewFrames, copy, taken)
    BY DEF InOrder, Newer
  <2>2. /\ captureQueu \in Nat /\ frame \in Nat /\ copy \in Nat /\ previewFrames \in Seq(Nat)
    BY <1>1, FrameNumbers
  <2> HIDE DEF PreviewInit
  <2> QED
    BY <2>1, <2>2, OrderIs DEF FramesInOrder, Pipeline
<1>5. BuffersCounted
  <2>1. Cardinality(Holding) = 0
    <3>1. Holding = {}
      BY DEF Holding
    <3> QED
      BY <3>1, FS_EmptySet
  <2>2. CaptureCount = 0 /\ Held(uvcThread, {"add"}) = 0 /\ Held(preview, {"draw", "add"}) = 0
    BY DEF CaptureCount, Held
  <2>3. InUse = 0
    BY <2>1, <2>2, Parts
  <2> QED
    BY <2>3 DEF BuffersCounted, Owned, MayLose
<1>6. BuffersOwned
  BY <1>1, <1>5, Counted DEF BuffersOwned, Owned
<1> QED
  BY <1>1, <1>2, <1>3, <1>4, <1>5, <1>6 DEF PreviewIInv, PipelineInv

LEMMA OwnedIsCounted == PreviewTypeOK /\ BuffersCounted => BuffersOwned
<1> SUFFICES ASSUME PreviewTypeOK, BuffersCounted PROVE BuffersOwned
  OBVIOUS
<1>1. Owned \in Nat
  BY Counted DEF Owned
<1> QED
  BY <1>1, Counted DEF BuffersOwned, BuffersCounted

LEMMA PreviewNextInv == PreviewIInv /\ [PreviewNext]_previewState => PreviewIInv'
<1> SUFFICES ASSUME PreviewIInv, [PreviewNext]_previewState PROVE PreviewIInv'
  OBVIOUS
<1> USE DEF PreviewIInv, PipelineInv
<1>1. CASE PreviewNext
  <2>1. CountInv /\ CaptureTypes
    BY TypeParts DEF CountInv
  <2>2. PreviewTypeOK'
    BY <1>1, <2>1, PreviewTypes
  <2>3. BuffersCounted'
    BY <1>1, <2>1, BuffersStep
  <2>4. BuffersOwned'
    BY <2>2, <2>3, OwnedIsCounted, PTL
  <2>5. Holders' /\ StartsAndStops' /\ StoppedIsQuiet' /\ CaptureThreads'
    BY <1>1, <2>1, HoldersStep, StartsAndStopsStep, QuietStep, CaptureThreadsStep
  <2>6. FramesInOrder' /\ FramesOfThisStart' /\ NoStaleFrame'
    BY <1>1, <2>2, OrderStep, FreshStep, StaleStep
  <2> QED
    BY <2>2, <2>3, <2>4, <2>5, <2>6
<1>2. CASE UNCHANGED previewState
  <2> USE <1>2 DEF previewState, flags, previewQ, captureQ, appVars, uvcThreadVars, previewVars,
             captureVars, history
  <2>1. PreviewTypeOK' /\ StoppedIsQuiet'
    BY DEF PreviewTypeOK, StoppedIsQuiet, Stopped
  <2>2. Holders' /\ StartsAndStops' /\ CaptureThreads'
    BY DEF Holders, StartsAndStops, CaptureThreads
  <2>3. FramesInOrder' /\ FramesOfThisStart' /\ NoStaleFrame'
    BY DEF FramesInOrder, Pipeline, FramesOfThisStart, NoStaleFrame, Fresh
  <2>4. BuffersCounted' /\ BuffersOwned'
    BY DEF BuffersCounted, BuffersOwned, Owned, InUse, CaptureCount, Held, MayLose
  <2> QED
    BY <2>1, <2>2, <2>3, <2>4
<1> QED
  BY <1>1, <1>2

(* The strengthened invariant of the preview.                              *)
THEOREM PreviewInvariant == PreviewSpec => []PreviewIInv
BY PreviewInitInv, PreviewNextInv, PTL DEF PreviewSpec

(* UVCPreview.cpp: no buffer is in two places and each start loses at most *)
(* one, frames get newer along the pipeline, and the callback is not given *)
(* a frame of before the last start.  For queues and pools of any length,  *)
(* any number of starts and of capture threads alive at once.              *)
THEOREM FramesArePiped == PreviewSpec => []PipelineInv
<1>1. PreviewIInv => PipelineInv
  BY DEF PreviewIInv
<1> QED
  BY <1>1, PreviewInvariant, PTL

(* When stopPreview has returned, the preview thread and libuvc's callback *)
(* thread have ended and nothing is queued.                                *)
THEOREM StoppedPreviewIsQuiet == PreviewSpec => []StoppedIsQuiet
<1>1. PreviewIInv => StoppedIsQuiet
  BY DEF PreviewIInv
<1> QED
  BY <1>1, PreviewInvariant, PTL
=============================================================================
