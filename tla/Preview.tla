------------------------------- MODULE Preview -------------------------------
(***************************************************************************)
(* The preview of the USB camera (libuvccamera, UVCCamera/UVCPreview.cpp): *)
(* the thread libuvc calls with each frame, the preview thread that        *)
(* decodes, draws and hands on, the capture thread that calls the Java     *)
(* callback, and the application's thread that starts, stops and           *)
(* configures them.                                                        *)
(*                                                                         *)
(* A critical section is one step, except where it waits or where another  *)
(* thread's unlocked signal can fall between its test and its wait: there  *)
(* the mutex is held across steps (previewLock, captureLock).  The flags   *)
(* mIsRunning and mIsCapturing and the callback object are read unlocked,  *)
(* as in the code.  Frames are numbers; a pool counts buffers.  A capture   *)
(* thread bears the number of the start that created it: one that is not  *)
(* joined may meet its successor.  No capture surface is set (nobody in   *)
(* the instrument calls startCapture).                                    *)
(***************************************************************************)
EXTENDS Naturals, Sequences, FiniteSets

CONSTANTS
  MaxFrame,    \* MAX_FRAME: the length of the preview queue
  PoolSize,    \* FRAME_POOL_SZ
  Callbacks,   \* the Java callback objects
  None,        \* NULL
  Mjpeg,       \* requestMode # 0: frames are decoded before they are drawn
  CanFail,     \* negotiation, stream start and decoding may fail
  MaxSeq,      \* bound: the camera's frames are numbered up to here
  MaxStarts,   \* bound: the calls of startPreview that start a thread
  MaxAlive     \* bound: the capture threads alive at once

ASSUME PreviewAssumption ==
  /\ MaxFrame \in Nat \ {0}
  /\ PoolSize \in Nat
  /\ None \notin Callbacks
  /\ Mjpeg \in BOOLEAN /\ CanFail \in BOOLEAN
  /\ MaxSeq \in Nat \ {0} /\ MaxStarts \in Nat
  /\ MaxAlive \in Nat \ {0}

VARIABLES
  mIsRunning, mIsCapturing,
  window,          \* is mPreviewWindow set?
  mFrameCallbackObj,
  previewFrames, previewLock, previewWait,
  captureQueu, captureLock, captureWait,
  application, appArg,  \* the application's thread and the callback it sets
  uvcThread, copy, \* libuvc's callback thread and the frame it copied
  preview, frame,  \* the preview thread and the frame it holds
  capture, taken,  \* the capture threads and the frame each holds
  capture_thread,  \* the thread this id names, or 0
  bufs,            \* the frame buffers: those in the pool, and all there are
  seq, since,      \* history: the camera's last frame; the last one at the start
  starts           \* history: calls of startPreview

flags    == <<mIsRunning, mIsCapturing>>
previewQ == <<previewFrames, previewLock, previewWait>>
captureQ == <<captureQueu, captureLock, captureWait>>
appVars  == <<application, appArg>>
uvcThreadVars == <<uvcThread, copy>>
previewVars == <<preview, frame>>
captureVars == <<capture, taken>>
history  == <<seq, since, starts>>
settled  == <<window, mFrameCallbackObj, capture_thread, history>>
previewState == <<flags, window, mFrameCallbackObj, previewQ, captureQ, appVars, uvcThreadVars,
                  previewVars, captureVars, capture_thread, bufs, history>>

Nums == 1..MaxSeq
NoFrame == 0
Threads == 1..MaxStarts
App == 0   \* the application's thread among the waiters of capture_sync

AppSteps == {"idle", "cbWait", "cbWaiting", "cbWoken", "signalPreview",
             "signalCapture", "joinCapture", "joinPreview", "clear"}
UvcThreadSteps == {"none", "idle", "add"}
PreviewSteps == {"ended", "prepare", "start", "clear", "loop", "test", "wait",
                 "waiting", "woken", "draw", "add", "signal", "stop"}
CaptureSteps == {"ended", "begin", "outer", "inner", "test", "wait", "waiting",
                 "woken", "frame", "call", "onFrame", "broadcast"}

PreviewTypeOK ==
  /\ mIsRunning \in BOOLEAN /\ mIsCapturing \in BOOLEAN /\ window \in BOOLEAN
  /\ mFrameCallbackObj \in Callbacks \cup {None}
  /\ previewFrames \in Seq(Nums) /\ Len(previewFrames) <= MaxFrame
  /\ previewLock \in BOOLEAN /\ previewWait \in BOOLEAN
  /\ captureQueu \in Nums \cup {NoFrame}
  /\ captureLock \in BOOLEAN
  /\ captureWait \subseteq {App} \cup Threads
  /\ application \in AppSteps /\ appArg \in Callbacks \cup {None}
  /\ uvcThread \in UvcThreadSteps /\ copy \in Nums \cup {NoFrame}
  /\ preview \in PreviewSteps /\ frame \in Nums \cup {NoFrame}
  /\ capture \in [Threads -> CaptureSteps]
  /\ taken \in [Threads -> Nums \cup {NoFrame}]
  /\ capture_thread \in {0} \cup Threads
  /\ bufs \in [pool : 0..PoolSize, all : Nat]
  /\ seq \in 0..MaxSeq /\ since \in 0..MaxSeq
  /\ starts \in 0..MaxStarts

PreviewInit ==
  /\ mIsRunning = FALSE /\ mIsCapturing = FALSE /\ window = FALSE
  /\ mFrameCallbackObj = None
  /\ previewFrames = <<>> /\ previewLock = FALSE /\ previewWait = FALSE
  /\ captureQueu = NoFrame /\ captureLock = FALSE /\ captureWait = {}
  /\ application = "idle" /\ appArg = None
  /\ uvcThread = "none" /\ copy = NoFrame
  /\ preview = "ended" /\ frame = NoFrame
  /\ capture = [t \in Threads |-> "ended"] /\ taken = [t \in Threads |-> NoFrame]
  /\ capture_thread = 0
  /\ bufs = [pool |-> 0, all |-> 0]
  /\ seq = 0 /\ since = 0 /\ starts = 0

-----------------------------------------------------------------------------
(* The pool: get_frame allocates when it is empty, recycle_frame frees     *)
(* when it is full.                                                        *)

get_frame(b) == IF b.pool > 0 THEN [b EXCEPT !.pool = @ - 1]
                              ELSE [b EXCEPT !.all = @ + 1]

\* Mutant: the pool has no limit.
recycle_frame_NoLimit(b) == [b EXCEPT !.pool = @ + 1]

recycle_frame(b) == IF b.pool < PoolSize THEN [b EXCEPT !.pool = @ + 1]
                                         ELSE [b EXCEPT !.all = @ - 1]

\* A buffer taken and given back within a step: a conversion's target.
Converted(b) == recycle_frame(get_frame(b))

\* n buffers given back.
\* Mutant: a queue is cleared without giving its buffers back.
Recycled_None(b, n) == b

Recycled(b, n) ==
  LET kept == IF b.pool + n <= PoolSize THEN n ELSE PoolSize - b.pool
  IN [pool |-> b.pool + kept, all |-> b.all - (n - kept)]

-----------------------------------------------------------------------------
(* Condition variables.  Only the preview thread waits on preview_sync, the *)
(* capture threads and the application's wait on capture_sync.             *)

SignalPreview ==
  IF previewWait THEN /\ previewWait' = FALSE /\ preview' = "woken"
                 ELSE UNCHANGED <<previewWait, preview>>

\* What the woken do next: they need the mutex again.
Wake(who) ==
  /\ captureWait' = captureWait \ who
  /\ application' = IF App \in who THEN "cbWoken" ELSE application
  /\ capture' = [t \in Threads |-> IF t \in who THEN "woken" ELSE capture[t]]

\* Mutant: nobody is told of the new capture frame.
BroadcastCapture_None == Wake({})

BroadcastCapture == Wake(captureWait)

\* pthread_cond_signal wakes one of the waiters, if there are any.
SignalCapture ==
  \/ captureWait = {} /\ Wake({})
  \/ \E who \in captureWait : Wake({who})

-----------------------------------------------------------------------------
(* The application's thread.                                               *)

setPreviewDisplay(on) ==
  /\ application = "idle" /\ ~previewLock
  /\ window # on
  /\ window' = on
  /\ UNCHANGED <<flags, mFrameCallbackObj, previewQ, captureQ, appVars, uvcThreadVars,
                 previewVars, captureVars, capture_thread, bufs, history>>

\* The tail of setFrameCallback, under capture_mutex.
SetObject(obj) ==
  /\ mFrameCallbackObj' = obj
  /\ captureLock' = FALSE

\* setFrameCallback asks a running capture thread to stop, signals it and waits.
setFrameCallback(obj) ==
  /\ application = "idle" /\ ~captureLock
  /\ LET pause == mIsRunning /\ mIsCapturing
     IN /\ mIsCapturing' = IF pause THEN FALSE ELSE mIsCapturing
        /\ \/ /\ pause /\ mFrameCallbackObj # None
              /\ \/ captureWait = {} /\ UNCHANGED <<captureWait, capture>>
                 \/ \E t \in captureWait : /\ captureWait' = captureWait \ {t}
                                           /\ capture' = [capture EXCEPT ![t] = "woken"]
              /\ application' = "cbWait" /\ appArg' = obj
              /\ captureLock' = TRUE
              /\ UNCHANGED mFrameCallbackObj
           \/ /\ ~(pause /\ mFrameCallbackObj # None)
              /\ SetObject(obj)
              /\ UNCHANGED <<application, appArg, captureWait, capture>>
  /\ UNCHANGED <<mIsRunning, window, previewQ, captureQueu, uvcThreadVars, previewVars,
                 taken, capture_thread, bufs, history>>

WaitCapturing ==
  /\ application = "cbWait"
  /\ application' = "cbWaiting"
  /\ captureLock' = FALSE
  /\ captureWait' = captureWait \cup {App}
  /\ UNCHANGED <<flags, previewQ, captureQueu, appArg, uvcThreadVars, previewVars,
                 captureVars, bufs, settled>>

FrameCallbackSet ==
  /\ application = "cbWoken" /\ ~captureLock
  /\ application' = "idle" /\ appArg' = None
  /\ SetObject(appArg)
  /\ UNCHANGED <<flags, window, previewQ, captureQueu, captureWait, uvcThreadVars,
                 previewVars, captureVars, capture_thread, bufs, history>>

startPreview ==
  /\ application = "idle" /\ ~previewLock
  /\ ~mIsRunning
  /\ starts < MaxStarts
  /\ Cardinality({t \in Threads : capture[t] # "ended"}) < MaxAlive
  /\ window
  /\ mIsRunning' = TRUE
  /\ preview' = "prepare"
  /\ starts' = starts + 1
  /\ since' = seq
  /\ UNCHANGED <<mIsCapturing, window, mFrameCallbackObj, previewQ, captureQ, appVars,
                 uvcThreadVars, frame, captureVars, capture_thread, bufs, seq>>

\* stopPreview: the flag and the two signals are not under a mutex.  The Java
\* class has cleared the callback first.
stopPreview ==
  /\ application = "idle"
  /\ mFrameCallbackObj = None
  /\ mIsRunning' = FALSE
  /\ application' = IF mIsRunning THEN "signalPreview" ELSE "clear"
  /\ UNCHANGED <<mIsCapturing, previewQ, captureQ, appArg, uvcThreadVars, previewVars,
                 captureVars, bufs, settled>>

StopSignalsPreview ==
  /\ application = "signalPreview"
  /\ application' = "signalCapture"
  /\ SignalPreview
  /\ UNCHANGED <<flags, previewFrames, previewLock, captureQ, appArg, uvcThreadVars,
                 frame, captureVars, bufs, settled>>

StopSignalsCapture ==
  /\ application = "signalCapture"
  /\ application' = "joinCapture"
  /\ \/ captureWait = {} /\ UNCHANGED <<captureWait, capture>>
     \/ \E t \in captureWait : /\ captureWait' = captureWait \ {t}
                               /\ capture' = [capture EXCEPT ![t] = "woken"]
  /\ UNCHANGED <<flags, previewQ, captureQueu, captureLock, appArg, uvcThreadVars,
                 previewVars, taken, bufs, settled>>

\* pthread_join of an id that names no thread fails at once (it is logged).
JoinCapture ==
  /\ application = "joinCapture"
  /\ capture_thread \in Threads => capture[capture_thread] = "ended"
  /\ application' = "joinPreview"
  /\ capture_thread' = 0
  /\ UNCHANGED <<flags, window, mFrameCallbackObj, previewQ, captureQ, appArg,
                 uvcThreadVars, previewVars, captureVars, bufs, history>>

\* Mutant: the preview thread is not joined.
JoinPreview_NoWait ==
  /\ application = "joinPreview"
  /\ application' = "clear"
  /\ UNCHANGED <<flags, previewQ, captureQ, appArg, uvcThreadVars, previewVars,
                 captureVars, bufs, settled>>

JoinPreview ==
  /\ application = "joinPreview"
  /\ preview = "ended"
  /\ application' = "clear"
  /\ UNCHANGED <<flags, previewQ, captureQ, appArg, uvcThreadVars, previewVars,
                 captureVars, bufs, settled>>

\* clearPreviewFrame and clearCaptureFrame.
ClearPreview == previewFrames' = <<>>
\* Mutant: the capture queue is not cleared.
ClearCapture_Not == UNCHANGED captureQueu
ClearCapture == captureQueu' = NoFrame
CaptureCount == IF captureQueu = NoFrame THEN 0 ELSE 1

StopClears ==
  /\ application = "clear" /\ ~previewLock /\ ~captureLock
  /\ application' = "idle"
  /\ window' = FALSE
  /\ ClearPreview /\ ClearCapture
  /\ bufs' = Recycled(bufs, Len(previewFrames) + CaptureCount)
  /\ UNCHANGED <<flags, mFrameCallbackObj, previewLock, previewWait, captureLock,
                 captureWait, appArg, uvcThreadVars, previewVars, captureVars,
                 capture_thread, history>>

-----------------------------------------------------------------------------
(* libuvc's callback thread: uvc_preview_frame_callback.                   *)

\* A frame comes and is copied into a buffer.  (Past MaxSeq the number stays.)
FrameArrives ==
  /\ uvcThread = "idle"
  /\ mIsRunning
  /\ LET n == IF seq < MaxSeq THEN seq + 1 ELSE seq
     IN seq' = n /\ copy' = n
  /\ uvcThread' = "add"
  /\ bufs' = get_frame(bufs)
  /\ UNCHANGED <<flags, window, mFrameCallbackObj, previewQ, captureQ, appVars,
                 previewVars, captureVars, capture_thread, since, starts>>

addPreviewFrame ==
  /\ uvcThread = "add" /\ ~previewLock
  /\ uvcThread' = "idle" /\ copy' = NoFrame
  /\ IF mIsRunning /\ Len(previewFrames) < MaxFrame
     THEN /\ previewFrames' = Append(previewFrames, copy)
          /\ SignalPreview
          /\ UNCHANGED bufs
     ELSE /\ bufs' = recycle_frame(bufs)
          /\ UNCHANGED <<previewFrames, previewWait, preview>>
  /\ UNCHANGED <<flags, previewLock, captureQ, appVars, frame, captureVars, settled>>

-----------------------------------------------------------------------------
(* The preview thread: prepare_preview, do_preview.                        *)

GoPreview(from, to) == preview = from /\ preview' = to

PreparePreview ==
  /\ \/ GoPreview("prepare", "start")
     \/ CanFail /\ GoPreview("prepare", "ended")
  /\ UNCHANGED <<flags, previewQ, captureQ, appVars, uvcThreadVars, frame, captureVars,
                 bufs, settled>>

StartStreaming ==
  /\ \/ GoPreview("start", "clear") /\ uvcThread' = "idle"
     \/ CanFail /\ GoPreview("start", "ended") /\ UNCHANGED uvcThread
  /\ UNCHANGED <<flags, previewQ, captureQ, appVars, copy, frame, captureVars, bufs,
                 settled>>

\* clearPreviewFrame, then pthread_create of the capture thread.
StartCapture ==
  /\ GoPreview("clear", "loop") /\ ~previewLock
  /\ ClearPreview
  /\ bufs' = Recycled(bufs, Len(previewFrames))
  /\ capture' = [capture EXCEPT ![starts] = "begin"]
  /\ capture_thread' = starts
  /\ UNCHANGED <<flags, window, mFrameCallbackObj, previewLock, previewWait, captureQ,
                 appVars, uvcThreadVars, frame, taken, history>>

PreviewLoop ==
  /\ GoPreview("loop", IF mIsRunning THEN "test" ELSE "signal")
  /\ UNCHANGED <<flags, previewQ, captureQ, appVars, uvcThreadVars, frame, captureVars,
                 bufs, settled>>

\* The end of waitPreviewFrame.
TakePreviewFrame ==
  IF mIsRunning /\ previewFrames # <<>>
  THEN /\ frame' = Head(previewFrames)
       /\ previewFrames' = Tail(previewFrames)
       /\ preview' = "draw"
  ELSE /\ preview' = "loop"
       /\ UNCHANGED <<frame, previewFrames>>

\* waitPreviewFrame: the test of the queue, not of mIsRunning, decides to wait.
waitPreviewFrame ==
  /\ preview \in {"test", "woken"} /\ ~previewLock
  /\ IF preview = "test" /\ previewFrames = <<>>
     THEN /\ preview' = "wait" /\ previewLock' = TRUE
          /\ UNCHANGED <<frame, previewFrames>>
     ELSE TakePreviewFrame /\ UNCHANGED previewLock
  /\ UNCHANGED <<flags, previewWait, captureQ, appVars, uvcThreadVars, captureVars, bufs,
                 settled>>

PreviewWaits ==
  /\ GoPreview("wait", "waiting")
  /\ previewLock' = FALSE /\ previewWait' = TRUE
  /\ UNCHANGED <<flags, previewFrames, captureQ, appVars, uvcThreadVars, frame,
                 captureVars, bufs, settled>>

\* uvc_mjpeg2yuyv (which may fail) and draw_preview_one.
draw_preview_one ==
  /\ preview = "draw" /\ ~previewLock
  /\ \/ /\ preview' = "add"
        /\ bufs' = IF Mjpeg \/ window THEN Converted(bufs) ELSE bufs
        /\ UNCHANGED frame
     \/ /\ Mjpeg /\ CanFail
        /\ preview' = "loop" /\ frame' = NoFrame
        /\ bufs' = recycle_frame(Converted(bufs))
  /\ UNCHANGED <<flags, previewQ, captureQ, appVars, uvcThreadVars, captureVars, settled>>

\* addCaptureFrame keeps the latest frame only; once stopped it keeps none, and
\* gives the buffer back to nobody.
addCaptureFrame ==
  /\ preview = "add" /\ ~captureLock
  /\ preview' = "loop" /\ frame' = NoFrame
  /\ IF mIsRunning
     THEN /\ captureQueu' = frame
          /\ bufs' = Recycled(bufs, CaptureCount)
          /\ BroadcastCapture
     ELSE UNCHANGED <<captureQueu, bufs, captureWait, application, capture>>
  /\ UNCHANGED <<flags, previewQ, captureLock, appArg, uvcThreadVars, taken, settled>>

\* After the loop: pthread_cond_signal(&capture_sync), not under the mutex.
PreviewSignals ==
  /\ GoPreview("signal", "stop")
  /\ SignalCapture
  /\ UNCHANGED <<flags, previewQ, captureQueu, captureLock, appArg, uvcThreadVars, frame,
                 taken, bufs, settled>>

\* uvc_stop_streaming returns when libuvc's callback thread has ended. This is so
\* while the camera is plugged in: once a lost device has cleared strmh->running
\* uvc_stream_close leaves the stop out (stream.c:1862), which UvcStream models.
StopStreaming ==
  /\ GoPreview("stop", "ended")
  /\ uvcThread = "idle" /\ uvcThread' = "none"
  /\ UNCHANGED <<flags, previewQ, captureQ, appVars, copy, frame, captureVars, bufs,
                 settled>>

-----------------------------------------------------------------------------
(* A capture thread: do_capture, do_capture_idle_loop.                     *)

GoCapture(t, from, to) == capture[t] = from /\ capture' = [capture EXCEPT ![t] = to]

CaptureBegins(t) ==
  /\ GoCapture(t, "begin", "outer") /\ ~captureLock
  /\ ClearCapture
  /\ bufs' = Recycled(bufs, CaptureCount)
  /\ UNCHANGED <<flags, previewQ, captureLock, captureWait, appVars, uvcThreadVars,
                 previewVars, taken, settled>>

do_capture(t) ==
  /\ GoCapture(t, "outer", IF mIsRunning THEN "inner" ELSE "ended")
  /\ mIsCapturing' = (mIsRunning \/ mIsCapturing)
  /\ UNCHANGED <<mIsRunning, previewQ, captureQ, appVars, uvcThreadVars, previewVars,
                 taken, bufs, settled>>

do_capture_idle_loop(t) ==
  /\ GoCapture(t, "inner", IF mIsRunning /\ mIsCapturing THEN "test" ELSE "broadcast")
  /\ UNCHANGED <<flags, previewQ, captureQ, appVars, uvcThreadVars, previewVars, taken,
                 bufs, settled>>

\* The end of waitCaptureFrame: the frame leaves captureQueu.
\* Mutant: it stays there.
TakeCaptureFrame_Keep(t) ==
  /\ taken' = [taken EXCEPT ![t] = captureQueu]
  /\ UNCHANGED captureQueu

TakeCaptureFrame(t) ==
  /\ taken' = [taken EXCEPT ![t] = captureQueu]
  /\ captureQueu' = NoFrame

\* waitCaptureFrame: the frame is looked for once more when the wait ends.
waitCaptureFrame(t) ==
  /\ capture[t] \in {"test", "woken"} /\ ~captureLock
  /\ \/ /\ capture[t] = "test" /\ captureQueu = NoFrame
        /\ capture' = [capture EXCEPT ![t] = "wait"] /\ captureLock' = TRUE
        /\ UNCHANGED <<taken, captureQueu>>
     \/ /\ mIsRunning /\ captureQueu # NoFrame
        /\ TakeCaptureFrame(t)
        /\ capture' = [capture EXCEPT ![t] = "frame"]
        /\ UNCHANGED captureLock
     \/ /\ IF captureQueu = NoFrame THEN capture[t] = "woken" ELSE ~mIsRunning
        /\ capture' = [capture EXCEPT ![t] = "inner"]
        /\ UNCHANGED <<taken, captureQueu, captureLock>>
  /\ UNCHANGED <<flags, previewQ, captureWait, appVars, uvcThreadVars, previewVars, bufs,
                 settled>>

CaptureWaits(t) ==
  /\ GoCapture(t, "wait", "waiting")
  /\ captureLock' = FALSE
  /\ captureWait' = captureWait \cup {t}
  /\ UNCHANGED <<flags, previewQ, captureQueu, appVars, uvcThreadVars, previewVars, taken,
                 bufs, settled>>

\* do_capture_callback: with a callback the frame is converted and onFrame is
\* called; without one the frame goes back to the pool.
do_capture_callback(t) ==
  /\ IF mFrameCallbackObj # None
     THEN /\ GoCapture(t, "frame", "call")
          /\ bufs' = Converted(bufs)
          /\ UNCHANGED taken
     ELSE /\ GoCapture(t, "frame", "inner")
          /\ bufs' = recycle_frame(bufs)
          /\ taken' = [taken EXCEPT ![t] = NoFrame]
  /\ UNCHANGED <<flags, previewQ, captureQ, appVars, uvcThreadVars, previewVars, settled>>

\* CallVoidMethod, on whatever mFrameCallbackObj is by now.
CallOnFrame(t) ==
  /\ GoCapture(t, "call", "onFrame")
  /\ UNCHANGED <<flags, previewQ, captureQ, appVars, uvcThreadVars, previewVars, taken,
                 bufs, settled>>

OnFrameReturns(t) ==
  /\ GoCapture(t, "onFrame", "inner")
  /\ taken' = [taken EXCEPT ![t] = NoFrame]
  /\ bufs' = recycle_frame(bufs)
  /\ UNCHANGED <<flags, previewQ, captureQ, appVars, uvcThreadVars, previewVars, settled>>

\* The inner loop has ended: pthread_cond_broadcast, not under the mutex.
CaptureBroadcasts(t) ==
  /\ capture[t] = "broadcast"
  /\ captureWait' = {}
  /\ application' = IF App \in captureWait THEN "cbWoken" ELSE application
  /\ capture' = [u \in Threads |-> IF u = t THEN "outer"
                                   ELSE IF u \in captureWait THEN "woken" ELSE capture[u]]
  /\ UNCHANGED <<flags, previewQ, captureQueu, captureLock, appArg, uvcThreadVars,
                 previewVars, taken, bufs, settled>>

-----------------------------------------------------------------------------
AppCalls ==
  \/ \E on \in BOOLEAN : setPreviewDisplay(on)
  \/ \E obj \in Callbacks \cup {None} : setFrameCallback(obj)
  \/ startPreview
  \/ stopPreview

AppReturns ==
  \/ WaitCapturing \/ FrameCallbackSet
  \/ StopSignalsPreview \/ StopSignalsCapture \/ JoinCapture \/ JoinPreview \/ StopClears

PreviewThread ==
  \/ PreparePreview \/ StartStreaming \/ StartCapture \/ PreviewLoop
  \/ waitPreviewFrame \/ PreviewWaits \/ draw_preview_one \/ addCaptureFrame
  \/ PreviewSignals \/ StopStreaming

CaptureThread(t) ==
  \/ CaptureBegins(t) \/ do_capture(t) \/ do_capture_idle_loop(t) \/ waitCaptureFrame(t)
  \/ CaptureWaits(t) \/ do_capture_callback(t) \/ CallOnFrame(t) \/ OnFrameReturns(t)
  \/ CaptureBroadcasts(t)

PreviewNext ==
  \/ AppCalls \/ AppReturns
  \/ FrameArrives \/ addPreviewFrame
  \/ PreviewThread \/ \E t \in Threads : CaptureThread(t)

PreviewSpec == PreviewInit /\ [][PreviewNext]_previewState

\* Every thread that can take a step takes one, a mutex that is free again and
\* again is acquired, onFrame returns, and a plugged camera keeps sending.
PreviewFairSpec ==
  /\ PreviewSpec
  /\ SF_previewState(AppReturns)
  /\ WF_previewState(FrameArrives) /\ SF_previewState(addPreviewFrame)
  /\ SF_previewState(PreviewThread)
  /\ \A t \in Threads : SF_previewState(CaptureThread(t))

-----------------------------------------------------------------------------
(* Properties.                                                             *)

Held(stage, steps) == IF stage \in steps THEN 1 ELSE 0
InUse ==
  Len(previewFrames) + CaptureCount
    + Held(uvcThread, {"add"}) + Held(preview, {"draw", "add"})
    + Cardinality({t \in Threads : taken[t] # NoFrame})
Owned == bufs.pool + InUse

\* The buffers are those of the pool, the queues and the threads that hold one;
\* no buffer is in two places, and a start of the preview loses at most one
\* (the frame that addCaptureFrame drops when the preview has been stopped).
BuffersOwned == Owned <= bufs.all /\ bufs.all <= Owned + starts

\* Along the pipeline frames get newer: what a capture thread holds is older
\* than what waits in captureQueu, that is older than what the preview thread
\* draws, and so on to the copy just made.
Pipeline == <<captureQueu, frame>> \o previewFrames \o <<copy>>
Newer(m, n) == m # NoFrame /\ n # NoFrame => m < n \/ n = MaxSeq
FramesInOrder ==
  /\ \A i, j \in DOMAIN Pipeline : i < j => Newer(Pipeline[i], Pipeline[j])
  /\ \A t \in Threads, i \in DOMAIN Pipeline : Newer(taken[t], Pipeline[i])

\* No frame of before the last startPreview comes to the callback through the capture
\* thread that the next stopPreview joins.  (One that was created after the join of its
\* stop belongs to nobody: if the next start comes before it has looked at mIsRunning it
\* serves on beside its successor, and may carry a frame across the start after that.)
Fresh(n) == n # NoFrame => n > since \/ n = MaxSeq
NoStaleFrame == \A t \in Threads : t = capture_thread => Fresh(taken[t])

\* UVCPreview: buffers and frames on their way from libuvc to the callback.
PipelineInv == PreviewTypeOK /\ BuffersOwned /\ FramesInOrder /\ NoStaleFrame

\* When stopPreview has returned, the preview thread and libuvc's callback
\* thread have ended and nothing is queued.
Stopped == application = "idle" /\ ~mIsRunning
StoppedIsQuiet ==
  Stopped => /\ preview = "ended" /\ uvcThread = "none"
             /\ previewFrames = <<>> /\ captureQueu = NoFrame

(* The strengthening behind PipelineInv and StoppedIsQuiet.                *)

\* Who holds a frame, and where.
Holders ==
  /\ copy # NoFrame <=> uvcThread = "add"
  /\ frame # NoFrame <=> preview \in {"draw", "add"}
  /\ \A t \in Threads : taken[t] # NoFrame <=> capture[t] \in {"frame", "call", "onFrame"}

\* How the application's calls and the threads of the preview follow each other, and who
\* waits for which condition.
StartsAndStops ==
  /\ application \in {"cbWait", "cbWaiting", "cbWoken"} => mIsRunning
  /\ application \in {"signalPreview", "signalCapture", "joinCapture", "joinPreview", "clear"} =>
       ~mIsRunning
  /\ application = "clear" => preview = "ended"
  /\ uvcThread # "none" => preview \notin {"ended", "prepare", "start"}
  /\ previewWait => preview = "waiting"
  /\ App \in captureWait => application = "cbWaiting"
  /\ \A t \in Threads \cap captureWait : capture[t] = "waiting"

\* A start creates its capture thread once, and the thread that stopPreview has joined,
\* or that was created later, holds no frame.
CaptureThreads ==
  /\ \A t \in Threads : t > starts => capture[t] = "ended"
  /\ preview \in {"prepare", "start", "clear"} => starts # 0 /\ capture[starts] = "ended"
  /\ ~mIsRunning /\ application \notin {"signalPreview", "signalCapture", "joinCapture"} =>
       \A t \in Threads : t = capture_thread => taken[t] = NoFrame

\* The present start has not lost its buffer yet.
MayLose ==
  \/ preview \notin {"ended", "loop", "signal", "stop"}
  \/ preview = "loop" /\ mIsRunning
BuffersCounted ==
  Owned <= bufs.all /\ bufs.all + (IF MayLose THEN 1 ELSE 0) <= Owned + starts

\* What is under way is of this start, and no newer than the camera's last frame.
FramesOfThisStart ==
  /\ since <= seq
  /\ Fresh(captureQueu) /\ Fresh(frame) /\ Fresh(copy)
  /\ captureQueu <= seq /\ frame <= seq /\ copy <= seq
  /\ \A i \in DOMAIN previewFrames : Fresh(previewFrames[i]) /\ previewFrames[i] <= seq
  /\ \A t \in Threads : taken[t] <= seq

\* The inductive invariant.
PreviewIInv ==
  /\ PipelineInv /\ StoppedIsQuiet
  /\ Holders /\ StartsAndStops /\ CaptureThreads /\ BuffersCounted /\ FramesOfThisStart

\* What the two promises below rest on.  After a start that failed there is no capture
\* thread, and while no frame can be decoded nobody broadcasts capture_sync.
StartsWork == [](mIsRunning => preview # "ended")
DecodingWorks == <>[][~(preview = "draw" /\ preview' = "loop")]_previewState

\* setFrameCallback, which waits for the capture thread, returns; and as long as the
\* preview runs with a callback and the application leaves both alone, the callback gets
\* frames.
Delivering == \E t \in Threads : capture[t] = "onFrame"
CallbackServed ==
  StartsWork /\ DecodingWorks =>
    /\ application = "cbWait" ~> application = "idle"
    /\ mIsRunning /\ mFrameCallbackObj # None
         ~> application # "idle" \/ ~mIsRunning \/ mFrameCallbackObj = None \/ Delivering
=============================================================================
