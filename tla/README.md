# HuNanInstrument in TLA+

HuNanInstrument is the Android program of an access-control instrument for
explosives stores ("防爆采集器"). A camera recognises people; when two different
keepers of a store have been recognised the instrument opens an electric lock;
a contact in the door tells it when the door opens and shuts; a server is told
who checked the store, who opened it, and when it was shut.

The camera may be a USB camera: the repository carries the native library
that drives one (libuvccamera, with the parts of libuvc and libusb its authors
rewrote), which is concurrent code of its own and is modelled too.

This directory holds TLA+ modules translated from that program's source, TLC
configurations that check them on small instances, and proofs of the main
safety properties that TLAPS checks for every value of the constants.

Paths of Java files are relative to `app/src/main/java/cn/cbdi/hunaninstrument/`,
paths of C files to `libuvccamera/src/main/jni/`. The
build modelled is the one `AppInit` configures (`Config/HLJ_Config`): service
`HeBeiService`, activities `HebeiMainActivity` and `HeBeiRegActivity`, face engine
`HuNanFaceImpl3`, serial board `SwitchImpl4`. The same classes serve other
configurations (Hebei, GDMB, WenZhou, XAJD) which differ from it in
`XungengCanOpen()`. That switch is a constant of `Session`: the runs `session` and `access_safety` set
it to TRUE, `session_offline` and `access_liveness` to FALSE, and the theorems hold for both.

## 1. Inventory

The instrument:

| Component | State it keeps | Operations | Module | Status |
|---|---|---|---|---|
| `State/DoorState/Door`, `State/LockState/Lock` | door, lock (singletons without synchronisation) | `setMdoorState`, `setState`, both `doNext` | DoorLock | modelled |
| `Service/HeBeiService`, door part | `Last_Value`, `unlock_noOpen`, `rx_delay`, the timers behind them | `onGetPassEvent`, `onSwitchingText`, bodies of the 120 s and 10 s timers, `alarmRecord`, `CloseDoorRecord` | DoorLock | modelled (door-contact branch) |
| `State/OperationState/DoorOpenOperation` | how many people are counted | `doNext`, `setmDoorOpenOperation` | Session | modelled |
| `Activity_Hebei/HebeiMainActivity`, `BaseActivity` | `cg_User1`, `cg_User2`, `checkChange` | `onUser`, `onText`, `checkRecord`, `OpenDoor` and their answers, `onGetOpenDoorEvent`, `onGetLockUpEvent`, pause, resume | Session | partly |
| `Tool/ServerConnectionUtil` | posting threads, the reader field they share | `post`, `post_SingleThread`; `download` | Upload, Session | partly |
| `HeBeiService`, records | the table `ReUploadWithBsBean` | `reUpload`, its daily timer, the callbacks that insert and delete rows | Upload | modelled |
| `HeBeiService`, data part | the tables `Employer` and `Keeper` | `syncData`, `getPic`, `syncFace`, `queryPersion` | Roster | modelled |
| `HuNanFaceImpl3`, `FacePresenter` | engine queue `es`, `action`, `identityStatus`, the current view, the features | `IMG_to_IMG`, `FaceRegInBackGround`, `loadFacesFromDB`; identification, `FaceReg` | Session, Roster | partly |
| `Activity_Hebei/HeBeiRegActivity` | `can_recentPic`, the card read | registration, `recentPic` | Session, Roster (what reaches them) | partly |
| `SwitchImpl4` | `testStr`, `bufCount` | serial reader thread, its handler | – | planned |
| ID-card reader, `UpdateService`, configuration, network probes | – | – | – | not modelled (I/O and constants) |
| other provinces' services and activities | near-copies of the above | – | – | not modelled (not in this build) |

The native camera:

| Component | State it keeps | Operations | Module | Status |
|---|---|---|---|---|
| `UVCCamera/UVCPreview.cpp` | preview queue, capture slot, buffer pool, `mIsRunning`, `mIsCapturing`, the callback object | `setPreviewDisplay`, `setFrameCallback`, `startPreview`, `stopPreview`, libuvc's callback, preview and capture threads | Preview | partly (no capture surface) |
| `libuvc/src/stream.c`, life of a stream | `transfers[]`, `running`, the held frame | open, start, stop, close, `_uvc_stream_callback`, `_uvc_user_caller` | UvcStream | partly (isochronous) |
| `libuvc/src/stream.c`, frames | `outbuf`, `holdbuf`, `seq`, `hold_seq`, `last_seq`, error marks | `_uvc_process_payload_iso`, `_uvc_swap_buffers`, `_uvc_user_caller` | UvcFrames | partly (isochronous) |
| `libusb/libusb/io.c`, `core.c`, `sync.c`; `libuvc/src/init.c` | `events_lock`, the waiters, `pollfd_modify`, the control pipe | `libusb_handle_events*`, synchronous transfers, `libusb_open`, `libusb_close`, the event thread | EventLock | partly |
| `libusb/libusb/os/android_usbfs.c`, `io.c` | `flying_transfers`, URBs, `reap_action` | submit, cancel, timeout, reap, loss of the device | UsbTransfers | partly (isochronous) |
| descriptors, controls, JNI glue, pixel conversion | – | getters and setters | – | not modelled |
| libjpeg-turbo, libusb for other systems, unmodified `*_original.c` | – | – | – | not modelled (vendored, most not built) |

How the components of the instrument interact. Recognised faces come from the
face engine to the main thread as `onUser`; `onUser` counts people in
`DoorOpenOperation` and, for the second one, asks the engine to compare the two
photos. The engine has one thread and a queue; its answer comes back as
`onText(IMG_MATCH_IMG_Score)`, which counts on and posts a `PassEvent`. `EventBus`
delivers an event posted on the main thread at once, inside the poster's handler,
so `HeBeiService.onGetPassEvent` unlocks the lock before `onText` returns. Frames of
the serial board reach `HeBeiService.onSwitchingText` on the main thread; an opening,
legal or illegal, posts an `OpenDoorEvent`, delivered at once to `BaseActivity`, which handles
both alike: it posts an opening by the people on record, disposes the patrol timer and
starts the operation over. The lock is closed by RxJava timers *on computation threads*; they write
`Lock` and `Door` directly and post a `LockUpEvent`, which waits in the looper's queue and
then resets the session. Records travel on a thread each and their answers come back
to the main thread in any order; what cannot be sent becomes a row and is posted
again at the next start and every night. Every night, too, the service asks for the
three lists of people, deletes who is on none, and fetches and registers new photos.

How the native parts interact. The application's thread starts and stops the
preview; its preview thread starts the stream of libuvc, whose transfers complete
on the event thread of libuvc; the event thread assembles frames and wakes the
caller's thread, which copies a frame and calls `UVCPreview`; that copies it again
into a queue for the preview thread, which decodes, draws and hands it to the capture
thread, which calls Java. The event thread is at the same time one of the threads
that compete for libusb's `events_lock`; control transfers of the application's
thread are others.

What is hard here:

* two timer bodies on other threads write the fields that the main thread reads
  up to three times in one handler (`Door.doNext`, `Lock.doNext`, `onSwitchingText`);
* the fields `unlock_noOpen`, `rx_delay`, `checkChange` hold the *latest* timer only;
  an earlier one that is overwritten can no longer be cancelled;
* a timer that has fired can no longer be disposed;
* what a session's handlers share, the two people on record, is reread when an
  answer arrives, up to 40 s later, and may be other people's or nobody's by then;
* all posting threads read their answers through one field, `in`;
* every score unlocks, whoever asked for it;
* the roster is built from three answers and a photo per person, each of which may
  fail, over two databases that no transaction joins;
* exceptions: `EventBus`, `FacePresenter` and `onUser` swallow them and with them the
  rest of a handler; anywhere else on the main thread one ends the process;
* the native threads test flags without their locks, signal without them, and share
  one condition variable between two purposes;
* memory of a stream, a transfer or a URB is freed by whoever notices last;
* threads that wait for a USB event may sleep while another handles theirs.

`PROJECT.json` lists these hazards one by one, at their lines, with the properties
that would catch each going wrong, or a note that says why none can.

## 2. The modules

### DoorLock

The door, the lock, and the timers. `main` is the main thread's place inside a
handler (`idle` between two); `utimer[t]`, `rtimer[t]` are the places of the timer
bodies. A handler of the source becomes several actions exactly where it reads
or writes a field the timer threads also touch: `onGetPassEvent` is
`onGetPassEvent; PassDoNext`; an opening is `OpenFrame` (or `FirstFrame`, the path of the very
first frame), `IsLockup`, `IsUnlock`, `OpenDoNext`, `alarmRecord`, `DisposeTimers`; the 120 s body is
`UFire, ULock, UPost`; the 10 s body is `RFire, RLock, RDoor, RDispose, RRecord, RPost`. `UFire` and
`RFire` are the moment after which `dispose` comes too late.

History variables: `opening` collects what was reported of the latest opening
(event, siren, record), `owed` says that a legal opening has no close record yet,
and `clean` marks a *clean pass*: the pass was granted with the door shut and
locked and no timer outstanding, and since then no frame and no timer overlapped
half-way. The code gives no guarantee outside clean passes (a second pass
overwrites `unlock_noOpen`, and so on), and the properties say for each promise
whether it needs one.

| Property | Holds in | Says |
|---|---|---|
| `OpeningReported` | every execution | an illegal opening sounds the siren and is recorded; a siren is recorded |
| `OpenStateWatched` | every execution | a stale "open" in Door has its correction on the way |
| `OpeningAgrees` | clean passes | event, siren and alarm record of an opening agree |
| `UnlockWatched` | clean passes | an unlocked, shut door has a timer that will lock it |
| `NoForgottenTimer` | clean passes | no armed timer escaped the two fields; at most one is armed |
| `CloseRecordOwed` | clean passes | a legal opening that is shut has its close record coming |
| `DoorFollowsContact` | clean passes | Door does not say shut over an open contact |
| `RelockShut` (action) | clean passes | the lock never closes under an open door |
| `ComesToRest` (liveness) | see the formulas | `SirenSilenced`: the siren stops; `Relocked`: an unlocked, shut door is locked; `ShutNoticed`: Door follows a contact that stays shut |

### Session

`DoorOpenOperation`, the people on record, the 60 s patrol timer, the engine's
queue and the posts. Every handler runs on the main thread, so each is one
action: `FirstWarden`, `SecondWarden`, `PatrolSecond`, `CheckPerson` are the branches of
`onUser`; `CheckFires` and `checkRecord` the 60 s timer (`due` between firing and the looper
running it; `dispose` still drops it then, since `observeOn` checks); `CheckAnswered` and
`OpenAnswered` the callbacks; `Score` is `onText`; `ScoreElsewhere` the same score while the
registration page, or none, is the view; `recentPic` and its answer are the way the
registration page starts a comparison whose score may reach the main page;
`onGetOpenDoorEvent`, `onGetLockUpEvent`, `onPause`, `onResume` as in the source. `Crash` is an
exception on the main thread nobody catches.

Two over-approximations, both on the side of more behaviour: the camera may
recognise anybody at any time the main page is shown (the 3 s pause of
`identityStatus` is left to the planned FaceEngine), and door events come at any
time or never (AccessControl says when). Nothing is assumed of the door.

`quiet` marks a *quiet session*: it began with nothing left of earlier ones (no
timer, post, comparison or photo request outstanding, door locked) and nobody
interferes until the door is locked again. Stray scores of the registration page, a late answer, a
person on record who is replaced and a handler that throws end a quiet session: the three
properties that need one say nothing of those, `NotStuck`, `TwoMeansUnlocked` and `OperationEnds` do.

| Property | Holds in | Says |
|---|---|---|
| `NotStuck` | every execution; where a patrol may open, while a warden is on record | a counted person always has something that will move the operation on |
| `TwoMeansUnlocked` | every execution | the operation stands at TwoUnlock only after a score has unlocked the door and before a LockUpEvent has reported it locked |
| `GrantedOnce` (action) | quiet sessions | the lock is granted once |
| `OpeningRecorded` (action) | quiet sessions | the opening is posted under the two different people compared |
| `QuietCopyKept` (action) | quiet sessions | the offline copy is the record that failed |
| `OperationEnds` (liveness) | as `NotStuck` | while the main page stays, a counted person is counted no more or unlocks the door; what comes after that is the door's part (`GrantEnds` in AccessControl) |
| `OfflineDataSaved` | **violated** | when the page says that the offline data was saved, it saved the record that failed; see section 5 |

The exception in `NotStuck` and `OperationEnds`: where a patrol may be the second
person, `onUser` disposes the timer first (`HebeiMainActivity:415`) and can then fail
because nobody is on record (an opening's answer of the session before has emptied
it), or refuse the same person again; the count then stays at one until the door or
the page changes.

### AccessControl

The composition: `D == INSTANCE DoorLock`, `S == INSTANCE Session`. An event posted on the
main thread is one joint step of both sides, a queued one is a joint step at its delivery
(`LockUpEvent`). `PassEvent` is `S!Score /\ D!onGetPassEvent`. `OpenDoorEvent` is one of the two tests of
`Door.doNext`, `D!IsLockup` for an illegal opening or `D!IsUnlock` for a legal one, with
`S!onGetOpenDoorEvent` when the test succeeds: `Door.java:46-50` posts the event in both cases, and
`BaseActivity.java:208-215` does not look at its flag. Handlers of the session run only between two handlers of
the door (`main = "idle"`); timer bodies of the door run at any time. A crash restarts both.

`settled` marks a quiet session that began with the door at rest and saw it shut
until the grant; what ends a quiet session ends a settled one.

| Property | Holds in | Says |
|---|---|---|
| `InstrumentInv` | every execution | the types, and `GrantWatched`: once a score has unlocked the door, and unless the door is not shut, a timer or an undelivered event will report it locked; an opening, illegal ones too, disposes or forgets nothing of that |
| `SettledGrantIsClean` (action) | settled sessions | the bridge between the two modules: such a session grants a *clean pass*, the premise of what DoorLock promises |
| `UnlockedByTwo` | settled sessions | the lock is open only while two people are counted |
| `OpeningsRecorded` (action) | settled sessions | a legal opening, and the first one after the grant even if the lock has closed by then, is posted, in the step that announces it, under the names of the two people who were granted |
| `GrantEnds` (liveness) | every execution | after a score has unlocked the door the operation is brought back to Locking, unless the door is kept open |

`UnlockedByTwo` and `OpeningsRecorded` are the two-person rule end to end. `GrantEnds` says of the door what
`OperationEnds` leaves to it; its exception is the door that is held open, for which the
code disposes its timers and has no other way to end the operation.

### Upload

What becomes of a record: the posts of openings and patrols (`post`), the Retrofit calls
of closings and alarms (`GeneralUpdata`), their rows, and `reUpload`. `thread[j]` is the
posting thread of job `j` (a record, sent by the activity's or by the service's
`ServerConnectionUtil`): `Connected`, `ConnectFails`, `ReadLine`, `ReadFails`. The field `in` is
shared by the threads of one `ServerConnectionUtil`: `Connected` overwrites it, and `ReadLine`
reads from whichever stream it names by then. `CheckResponse`, `OpenResponse` and `RowResponse` are
the callbacks on the main thread, `OnNext` and `OnError` the Retrofit observers,
`post_SingleThread` the service's one thread, `DailyTimer` the night. A request may fail before
or after the server received it. `Restart` kills the process, keeps the rows, and
queues them again.

What a record says is left to Session, but for one thing. `HebeiMainActivity:516` and 579-591 do not save the
record that failed: they build a row of `cg_User1` and `cg_User2` as they are when the answer comes. So
`Row` saves a row *in the place of* the record, and may put the record into `mistaken` (the row names other
people); and `RespondThrows` is the callback that finds nobody on record: it says what it says, throws on
`getKeeper()`, saves nothing, and the process dies and restarts. The row of a closing or an alarm is built
of nothing but the time, and carries the time of the failure (`HeBeiService:884`, 918).

| Property | Says |
|---|---|
| `UploadInv` | the types; `NothingForgotten`: every record is received, stored, in memory, wiped out by a death of the process while it was in memory, or replaced by a row built of other people; `SavedIsKept`: if the process outlives the message "saved", the row it speaks of stays stored until the server has accepted *that very* row, whatever the other answers were (that the row is the record is not promised) |
| `RowsDrain` (liveness) | once the network and the server work, every row is delivered and deleted and the table stays empty |

### Roster

Who may open the door: `employers` and `keepers` are the two tables, `features` the engine's
database, `loaded` what it compares with. `syncData` deletes the employers when the
first list arrives, asks for the next list in each answer (`ListArrives`, `LastList`,
`ListFails`), `Cleanup` takes the keepers who are no employers, `getPic` asks for a photo per
person and counts answers (`PicArrives`, `ReadyAfter`), a new photo is registered by the engine in
three steps (`StartRegistration`, which deletes the old feature, `UserAdd` or `UserAddFails`, `InsertKeeper`): if
the new feature cannot be stored (`HuNanFaceImpl3:250`, 258-261) the old one is gone and the old row
stays. `syncFace` is `FacesArrive` and `FacesFail`; it inserts the row of each person and then adds the
feature without looking at the result (`HeBeiService:753`, 763), and a damaged item ends the list (768),
so any part of the list may get a row and any part of that a feature. `loadFacesFromDB` ends the chain. `FaceReg`, `register`,
`registerInserts` and `queryPersion` are the registration page's part: the feature comes first (695) and the row
after it (702), with the main thread in between. `onResume` is a change of page. Both databases survive `CrashAndStart`.
The history `broken` holds the people left without a feature since `userAdd` failed, the process died before it,
or a cleanup came between the two steps of the page.

| Property | Says |
|---|---|
| `RosterInv` | the types; `FacesStay`: a keeper has a feature, but for the moment in which a new one replaces it, unless he is in `broken` |
| `KeepersKept` (action) | the cleanup takes only people who were on none of the lists received |
| `RosterFollows` (liveness) | once the server and the engine work, all employed people with a photo are admitted together some day, and the dismissed are some day admitted no more |

`RosterFollows` has one exception, `Forgotten`, a person in `broken` whose photo is taken as unchanged; TLC found
it: section 5.

### Preview

`UVCPreview`: `application` is the application's thread (`startPreview`, `stopPreview` in their steps,
`setFrameCallback`, which waits), `uvcThread` libuvc's thread (`addPreviewFrame`), `preview` the
preview thread, `capture[t]` the capture thread created by start `t`. A critical
section is one step, except where it waits or where an unlocked signal can fall between a
test and a wait; `previewLock` and `captureLock` are then held across steps. A wait of the
same condition by two threads for two reasons is kept (`captureWait`).

| Property | Says |
|---|---|
| `PipelineInv` | the types; `BuffersOwned`: each buffer is in one place, and a start loses at most one; `FramesInOrder`: frames get newer towards the camera; `NoStaleFrame`: the capture thread that the next stop joins carries nothing of before the last start |
| `StoppedIsQuiet` | after `stopPreview` no thread of the preview or of libuvc works and nothing is queued |
| `CallbackServed` (liveness) | `setFrameCallback` returns, and a callback gets frames, provided starts succeed (`StartsWork`) and not every frame fails to decode (`DecodingWorks`) |

`StopStreaming` assumes that the cable is not pulled meanwhile: `uvc_stop_streaming` then joins libuvc's
thread. Once a lost device has cleared `running`, `uvc_stream_close` leaves the stop out (`stream.c:1862-1867`); that case is in
`UvcStream` and in section 5, and the three properties say nothing of it.

### UvcStream, UvcFrames, FrameFeed

`UvcStream` is the life of a stream: `transfers[t]` goes from `filled` through `flight` and `returned`
to `deleted`; the event thread runs `_uvc_stream_callback`, `TestRunning`, `Resubmit`,
`_uvc_delete_transfer`; `app` starts (`SubmitTransfers`, which may stop half-way), stops (`ClearRunning`,
`CancelTransfers`, the check and the wait), joins the caller and frees. `clean` says that no
transfer failed to go out and the camera was there: the code's promises end with it.

`UvcFrames` is what the transfers carry: packets with a frame ID, an end-of-frame bit,
lost, empty, marked as errors or short; a link has faults of some kinds and loses up to
`burst` packets in a row. `FrameFeed` is the abstract specification: the user's function gets
newer frames each time, or, where frames may be marked broken, the last one again.

| Property | Says |
|---|---|
| `StreamInv` | the types; `FreedAlone`: memory is freed when no transfer, callback or caller is left; `WaitsForTheLiving`: the stop waits only for transfers that will come back; `WokenByTheLast`; `CallerAwake` |
| `StopReturns`, `CallerEnds` (liveness) | a stop returns, a failed start too, while the stream is clean; the caller ends with the stream, also when the cable is pulled |
| `FramesInv` | the types; `FramesUnmixed`: no frame of packets of two, unless a loss swallows a whole frame; `NoBrokenShown`: no data are shown of a frame in which a bad packet was reported, unless `outbuf` still held data of an earlier frame when it was (the history `bad` holds the frames so reported; the exception is real: the swap on the next frame ID clears the mark, `stream.c:875-879`); `WholeFrames`: only whole ones, where every loss is reported |
| `FeedsFrames` (refinement) | the assembly implements `FrameFeed` |

### EventLock

Who handles events. `pc[t]` walks through `libusb_handle_events_timeout_completed`,
`libusb_try_lock_events`, `handle_events`, `libusb_wait_for_event` for the callers of synchronous transfers
and for libuvc's event thread; the closer walks through `libusb_open` and `libusb_close`
(`CountModify`, `WritePipe`, `TakeLock`, `ReadPipe`, `do_close`, `EndModify`) and, for the last device, ends the event
thread. The recursive `events_lock` has an owner and a depth. Writing the control pipe may
fail; timeouts exist and no property needs them.

| Property | Says |
|---|---|
| `EventLockInv` | the types; `SleepersWatched`: nobody sleeps unless somebody has yet to tell him; `CompletedAwake`: whose transfer is complete neither sleeps on nor polls; `ClosedAlone`: nobody polls or reaps while a descriptor is closed |
| `TransferReturns`, `ChangeReturns` (liveness) | without timeouts, and while the pipe works and the callers pause in the end (`PipeWorks`, `TransfersPause`), transfers return and opening and closing are not starved |

### UsbTransfers, TransferCalls

An isochronous transfer is cut into URBs. `Submit`, `SubmitFailed`, `SubmitFailedLater` are the outcomes of
`libusb_submit_transfer`; `pending[t]` counts the URBs of `t` the kernel has, which are always its last ones, since the
kernel completes the URBs of one transfer in their order (those of two transfers in any); `libusb_cancel_transfer` and
`TimeoutCancels` discard them; the event thread
reaps them one by one (`reap_for_handle`, `handle_iso_completion`), answers a vanished device, and
calls back. `TransferCalls` is what libusb promises: one call for each successful
submission, with a status that fits what was asked.

| Property | Says |
|---|---|
| `UrbsInv` | the types; `UrbsAlive`: the kernel hands back no URB whose memory is freed; `FlyingHaveUrbs`: only what is on its way to its callback flies without URBs |
| `CallsOnce` (refinement) | the whole implements `TransferCalls`, its liveness included |

## 3. Runs and bounds

| Run | Instance | Shows |
|---|---|---|
| `doorlock` | two 120 s timers, a 10 s timer, a siren timer, a LockUpEvent, other frames | all of DoorLock |
| `session` | 2 wardens, a patrol who may open, an inspector, 2 patrol timers, a post, a comparison, a photo request | all of Session |
| `session_offline` | 2 wardens, a patrol timer, a post, a comparison | `OfflineDataSaved` violated |
| `access_safety` | a warden, a patrol who may open, a timer of each kind, a post, a comparison; legal and illegal openings, crashes | the two-person rule on the whole |
| `access_liveness` | a patrol who only checks, stray scores of the registration page, illegal openings, crashes | `GrantEnds` |
| `upload` | an opening and a patrol, or a call; two rows waiting, one crash | all of Upload |
| `roster` | a person of type 3 without a photo on the server, one of type 1 with photos of two lengths and a shared feature; two events out of changes on the server, visits and crashes; any number of failures | all of Roster |
| `preview` | a queue and a pool of one, two starts, two frames, one callback; starts and decoding may fail | all of Preview |
| `stream` | 4 transfers, unplugging, starts that fail | all of UvcStream |
| `frames` | five frames of three packets over four links | UvcFrames implements FrameFeed |
| `event_lock` | a caller, the event thread, a closer with two changes before the last close | all of EventLock |
| `usb_transfers` | two transfers of two URBs, unplugging | UsbTransfers implements TransferCalls |

Why the bounds are enough for the interesting cases. A *newer* timer that displaces an *older* one
is in `doorlock` (two 120 s timers; one 10 s timer, one siren timer, one LockUpEvent) and in `session` (two patrol
timers). Every run of the session has one post and one comparison at a time; more of
them, and pairs of the other timers, are left to the proofs, which hold for any number. Two
wardens, a person of another type and one of none show each way of replacing a person
on record. `upload` needs two posts at once for the shared field, which a call does not use (`Together` says
which records an execution may have). `roster` needs two people
for a list that comes back partly and for the counters of `getPic`; two events for a dismissal and a return, or for a photo that changes and
changes back around a `userAdd` that fails (failures are not counted); two photos of different length, the one thing the code
compares. Four transfers stand for the code's ten: one in each stage (in flight,
in its callback, not yet submitted, deleted). Two URBs are the first and the last of a
transfer, two transfers let the end of one fall between the URBs of the other. One caller and the event thread
are two handlers that compete, with the closer three threads at the lock. Three packets
are a first, a middle and a last one; one link loses more packets in a row than a frame has. In the run of the
preview one capture thread is alive at a time (`MaxAlive`), since liveness over two is out of reach; the safety properties are
proved for any number.

The bounds act in guards: a pass waits for a free timer slot, an opening for a free
siren-timer slot and (in AccessControl) a free post, a timer body for room in the queue of
LockUpEvents; the camera's frame numbers stop at `MaxSeq` (and the last may repeat), the
starts at `MaxStarts`. The proofs use no bound but their being natural numbers.
`access_liveness` has no wardens, because liveness on the full composition is out of reach. What
`GrantEnds` depends on is the door's cycle after a score, and the registration page's scores begin it at any
point of the last cycle; a patrol's checks, illegal openings and crashes interfere with it. The
safety part, `GrantWatched`, is checked with people in `access_safety` and proved for any.

What the looper's queue holds is delivered in any order, which is more than Android
does: what holds there holds of the FIFO queue. No run uses symmetry.

Deadlock is not checked in the runs whose environment may have nothing more to do when
its bounds are used up (`preview`, `stream`, `frames`, `event_lock`, `usb_transfers`, `upload`, `roster`).

## 4. Fairness

`DoorLock`: a handler that has begun goes on (`WF`, the main thread is never blocked);
deliveries and timer bodies are strongly fair, because the looper's queue is FIFO
and RxJava's computation threads run every expired timer: whatever of this is enabled
again and again is eventually done, unless it is disposed, which disables it.
Nothing is assumed of frames, passes or people. `Session`: a patrol timer that has run out is handled unless
it is disposed (`SF`), a post
ends within its timeouts (`ServerConnectionUtil.TIME_OUT`, 20 s to connect and 20 s to read)
with an answer or null (`WF`), and the engine works its queue off (`WF`). Nothing is assumed of the door: whether a
`LockUpEvent` comes, and when, is open, since none comes while the door is held open. `AccessControl`: its handlers go on (`WF`),
the timer bodies of the door run and LockUpEvents are delivered (`SF`, as in `DoorLock`); nothing of people,
frames, pages, the engine or the server.

`Upload`: every request ends within its timeouts (`WF` of `Send` for each post and of `SingleThread`), the main thread runs
posted callbacks, in whatever order (`WF` of `MainThread`), the daily timer fires. That the network becomes reliable is a step that
may happen, never one that must: `RowsDrain` begins after it. `Roster`: the same, for the server and for the engine's database, with strong fairness
of `syncData`, which waits each night for an instrument that is quiet.

`Preview`: the preview and capture threads and the application's returns are strongly fair,
because a mutex may be taken away again and again; frames keep arriving while the stream
runs; `onFrame` returns. `UvcStream`: threads run, the user's function returns, and libusb
gives every transfer back (`SF` of `Returned`), which `UsbTransfers` shows (`CallsOnce`). `EventLock`: threads run;
whoever asks for `event_waiters_lock` again and again gets it; the kernel completes every
URB; timeouts are not fair. `UsbTransfers`: the event thread is strongly fair (its steps wait
for `flying_transfers_lock`), the thread that times transfers out goes on, and for each transfer the kernel completes what it has of it.

## 5. Where the program does not do what it says

`OfflineDataSaved` (run `session_offline`). When the post of an opening ends without an answer, `OpenDoor`
shows "开门记录无法上传,请检查网络,离线数据已保存" (the offline data was saved, `HebeiMainActivity:577`) and builds the row it saves from the people
on record *at that time* (579-591), not from the two the record was posted with. In the run wardens A and B
have been recognised and their comparison still waits; the door is opened all the same, illegally, and
its event, handled like that of a legal opening, posts the opening as A's and B's and counts nobody any more. B is
recognised again and replaces A as the first person. Then the post ends with null: the page says "saved", the
row names B twice, and the record that was posted is stored nowhere. The same callback follows legal openings, and if
`onGetLockUpEvent` has emptied the people on record by then, `getKeeper()` throws after the message and nothing is saved at
all. A failing post may take 40 s.

What else a maintainer should know of. All of it was met while modelling; where a
property above has a premise or an exception, this is what it excludes.

Doors and sessions:

* An illegal opening posts an `OpenDoorEvent` too (`Door:46-47`), and `BaseActivity:208-215` does not look at its flag: the
  people on record, who were refused or not yet compared, are posted as the ones who opened the door, and a
  count that had begun starts over.
* `onGetLockUpEvent` (`BaseActivity:220`) shows "仓库已重新上锁" (the store is locked again) for
  an event queued by a timer thread; a score handled in between has unlocked the lock.
* A second `true` answer to two overlapping patrol posts dereferences null
  (`HebeiMainActivity:503`); a patrol's offline row names whoever is on record when
  the answer comes (516).
* The siren timer of an earlier opening silences a later alarm early (`Lock:73`).
* A patrol recognised after nobody is on record leaves the count at one without a timer (415).
* `SwitchImpl4:201` reads the temperature frame at an index that is off.

Records:

* The threads of one `ServerConnectionUtil` share the field `in` (192): the answer "true" of one post
  may be read as another's, so a refused patrol may count as made (`HebeiMainActivity:503`).
* Rows are built of the people on record when the answer comes, see above; with nobody on record the process
  dies, after the message "saved" or, for a patrol's answer "true" (503), before any.
* Any non-null answer to an opening's post counts as uploaded (573), where `checkRecord`
  and `reUpload` ask for "true".

Roster:

* `Keeper` has a generated id, so each registration inserts a new row, while
  readers take the oldest: a photo of a new length is registered again every night, and the
  table grows.
* `Forgotten`: `userAdd` fails (`HuNanFaceImpl3:250`), or the process dies, after `userDelete` (244). The feature is gone
  and the old row with its photo length stays; if the server's photo has that length again, it is taken as
  unchanged (`HeBeiService:661`) and the person is not registered again.
* `syncFace` inserts the row before `userAdd` and ignores its result (753, 763): such a person is a keeper without a
  feature, and since his row has no photo length, `getPic` throws on it and never registers him.
* The cleanup may come between the feature and the row of a registration on the page (695, 702): the new row is
  then that of a keeper without a feature.
* Between the first and the last list the table of employers is empty or partial, so
  people are refused; a failure on the way leaves it so until the next night.
* `syncFace` stores card numbers as they come (749), everything else in capitals; a keeper
  without a photo has a null `headphoto`, which `getPic` dereferences; a person who moves between lists
  while they are fetched may be on none.

Preview:

* `setFrameCallback` waits for the capture thread on a condition that is broadcast for other
  reasons (`UVCPreview.cpp:218`), and does not return after a failed start with a stale
  `mIsCapturing`, or while no frame can be decoded (212).
* The capture thread may be created after the join of `stopPreview` (361), and its unlocked signal
  may be missed, so that the stop hangs (359). A thread created after that join is joined by nobody; if the next start comes
before it has looked at `mIsRunning` (780) it serves on beside its successor, and a frame it holds may reach the callback two
starts later. The proof of `NoStaleFrame` came upon this, where the runs, with one thread alive at a time, had not: the property
now says which thread it speaks of. A buffer is leaked per stop (701-712).

Streams and transfers:

* When the cable is pulled, a callback clears `running` and the stop is left out: `uvc_stream_close`
  frees buffers in use (`stream.c:1776`, 978, 1862). A resubmission that fails is ignored, and the stop
  then waits for ever (1003, 985). The caller may show a frame twice (1655).
* With two bad packets in a row over a frame boundary the second is reported for the new frame while `outbuf` still holds
  the old one; the swap on the change of the frame ID then clears the mark (875-879) and the new frame, without that packet, is
  shown. `NoBrokenShown` excludes this.
* The event thread may miss the wake of the last `libusb_close` (`device.c:1571-1576`) until its 60 s timeout. A
  failed write of the control pipe takes `pollfd_modify` back without a broadcast and closes the device
  without the lock (`core.c`).

## 6. Proofs

`DoorLock_proofs` proves, for any sets of timers and any bounds, that every safety
property of `DoorLock` holds of its specification. The properties are not inductive:
for instance nothing in `RelockShut` says why the 10 s body cannot lock under an open door.
`IInv` (at the end of `DoorLock`) is the strengthening. Its conjuncts are how far the report
of the current opening has come at each place of `main` (`Reports`), what the
contact reads in each (`Contact`), and, in a clean pass, the shape of the whole state
(`CleanShape`): no timer is active, or exactly one 120 s timer is and it is the one in
`unlock_noOpen`, or exactly one 10 s timer is and it is the one in `rx_delay`, each with the lock, door and
contact values possible at that place. `CleanReports` carries the reports through it. There is
one step per action, and under it one per conjunct the action can disturb.

`Session_proofs` does the same for `Session` and any people, timers, posts and bounds. `NotStuck` and
`TwoMeansUnlocked` are inductive together with the types (`WatchStep`). The action properties
need `QuietShape`: a quiet session passes through four phases, `Alone` (one warden, a timer),
`Compared` (the pair, one comparison in the queue), `Granted` (the score came) and `Opened` (the record
posted), and in each phase every variable that a later phase reads is determined, in
particular `user1` and `user2` are still the pair that was compared. `GrantedOnce`, `OpeningRecorded` and
`QuietCopyKept` then follow from one step.

`UvcFrames_proofs` proves, for any links, any number of packets per frame and any number of frames,
that `FramesInv` holds and that the assembly implements `FrameFeed`. None of the parts of `FramesInv` is
inductive: they speak of finished frames, and nothing in them says what is being put together. `IInv` (at the
end of `UvcFrames`) adds it. `Assembling`: the packets in `outbuf` are of the camera's frame, or of the one
before, and then the camera has come no further into its frame than packets were lost in a
row; since neighbouring frames differ in their ID (`Parity`), `outbuf` holds one frame (`OneFrame`) as long as a loss
cannot swallow a whole one. `Complete`: where every loss is reported, what is not marked is
gapless. `BadMarked`: a frame in `bad` keeps its mark while the camera sends it and while its data are in `outbuf`; `CopiesGood`:
an unmarked copy in `holdbuf`, and what the caller has, is of frames that are over and not in `bad`. `NoBrokenShown` follows. `Ordered`: on a link that marks nothing, the copy is the frame noticed last and newer than what was
shown, which is what `CallUser` needs to be a step of `FrameFeed`; on a link that marks frames the copy may be an
old one, which is why `FrameFeed` lets the last frame come again there.

`Camera_proofs` proves `StreamInv` for any number of transfers. `WokenByTheLast` and `CallerAwake` are inductive with the
types and with what the event thread holds (`EventShape`: a transfer given back and not yet deleted). The two parts
about memory and waiting are not: `CleanShape` says for each place of the application's thread what a clean stream is
like there (it runs from the start to the stop; a transfer given back is in the event thread's hands; after the
wait every transfer is gone; before the start and after the join nobody uses anything). Opening makes any stream
clean, so `StartShape` holds of all of them.

It also proves `PipelineInv` and `StoppedIsQuiet` of `Preview`, for queues and pools of any length, any number of starts and
of capture threads alive. `PreviewIInv` adds: `Holders`, in which steps a thread has a frame; `StartsAndStops`, how the calls
of the application and the threads follow each other (whoever waits for a condition is at its wait, a stream needs
the preview thread, and `mIsRunning` is off from the stop to its end); `CaptureThreads`, that a start creates its
thread once and that the thread a stop has joined, or that came after the join, holds no frame while the preview is off;
`BuffersCounted`, the count of the buffers with what the present start may still lose (`MayLose`: after the loop has seen
`mIsRunning` off no frame is dropped any more, which is why a start loses one buffer and not several); and
`FramesOfThisStart`, the age of everything under way. The order of the frames is shown of seven kinds of movement
(`Moves`: drop, arrive, queue, draw, hand on, take, restart), of which every step of the module is one.

`Roster_proofs` proves `RosterInv` and `KeepersKept` for any people, photos and answers of the server. Neither
is inductive. `Listing` says what the lists of a synchronisation have left: nothing is registered while one is awaited,
the first empties the table before anybody is on it, and who was on a list stays employed until the cleanup
(`queryPersion` and the registration page only add people meanwhile). `Registering` says that between `userAdd`
and the row the feature is there, or, on the page, the person is in `broken`: only the cleanup and another registration delete users,
and the cleanup may come between the two steps of the page. The
counters of `getPic` rest on `OneAnswered`: an answer moves one person from those awaited to those counted.

`Libusb_proofs` proves `EventLockInv` for any sets of threads and transfers. `IInv` says in which places a thread holds
`events_lock` and how often (`Holders`, with `CloserHolds` for the thread that opens or closes, which comes to its second
acquisition without the first when the control pipe could not be written); that `event_handler_active` is set only while
somebody has the lock and is not about to release it (`ActiveHolder`); that `pollfd_modify` and the byte in the control pipe
say where the closer is (`CloserFlags`); and that who decides whether to sleep holds `event_waiters_lock`, and if its
transfer completes meanwhile a handler has yet to tell of it (`Deciding`). So no wakeup is lost.

And it proves `UrbsInv` of `UsbTransfers`, for any number of transfers and URBs, and that `UsbTransfers` implements the safety of
`TransferCalls`. `UsbIInv` says that the URBs of a transfer come back in their order (`UrbsInOrder`: what is to be reaped and
what the kernel has are consecutive, so discarding and reaping leave a suffix), that their number is that of the URBs not
yet seen (`UrbsCounted`), and that the transfer in the event thread's hands has the status its end gave it
(`EventTransfer`, `StatusesFit`: a cancelled transfer was asked or has lost its device, a timed-out one has expired). Each step of
`UsbTransfers` is then a submission, a request, an expiry, a call or a return of `TransferCalls`, or changes nothing there.

`AccessControl_proofs` proves the four safety properties of the composition. Theorems of `DoorLock_proofs` and
`Session_proofs` speak of those modules' own steps, while here a step of one side stands beside changes of the
other; so `IInv` contains what is needed of either side's invariant (`DoorSide`, `SessionSide`) and proves it
again of the composed steps. What joins the two: `PassGranted` (a pass is one of this session, and a process that is
down counts nobody), `Relocking` (a lock that has closed after a grant has its `LockUpEvent` to come), `Watched` (`GrantWatched`, through
every place of the service but that of the pass itself) and `SettledShape` (before the grant of
a settled session the door is at rest, and after it the lock can only be open before the first opening has been announced, or with
Door open). The
proof showed the earlier definition of a settled session to be too wide: with stray frames allowed (`OtherFrames`) the
contact could report the door open between the first check and the grant; TLC confirmed it, and `Settle` now ends
the settled session there.

`Upload_proofs` proves `UploadInv` for any records, rows, crashes and failures. `NothingForgotten` and `SavedIsKept` need to know why a
row may be deleted. `OneAttempt`: while the first attempt of a record is a call, a thread or an unhandled
response it is exactly one of them and there is no row yet, so the table never holds a record twice and the one
`delete` removes it all. `Answered`: a response other than null means the server has the
record, though perhaps not that it accepted it: threads of the activity read each other's streams. `OwnStream`:
the service's single thread cannot, its field reads its own stream, so "true" to a row is the server's word about that row.

Assumptions: the named ASSUMEs of the modules only (kinds of people disjoint, `None` none of
them, bounds natural numbers, switches Boolean, timer sets finite). TLC evaluates them in every run.

Only model-checked: liveness, since the provers reason neither about fairness nor about ENABLED.
`CallsOnce` is a refinement with a liveness part: its safety is proved, that every submitted transfer is called
is left to the run. `OfflineDataSaved` is violated, so there is nothing to prove. TLC checked every inductive
invariant (`IInv`, `UsbIInv`, `PreviewIInv`) as an invariant before it was proved.

## 7. Not modelled

Wording, lamps, sounds and pictures; the infrared variant (`isHongWai()`, a setting that is off
by default), where a person locks the door; `unknownPeople`; HTTP itself and the encryption of its
parameters; what a record or a face row contains beyond what a property reads; the
probes of the network, temperature and humidity; `action` and `identityStatus` of the face engine (Session
lets the camera recognise anybody at any time instead); the Baidu face library, the card and
fingerprint drivers under `cn/cbdi/drv`, generated DAOs; the other provinces' near-copies.

Of the native camera: the capture surface (nobody in the instrument calls `startCapture`), bulk
transfers and bulk streams, polling with `uvc_stream_get_frame`, negotiation of formats, descriptors,
camera controls, JNI glue, pixel conversion. `libusb_close` with transfers still in flight.

Most of the C in the repository is not the program's own: libjpeg-turbo, libusb's backends for
Windows, Windows CE, macOS and the BSDs, the unmodified originals of files that the
authors changed (`*_original.c`), tests and examples of these libraries. They hold most of the
repository's lines and are left out whole, so the modules cover a small share of the
tree: the parts with a protocol of their own.

## 8. Plan

Done: `DoorLock`, `Session`, `AccessControl`, `Upload`, `Roster`, `UvcStream`, `Preview`, `UvcFrames` with `FrameFeed`,
`EventLock` and `UsbTransfers` with `TransferCalls`, each with the proofs of its safety properties. Left, in this order:

1. `FaceEngine`: `action` and `identityStatus` written by the main thread, the engine's thread and
   timers; pause and resume; when `onUser` can come. Refines what `Session` assumes of the camera.
2. `SwitchReader`: the serial reader that shares `testStr` with the main thread; which frames
   `onSwitchingText` can see, compared with the frames the board sent (refinement of a lossy channel).
3. `Registration`: `HeBeiRegActivity` with `FaceReg` and its 20 s timer.
4. An abstract two-person specification (`TwoPersonRule`: granted by two, opened once, recorded by name)
   which settled sessions of `AccessControl` implement; the infrared variant.
