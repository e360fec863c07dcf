---------------------------- MODULE UsbTransfers ----------------------------
(***************************************************************************)
(* Isochronous transfers in libusb on Android (libusb/io.c and             *)
(* os/android_usbfs.c): a transfer is cut into URBs that are submitted     *)
(* together and reaped one by one; it can be cancelled, time out, fail in  *)
(* the middle of its submission or lose its device.                        *)
(*                                                                         *)
(* Three threads: the user, who submits and cancels; the thread that       *)
(* handles events and runs the callbacks, which may submit again; a thread *)
(* that returns late from waiting for events and handles timeouts.  What   *)
(* happens under the lock of a transfer is one step; flying_transfers_lock *)
(* is held by the third thread over several.  The kernel is external: it   *)
(* completes the URBs of a transfer in the order of their submission, and  *)
(* hands a discarded one back at once.                                     *)
(***************************************************************************)
EXTENDS Naturals, Sequences, FiniteSets

CONSTANTS
  Transfers,
  NumUrbs,     \* the URBs of a transfer
  CanUnplug,   \* the cable may be pulled out
  NULL

ASSUME TransfersAssumption ==
  /\ NULL \notin Transfers
  /\ NumUrbs \in Nat \ {0}
  /\ CanUnplug \in BOOLEAN

VARIABLES
  flying_transfers,
  urbs,          \* the transfers whose URBs are allocated
  num_retired, reap_action,
  TIMED_OUT,     \* the transfers with the flag USBI_TRANSFER_TIMED_OUT
  pending,       \* pending[t]: how many URBs of t, the last ones, are in the kernel
  reapable,      \* the URBs it has completed
  event,         \* what the event thread does, for which transfer
  expiring,      \* the transfer being timed out, under flying_transfers_lock
  plugged, polled,  \* the device; whether its descriptor is polled
  asked, accepted, expired   \* history, see TransferCalls

tpriv == <<urbs, num_retired, reap_action>>
kernel == <<pending, reapable>>
device == <<plugged, polled>>
history == <<asked, accepted, expired>>
usbVars == <<flying_transfers, tpriv, TIMED_OUT, kernel, event, expiring, device, history>>

Indices == 1..NumUrbs
Urbs == [transfer : Transfers, index : Indices, status : {"ok", "error", "shutdown"}]
Actions == {"NORMAL", "CANCELLED", "SUBMIT_FAILED"}
Statuses == {"completed", "error", "no_device", "cancelled", "timed_out"}

Polling == [step |-> "poll"]

UsbTypeOK ==
  /\ flying_transfers \subseteq Transfers
  /\ urbs \subseteq Transfers
  /\ num_retired \in [Transfers -> 0..NumUrbs]
  /\ reap_action \in [Transfers -> Actions]
  /\ TIMED_OUT \subseteq Transfers
  /\ pending \in [Transfers -> 0..NumUrbs]
  /\ reapable \in Seq(Urbs)
  /\ \/ event = Polling
     \/ event \in [step : {"reaped"}, urb : Urbs]
     \/ event \in [step : {"cancelled"}, transfer : Transfers]
     \/ event \in [step : {"complete", "call", "called"}, transfer : Transfers, status : Statuses]
  /\ expiring \in Transfers \cup {NULL}
  /\ plugged \in BOOLEAN /\ polled \in BOOLEAN
  /\ asked \subseteq Transfers /\ accepted \subseteq asked /\ expired \subseteq Transfers

UsbInit ==
  /\ flying_transfers = {} /\ urbs = {}
  /\ num_retired = [t \in Transfers |-> 0]
  /\ reap_action = [t \in Transfers |-> "NORMAL"]
  /\ TIMED_OUT = {}
  /\ pending = [t \in Transfers |-> 0] /\ reapable = <<>>
  /\ event = Polling
  /\ expiring = NULL
  /\ plugged = TRUE /\ polled = TRUE
  /\ asked = {} /\ accepted = {} /\ expired = {}

\* A transfer is owed a call until the callback has run.
Submitted ==
  flying_transfers \cup
  (IF event.step \in {"complete", "call"} THEN {event.transfer} ELSE {})

-----------------------------------------------------------------------------
(* The kernel.                                                             *)

Urb(t, i) == [transfer |-> t, index |-> i, status |-> "ok"]
LastInKernel(t) == pending[t] > 0

\* Only the last URB's status is ever looked at.
StatusesOf(i) ==
  IF i < NumUrbs THEN {"ok"} ELSE IF plugged THEN {"ok", "error"} ELSE {"shutdown"}

KernelCompletesUrb(t) ==
  /\ pending[t] > 0
  /\ LET i == NumUrbs - pending[t] + 1
     IN \E s \in StatusesOf(i) : reapable' = Append(reapable, [Urb(t, i) EXCEPT !.status = s])
  /\ pending' = [pending EXCEPT ![t] = @ - 1]
  /\ UNCHANGED <<flying_transfers, tpriv, TIMED_OUT, event, expiring, device, history>>

\* URBs n to 1 of a transfer, or n to n - k + 1: discard_urbs goes from the last URB down.
Discarded(t, n, k) == [j \in 1..k |-> Urb(t, n + 1 - j)]

Unplug ==
  /\ CanUnplug /\ plugged
  /\ plugged' = FALSE
  /\ UNCHANGED <<flying_transfers, tpriv, TIMED_OUT, kernel, event, expiring, polled, history>>

-----------------------------------------------------------------------------
(* Submitting: libusb_submit_transfer and submit_iso_transfer, by the user *)
(* or by the callback.                                                     *)

\* Mutants: the flags of the last time are kept; the URBs that were not submitted
\* are not counted.
Submit_KeepFlags(t) ==
  /\ urbs' = urbs \cup {t} /\ flying_transfers' = flying_transfers \cup {t}
  /\ num_retired' = [num_retired EXCEPT ![t] = 0]
  /\ reap_action' = [reap_action EXCEPT ![t] = "NORMAL"]
  /\ pending' = [pending EXCEPT ![t] = NumUrbs]
  /\ plugged
  /\ UNCHANGED <<reapable, TIMED_OUT>>
SubmitFailedLater_NotRetired(t) ==
  \E n \in 1..NumUrbs - 1 :
    /\ plugged
    /\ flying_transfers' = flying_transfers \cup {t} /\ urbs' = urbs \cup {t}
    /\ num_retired' = [num_retired EXCEPT ![t] = 0]
    /\ reap_action' = [reap_action EXCEPT ![t] = "SUBMIT_FAILED"]
    /\ TIMED_OUT' = TIMED_OUT \ {t}
    /\ reapable' = reapable \o Discarded(t, n, n)
    /\ UNCHANGED pending

\* All URBs go out.
Submit(t) ==
  /\ plugged
  /\ flying_transfers' = flying_transfers \cup {t} /\ urbs' = urbs \cup {t}
  /\ num_retired' = [num_retired EXCEPT ![t] = 0]
  /\ reap_action' = [reap_action EXCEPT ![t] = "NORMAL"]
  /\ TIMED_OUT' = TIMED_OUT \ {t}
  /\ pending' = [pending EXCEPT ![t] = NumUrbs]
  /\ UNCHANGED reapable

\* A later one fails: the earlier ones are discarded, the others count as retired,
\* and success is reported.  Some of the earlier ones may have completed already.
SubmitFailedLater(t) ==
  \E n \in 1..NumUrbs - 1 :
    /\ plugged
    /\ flying_transfers' = flying_transfers \cup {t} /\ urbs' = urbs \cup {t}
    /\ num_retired' = [num_retired EXCEPT ![t] = NumUrbs - n]
    /\ reap_action' = [reap_action EXCEPT ![t] = "SUBMIT_FAILED"]
    /\ TIMED_OUT' = TIMED_OUT \ {t}
    /\ reapable' = reapable \o Discarded(t, n, n)
    /\ UNCHANGED pending

\* The first one fails: the transfer is taken off the list again.
SubmitFailed(t) ==
  /\ num_retired' = [num_retired EXCEPT ![t] = 0]
  /\ reap_action' = [reap_action EXCEPT ![t] = "NORMAL"]
  /\ TIMED_OUT' = TIMED_OUT \ {t}
  /\ UNCHANGED <<flying_transfers, urbs, kernel>>

libusb_submit_transfer(t) ==
  /\ t \notin Submitted
  /\ expiring = NULL
  /\ Submit(t) \/ SubmitFailedLater(t) \/ SubmitFailed(t)
  /\ UNCHANGED <<expiring, device, history>>

UserSubmits(t) == libusb_submit_transfer(t) /\ UNCHANGED event

-----------------------------------------------------------------------------
(* Cancelling: libusb_cancel_transfer and op_cancel_transfer.              *)

\* discard_urbs: those that are not found in the kernel are waiting to be reaped.
DiscardAll(t) ==
  IF t \in urbs
  THEN /\ reapable' = reapable \o Discarded(t, NumUrbs, pending[t])
       /\ pending' = [pending EXCEPT ![t] = 0]
  ELSE UNCHANGED kernel

op_cancel_transfer(t) ==
  /\ reap_action' = [reap_action EXCEPT ![t] = "CANCELLED"]
  /\ DiscardAll(t)

\* It is granted when the last URB was still in the kernel.  The flags are set under
\* the lock of the transfer, which handle_timeout does not take: TIMED_OUT may be lost.
libusb_cancel_transfer(t) ==
  /\ t \in Submitted
  /\ op_cancel_transfer(t)
  /\ TIMED_OUT' \in {TIMED_OUT} \cup (IF expiring = t THEN {TIMED_OUT \ {t}} ELSE {})
  /\ asked' = asked \cup {t}
  /\ accepted' = IF t \in urbs /\ plugged /\ LastInKernel(t)
                 THEN accepted \cup {t} ELSE accepted
  /\ UNCHANGED <<flying_transfers, urbs, num_retired, event, expiring, device, expired>>

\* handle_timeouts: under flying_transfers_lock the flag is set, without the lock of
\* the transfer, and the transfer is cancelled.
handle_timeout(t) ==
  /\ expiring = NULL
  /\ t \in flying_transfers \ TIMED_OUT
  /\ expiring' = t
  /\ TIMED_OUT' = TIMED_OUT \cup {t}
  /\ expired' = expired \cup {t}
  /\ UNCHANGED <<flying_transfers, tpriv, kernel, event, device, asked, accepted>>

TimeoutCancels ==
  /\ expiring # NULL
  /\ op_cancel_transfer(expiring)
  /\ expiring' = NULL
  /\ UNCHANGED <<flying_transfers, urbs, num_retired, TIMED_OUT, event, device, history>>

-----------------------------------------------------------------------------
(* The event thread.                                                       *)

reap_for_handle ==
  /\ event = Polling /\ polled
  /\ reapable # <<>>
  /\ event' = [step |-> "reaped", urb |-> Head(reapable)]
  /\ reapable' = Tail(reapable)
  /\ UNCHANGED <<flying_transfers, tpriv, TIMED_OUT, pending, expiring, device, history>>

\* Mutant: a cancelled transfer is reported with its first URB.
handle_iso_completion_First ==
  /\ event.step = "reaped"
  /\ LET t == event.urb.transfer
     IN /\ urbs' = urbs \ {t}
        /\ num_retired' = [num_retired EXCEPT ![t] = @ + 1]
        /\ event' = IF reap_action[t] = "CANCELLED"
                    THEN [step |-> "cancelled", transfer |-> t]
                    ELSE [step |-> "complete", transfer |-> t, status |-> "completed"]
  /\ UNCHANGED <<flying_transfers, reap_action, TIMED_OUT, kernel, expiring, device, history>>

\* handle_iso_completion, under the transfer's lock.  Normally the last URB ends the
\* transfer and its status decides; otherwise the URBs are counted.
StatusOf(urb) ==
  CASE urb.status = "ok"       -> "completed"
    [] urb.status = "error"    -> "error"
    [] urb.status = "shutdown" -> "no_device"

handle_iso_completion ==
  /\ event.step = "reaped"
  /\ LET t == event.urb.transfer
         retired == num_retired[t] + 1
         last == IF reap_action[t] = "NORMAL" THEN event.urb.index = NumUrbs
                                              ELSE retired = NumUrbs
     IN /\ num_retired' = [num_retired EXCEPT ![t] = retired]
        /\ urbs' = IF last THEN urbs \ {t} ELSE urbs
        /\ event' = CASE ~last -> Polling
                      [] last /\ reap_action[t] = "CANCELLED" ->
                           [step |-> "cancelled", transfer |-> t]
                      [] last /\ reap_action[t] = "SUBMIT_FAILED" ->
                           [step |-> "complete", transfer |-> t, status |-> "error"]
                      [] last /\ reap_action[t] = "NORMAL" ->
                           [step |-> "complete", transfer |-> t, status |-> StatusOf(event.urb)]
  /\ UNCHANGED <<flying_transfers, reap_action, TIMED_OUT, kernel, expiring, device, history>>

\* usbi_handle_transfer_cancellation reads the flag without a lock.
usbi_handle_transfer_cancellation ==
  /\ event.step = "cancelled"
  /\ event' = [step |-> "complete", transfer |-> event.transfer,
               status |-> IF event.transfer \in TIMED_OUT THEN "timed_out" ELSE "cancelled"]
  /\ UNCHANGED <<flying_transfers, tpriv, TIMED_OUT, kernel, expiring, device, history>>

\* usbi_handle_transfer_completion: off the list, then the callback.
\* Mutant: not off the list.
Unlist_Not ==
  /\ event.step = "complete"
  /\ event' = [event EXCEPT !.step = "call"]
  /\ UNCHANGED <<flying_transfers, tpriv, TIMED_OUT, kernel, expiring, device, history>>

Unlist ==
  /\ event.step = "complete"
  /\ expiring = NULL
  /\ flying_transfers' = flying_transfers \ {event.transfer}
  /\ event' = [event EXCEPT !.step = "call"]
  /\ UNCHANGED <<tpriv, TIMED_OUT, kernel, expiring, device, history>>

callback ==
  /\ event.step = "call"
  /\ event' = [event EXCEPT !.step = "called"]
  /\ LET t == event.transfer
     IN asked' = asked \ {t} /\ accepted' = accepted \ {t} /\ expired' = expired \ {t}
  /\ UNCHANGED <<flying_transfers, tpriv, TIMED_OUT, kernel, expiring, device>>

\* Before it returns it may submit the transfer again.
CallbackReturns ==
  /\ event.step = "called"
  /\ event' = Polling
  /\ \/ libusb_submit_transfer(event.transfer)
     \/ UNCHANGED <<flying_transfers, tpriv, TIMED_OUT, kernel, expiring, device, history>>

\* usbi_handle_disconnect: poll says POLLERR, the descriptor is polled no more, and
\* the flying transfers are ended one after the other.
usbi_handle_disconnect ==
  /\ event = Polling /\ ~plugged
  /\ polled \/ flying_transfers # {}
  /\ polled' = FALSE
  /\ expiring = NULL
  /\ IF flying_transfers = {}
     THEN UNCHANGED <<urbs, event>>
     ELSE \E t \in flying_transfers :
            /\ urbs' = urbs \ {t}
            /\ event' = [step |-> "complete", transfer |-> t, status |-> "no_device"]
  /\ UNCHANGED <<flying_transfers, num_retired, reap_action, TIMED_OUT, kernel, expiring, plugged,
                 history>>

-----------------------------------------------------------------------------
EventThread ==
  \/ reap_for_handle \/ handle_iso_completion \/ usbi_handle_transfer_cancellation
  \/ Unlist \/ callback \/ CallbackReturns \/ usbi_handle_disconnect

UsbNext ==
  \/ \E t \in Transfers : UserSubmits(t) \/ libusb_cancel_transfer(t) \/ handle_timeout(t)
                           \/ KernelCompletesUrb(t)
  \/ TimeoutCancels
  \/ EventThread
  \/ Unplug

UsbSpec == UsbInit /\ [][UsbNext]_usbVars

\* Threads run, and the kernel completes every URB in the end.
UsbFairSpec ==
  /\ UsbSpec
  /\ SF_usbVars(EventThread) /\ WF_usbVars(TimeoutCancels)
  /\ \A t \in Transfers : WF_usbVars(KernelCompletesUrb(t))

-----------------------------------------------------------------------------
(* Properties.                                                             *)

\* The kernel never hands back a URB whose memory has been freed: as long as the
\* descriptor is polled, URBs on their way belong to transfers that still have them.
UrbsAlive ==
  polled =>
    /\ \A t \in Transfers : pending[t] > 0 => t \in urbs
    /\ \A k \in DOMAIN reapable : reapable[k].transfer \in urbs
    /\ event.step = "reaped" => event.urb.transfer \in urbs

\* A transfer whose URBs are gone is on its way to its callback, and one that has
\* them is flying: its owner may submit it as soon as the callback runs.
FlyingHaveUrbs ==
  \A t \in Transfers :
    /\ t \in urbs => t \in flying_transfers
    /\ t \in flying_transfers \ urbs =>
         event.step \in {"cancelled", "complete"} /\ event.transfer = t

\* The memory of the URBs, from their submission to the last of them reaped.
UrbsInv == UsbTypeOK /\ UrbsAlive /\ FlyingHaveUrbs

\* Each successful submission is answered by one call, with a status that fits
\* (usb.h: "LIBUSB_TRANSFER_CANCELLED" only after a cancellation, and so on), and every
\* one is.
Called == IF event.step = "called"
          THEN [transfer |-> event.transfer, status |-> event.status] ELSE NULL
Calls == INSTANCE TransferCalls WITH submitted <- Submitted, called <- Called, None <- NULL
CallsOnce == Calls!LiveSpec

(* The strengthening behind UrbsInv and the safety of CallsOnce.           *)
IndicesOf(t, queue) == {queue[k].index : k \in {j \in DOMAIN queue : queue[j].transfer = t}}
Reaping(t) == event.step = "reaped" /\ event.urb.transfer = t

\* A URB is in one place, and those in the kernel are the last ones; as long as the
\* transfer is NORMAL the others come in order.
UrbsInOrder ==
  polled =>
    /\ \A j, k \in DOMAIN reapable :
         j < k /\ reapable[j].transfer = reapable[k].transfer =>
           /\ reapable[j].index # reapable[k].index
           /\ reap_action[reapable[j].transfer] = "NORMAL" =>
                reapable[j].index < reapable[k].index
    /\ \A k \in DOMAIN reapable :
         reapable[k].index + pending[reapable[k].transfer] <= NumUrbs
    /\ event.step = "reaped" =>
         LET t == event.urb.transfer
         IN /\ event.urb.index + pending[t] <= NumUrbs
            /\ \A i \in IndicesOf(t, reapable) :
                 i # event.urb.index /\ (reap_action[t] = "NORMAL" => event.urb.index < i)

\* Every URB of a transfer is retired or on its way.
UrbsCounted ==
  polled => \A t \in urbs :
    num_retired[t] + pending[t] + Cardinality(IndicesOf(t, reapable))
      + (IF Reaping(t) THEN 1 ELSE 0) = NumUrbs

\* What the event thread does, and to whom.
EventTransfer ==
  /\ plugged => polled
  /\ event.step = "reaped" => polled
  /\ event.step \in {"cancelled", "complete"} => event.transfer \in flying_transfers \ urbs
  /\ event.step = "call" => event.transfer \notin flying_transfers
  /\ expiring # NULL => expiring \in flying_transfers

\* Whoever ended a transfer early is on record.
EndedEarly(t) == t \in asked \/ t \in TIMED_OUT
Ending(t) == event.step \in {"complete", "call"} /\ event.transfer = t

StatusesFit ==
  /\ TIMED_OUT \cap Submitted \subseteq expired
  /\ \A t \in flying_transfers : reap_action[t] = "CANCELLED" => EndedEarly(t)
  /\ expiring # NULL => EndedEarly(expiring)
  /\ event.step = "cancelled" => EndedEarly(event.transfer)
  /\ accepted \subseteq Submitted
  /\ \A t \in accepted : reap_action[t] = "CANCELLED"
  /\ \A t \in Transfers : Ending(t) => Calls!Fits(t, event.status)

\* The inductive invariant.
UsbIInv ==
  UrbsInv /\ UrbsInOrder /\ UrbsCounted /\ EventTransfer /\ StatusesFit
=============================================================================
