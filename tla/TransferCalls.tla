--------------------------- MODULE TransferCalls ---------------------------
(***************************************************************************)
(* What libusb promises whoever submits transfers (libusb/io.c, libusb.h): *)
(* one call of the callback for each successful submission, with a status  *)
(* that fits what was asked.                                               *)
(***************************************************************************)
CONSTANTS Transfers, None

VARIABLES
  submitted,  \* the transfers that are owed a call
  asked,      \* ... whose cancellation was asked for
  accepted,   \* ... and granted: libusb_cancel_transfer returned success
  expired,    \* ... whose timeout has passed
  called      \* the call that is running: a transfer and a status, or None

Init ==
  /\ submitted = {} /\ asked = {} /\ accepted = {} /\ expired = {}
  /\ called = None

Submit(t) ==
  /\ t \notin submitted
  /\ submitted' = submitted \cup {t}
  /\ called' \in {called, None}
  /\ UNCHANGED <<asked, accepted, expired>>

\* A transfer that is granted its cancellation does not complete.
Fits(t, status) ==
  \/ status \in {"completed", "error"} /\ t \notin accepted
  \/ status = "no_device"
  \/ status = "cancelled" /\ t \in asked
  \/ status = "timed_out" /\ t \in expired

Call(t, status) ==
  /\ called = None
  /\ t \in submitted /\ Fits(t, status)
  /\ submitted' = submitted \ {t}
  /\ called' = [transfer |-> t, status |-> status]
  /\ asked' = asked \ {t} /\ accepted' = accepted \ {t} /\ expired' = expired \ {t}

Return == called' = None /\ UNCHANGED <<submitted, asked, accepted, expired>>

Ask(t) ==
  /\ t \in submitted
  /\ asked' = asked \cup {t}
  /\ accepted' \in {accepted, accepted \cup {t}}
  /\ UNCHANGED <<submitted, expired, called>>

Expire(t) ==
  /\ t \in submitted
  /\ expired' = expired \cup {t}
  /\ UNCHANGED <<submitted, asked, accepted, called>>

Statuses == {"completed", "error", "no_device", "cancelled", "timed_out"}

Next ==
  \/ Return
  \/ \E t \in Transfers :
      Submit(t) \/ Ask(t) \/ Expire(t) \/ \E status \in Statuses : Call(t, status)

Spec == Init /\ [][Next]_<<submitted, asked, accepted, expired, called>>

\* ... and every submission is answered.
LiveSpec == Spec /\ \A t \in Transfers : t \in submitted ~> t \notin submitted
=============================================================================
