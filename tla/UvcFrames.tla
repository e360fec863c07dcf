------------------------------ MODULE UvcFrames ------------------------------
(***************************************************************************)
(* How libuvc puts frames together (libuvc/src/stream.c): the event        *)
(* thread appends the data of each isochronous packet to outbuf, decides   *)
(* by the end-of-frame bit and by the frame ID where a frame ends, and     *)
(* swaps outbuf with holdbuf; the caller's thread copies holdbuf and calls *)
(* the user's function.                                                    *)
(*                                                                         *)
(* The camera is external: it sends frames 1, 2, ... of PacketsPerFrame    *)
(* packets, the frame ID toggling, the last packet with the EOF bit.  What *)
(* is appended is not bytes but which packet of which frame they are.      *)
(***************************************************************************)
EXTENDS Naturals, Sequences

CONSTANTS
  PacketsPerFrame,
  Links,       \* the environment: what may become of packets on the cable
  MaxFrames    \* bound: the frames the camera sends

\* A packet the host controller reports as bad, an empty one, one with the error
\* bit, one that is shorter than its header says.
FaultKinds == {"status", "empty", "error", "short"}

\* A link has faults of some kinds and loses at most burst packets in a row.
ASSUME FramesAssumption ==
  /\ PacketsPerFrame \in Nat \ {0}
  /\ \A l \in Links : l.faults \subseteq FaultKinds /\ l.burst \in Nat
  /\ MaxFrames \in Nat

VARIABLES
  link,            \* the link of this execution
  camera,          \* the next packet
  burst,           \* the packets lost in a row up to now
  bad,             \* history: the camera's frames that were reported broken (Report)
  event,           \* what the event thread does with the packet it has
  fid, outbuf, bfh_err, seq,   \* the frame being put together
  hold,            \* the frame that is held: hold_seq, holdbuf, hold_bfh_err
  last_seq, frame, \* the caller: what it noticed last, and its copy
  caller,          \* ... is looking for a frame or about to call
  shown            \* history: the frames user_cb was called with

vars == <<link, camera, burst, bad, event, fid, outbuf, bfh_err, seq, hold, last_seq, frame,
          caller, shown>>

Packets == [frame : 1..MaxFrames, index : 1..PacketsPerFrame]

\* Frames are numbered from 1 in the order in which they are swapped out; num is
\* 0 for memory that was never written.
Held == [num : Nat, data : Seq(Packets), err : BOOLEAN]
Nothing == [num |-> 0, data |-> <<>>, err |-> FALSE]

TypeOK ==
  /\ link \in Links
  /\ camera \in [frame : 1..MaxFrames + 1, index : 1..PacketsPerFrame]
  /\ burst \in 0..link.burst
  /\ bad \subseteq 1..MaxFrames
  /\ event \in {"poll", "data", "short"}
  /\ fid \in {0, 1}
  /\ outbuf \in Seq(Packets)
  /\ bfh_err \in BOOLEAN
  /\ seq \in Nat
  /\ hold \in Held /\ hold.num = seq
  /\ last_seq \in Nat
  /\ frame \in Held
  /\ caller \in {"look", "call"}
  /\ shown \in Seq(Held)

Init ==
  /\ link \in Links
  /\ camera = [frame |-> 1, index |-> 1]
  /\ burst = 0 /\ bad = {} /\ event = "poll"
  /\ fid = 0 /\ outbuf = <<>> /\ bfh_err = FALSE /\ seq = 0
  /\ hold = Nothing
  /\ last_seq = 0 /\ frame = Nothing
  /\ caller = "look"
  /\ shown = <<>>

hold_seq == IF hold.num = 0 THEN 0 ELSE hold.num - 1

-----------------------------------------------------------------------------
(* The event thread: _uvc_process_payload_iso, packet by packet.           *)

NextPacket ==
  IF camera.index < PacketsPerFrame
  THEN [camera EXCEPT !.index = @ + 1]
  ELSE [frame |-> camera.frame + 1, index |-> 1]

Sending == event = "poll" /\ camera.frame <= MaxFrames

\* Mutants: the frame is not counted; the error is not handed over.
_uvc_swap_buffers_NoSeq(data) ==
  /\ hold' = [num |-> seq + 1, data |-> data, err |-> bfh_err]
  /\ outbuf' = <<>>
  /\ bfh_err' = FALSE
  /\ UNCHANGED seq
_uvc_swap_buffers_NoErr(data) ==
  /\ hold' = [num |-> seq + 1, data |-> data, err |-> FALSE]
  /\ seq' = seq + 1
  /\ outbuf' = <<>>
  /\ bfh_err' = FALSE

\* _uvc_swap_buffers: what has been put together is held.
_uvc_swap_buffers(data) ==
  /\ hold' = [num |-> seq + 1, data |-> data, err |-> bfh_err]
  /\ seq' = seq + 1
  /\ outbuf' = <<>>
  /\ bfh_err' = FALSE

\* Mutant: the frame ID is not looked at.
PacketHeader_NoFlip ==
  /\ Sending
  /\ event' \in {"data"} \cup ({"short"} \cap link.faults)
  /\ fid' = camera.frame % 2
  /\ UNCHANGED <<hold, seq, outbuf, bfh_err>>
  /\ burst' = 0
  /\ UNCHANGED <<link, camera, bad, last_seq, frame, caller, shown>>

\* The header of a packet: when the frame ID flips, data of an earlier frame are
\* complete.  A bad packet may be shorter than its header.
PacketHeader ==
  LET id == camera.frame % 2
  IN /\ Sending
     /\ event' \in {"data"} \cup ({"short"} \cap link.faults)
     /\ fid' = id
     /\ IF fid # id /\ outbuf # <<>>
        THEN _uvc_swap_buffers(outbuf)
        ELSE UNCHANGED <<hold, seq, outbuf, bfh_err>>
     /\ burst' = 0
  /\ UNCHANGED <<link, camera, bad, last_seq, frame, caller, shown>>

\* Its data are appended, and the EOF bit publishes the frame.
PacketData ==
  /\ event = "data" /\ event' = "poll"
  /\ camera' = NextPacket
  /\ IF camera.index = PacketsPerFrame
     THEN _uvc_swap_buffers(Append(outbuf, camera))
     ELSE outbuf' = Append(outbuf, camera) /\ UNCHANGED <<hold, seq, bfh_err>>
  /\ UNCHANGED <<link, burst, bad, fid, last_seq, frame, caller, shown>>

\* The camera's frame has a bad packet and the host knows, unless data of an earlier frame
\* still wait for their end: the mark is then theirs, and goes with them.
Report ==
  bad' = IF \A i \in DOMAIN outbuf : outbuf[i].frame = camera.frame
         THEN bad \cup {camera.frame} ELSE bad

PacketShort ==
  /\ event = "short" /\ event' = "poll"
  /\ Report
  /\ camera' = NextPacket
  /\ bfh_err' = TRUE
  /\ UNCHANGED <<link, burst, fid, outbuf, seq, hold, last_seq, frame, caller, shown>>

\* A packet of which nothing is used: a bad status marks the frame, a packet
\* without data or with the error bit is passed over in silence.
PacketLost(fault) ==
  /\ Sending
  /\ burst < link.burst /\ burst' = burst + 1
  /\ camera' = NextPacket
  /\ bfh_err' = (bfh_err \/ fault = "status")
  /\ IF fault = "status" THEN Report ELSE UNCHANGED bad
  /\ UNCHANGED <<link, event, fid, outbuf, seq, hold, last_seq, frame, caller, shown>>

-----------------------------------------------------------------------------
(* The caller's thread: _uvc_user_caller.                                  *)

\* Mutants: it copies broken frames too; it does not remember what it noticed.
NoticeFrame_Any ==
  /\ caller = "look" /\ last_seq # hold_seq
  /\ caller' = "call"
  /\ last_seq' = hold_seq
  /\ frame' = hold
  /\ UNCHANGED <<link, camera, burst, bad, event, fid, outbuf, bfh_err, seq, hold, shown>>
NoticeFrame_Forgets ==
  /\ caller = "look" /\ last_seq # hold_seq
  /\ caller' = "call"
  /\ frame' = IF hold.err THEN frame ELSE hold
  /\ UNCHANGED <<link, camera, burst, bad, event, fid, outbuf, bfh_err, seq, hold, last_seq, shown>>

\* Under cb_mutex it notices a new sequence number and copies a good frame
\* (_uvc_populate_frame).
NoticeFrame ==
  /\ caller = "look" /\ last_seq # hold_seq
  /\ caller' = "call"
  /\ last_seq' = hold_seq
  /\ frame' = IF hold.err THEN frame ELSE hold
  /\ UNCHANGED <<link, camera, burst, bad, event, fid, outbuf, bfh_err, seq, hold, shown>>

\* Without the mutex it reads hold_bfh_err again and calls user_cb.
CallUser ==
  /\ caller = "call"
  /\ caller' = "look"
  /\ shown' = IF hold.err THEN shown ELSE Append(shown, frame)
  /\ UNCHANGED <<link, camera, burst, bad, event, fid, outbuf, bfh_err, seq, hold, last_seq, frame>>

-----------------------------------------------------------------------------
Next ==
  \/ PacketHeader \/ PacketData \/ PacketShort
  \/ \E fault \in link.faults \ {"short"} : PacketLost(fault)
  \/ NoticeFrame \/ CallUser

Spec == Init /\ [][Next]_vars

-----------------------------------------------------------------------------
(* Properties.                                                             *)

\* Where the losses never swallow a whole frame a frame is never put together from
\* packets of two.
OfOneFrame(data) == \A i, j \in DOMAIN data : data[i].frame = data[j].frame
FramesUnmixed ==
  link.burst < PacketsPerFrame =>
    OfOneFrame(outbuf) /\ OfOneFrame(hold.data) /\ OfOneFrame(frame.data)

\* stream.c:826-832, 919-924: no packet of a frame that was reported broken is ever shown:
\* the mark outlives further packets, the swap, the copy and the second look at
\* hold_bfh_err.  (A report that comes while the frame before still waits for its end, its
\* last packet lost as well, is not in bad: the swap on the flip of the frame ID, 875-879,
\* takes the mark away, and the frame is shown.)
NoBrokenShown ==
  \A i \in DOMAIN shown : \A j \in DOMAIN shown[i].data : shown[i].data[j].frame \notin bad

\* Where every loss is reported by the host controller, one packet at a time, the
\* frames that are shown are whole.
WholeFrames ==
  link.faults \subseteq {"status"} /\ link.burst <= 1 =>
    \A i \in DOMAIN shown :
      shown[i].num > 0 => Len(shown[i].data) = PacketsPerFrame /\ OfOneFrame(shown[i].data)

\* What _uvc_process_payload_iso collects and _uvc_user_caller shows.
FramesInv == TypeOK /\ FramesUnmixed /\ NoBrokenShown /\ WholeFrames

\* The user's function gets a newer frame every time, each at most once; where the
\* host controller reports bad packets, it may get the last one again.
Feed == INSTANCE FrameFeed
          WITH published <- seq, shown <- [i \in DOMAIN shown |-> shown[i].num],
               marked <- link.faults \cap {"status", "short"} # {}
FeedsFrames == Feed!Spec

-----------------------------------------------------------------------------
(***************************************************************************)
(* The inductive invariant, in six parts: what outbuf holds and where the *)
(* camera can be meanwhile (Assembling), the same where every loss is      *)
(* reported (Complete), where the data of a frame reported broken can be   *)
(* (BadMarked, CopiesGood), which copies may be shown (Unbroken), and the  *)
(* numbers of the frames on their way to user_cb (Ordered).                *)
(***************************************************************************)
Marked == link.faults \cap {"status", "short"} # {}
Reported == link.faults \subseteq {"status"} /\ link.burst <= 1

\* The event thread has a packet only of a frame that the camera sends.
Taken ==
  /\ event # "poll" => camera.frame <= MaxFrames /\ fid = camera.frame % 2
  /\ event = "short" => "short" \in link.faults

\* outbuf holds packets of the camera's frame, or of the one before as long as
\* only lost packets, or a short one, have come since.
Assembling ==
  \A i \in DOMAIN outbuf :
    /\ outbuf[i].frame % 2 = fid
    /\ \/ outbuf[i].frame = camera.frame
       \/ /\ event = "poll"
          /\ outbuf[i].frame + 1 = camera.frame /\ camera.index <= burst + 1

\* Losses that may swallow a whole frame, and are not all reported.
Mixable == ~(link.burst < PacketsPerFrame \/ Reported)

Whole(data) == Len(data) = PacketsPerFrame /\ OfOneFrame(data)

\* While nothing is marked outbuf holds every packet of the frame so far.
Complete ==
  /\ event # "short"
  /\ ~bfh_err => /\ Len(outbuf) = camera.index - 1
                 /\ \A i \in DOMAIN outbuf : outbuf[i].frame = camera.frame
  /\ \A i \in DOMAIN outbuf :
       outbuf[i].frame # camera.frame => camera.index <= burst
  /\ ~hold.err /\ hold.num > 0 => Whole(hold.data)
  /\ frame.num > 0 => Whole(frame.data)

\* Data of a camera's frame that is over, and was not reported broken.
Good(data) == \A i \in DOMAIN data : data[i].frame < camera.frame /\ data[i].frame \notin bad

\* A frame reported broken is marked while the camera sends it and while it is in outbuf,
\* which holds nothing else when the camera's is.
BadMarked ==
  /\ \A f \in bad : f <= camera.frame
  /\ \A i \in DOMAIN outbuf :
       /\ outbuf[i].frame <= camera.frame /\ outbuf[i].frame % 2 = fid
       /\ outbuf[i].frame \in bad => bfh_err
       /\ camera.frame \in bad => outbuf[i].frame = camera.frame
  /\ camera.frame \in bad => bfh_err

\* What has left outbuf is of earlier frames, and good unless it is marked.
CopiesGood ==
  /\ ~hold.err => Good(hold.data)
  /\ \A i \in DOMAIN hold.data : hold.data[i].frame < camera.frame
  /\ Good(frame.data)
  /\ \A i \in DOMAIN shown : Good(shown[i].data)

Unbroken == ~frame.err /\ (~Marked => ~bfh_err /\ ~hold.err)

ShownLast == IF shown = <<>> THEN 0 ELSE shown[Len(shown)].num

\* Where nothing is marked the copy is the frame noticed last, and new.
Ordered ==
  /\ frame.num <= seq
  /\ ShownLast <= frame.num
  /\ ~Marked => /\ last_seq <= hold_seq /\ frame.num <= last_seq + 1
                /\ caller = "call" => ShownLast < frame.num

IInv ==
  /\ TypeOK /\ Taken /\ Unbroken /\ Ordered
  /\ BadMarked /\ CopiesGood /\ FramesUnmixed /\ WholeFrames
  /\ ~Mixable => Assembling
  /\ Reported => Complete
=============================================================================
