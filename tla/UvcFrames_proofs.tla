--------------------------- MODULE UvcFrames_proofs ---------------------------
(* Machine-checked proofs about UvcFrames: what it shows, for any link and *)
(* any size of frames, and that it implements FrameFeed.                   *)
EXTENDS UvcFrames, TLAPS

LEMMA Parity ==
  ASSUME NEW n \in Nat
  PROVE  n % 2 \in {0, 1} /\ (n + 1) % 2 # n % 2
  OBVIOUS

LEMMA InitInv == Init => IInv
<1> SUFFICES ASSUME Init PROVE IInv
  OBVIOUS
<1>1. TypeOK
  <2>1. Nothing \in Held
    BY DEF Nothing, Held
  <2>2. camera \in [frame : 1..MaxFrames + 1, index : 1..PacketsPerFrame]
    BY FramesAssumption DEF Init
  <2>3. burst \in 0..link.burst
    BY FramesAssumption DEF Init
  <2>4. <<>> \in Seq(Packets) /\ <<>> \in Seq(Held) /\ Nothing.num = 0
    BY DEF Nothing
  <2> QED
    BY <2>1, <2>2, <2>3, <2>4 DEF Init, TypeOK
<1>2. Taken /\ Unbroken /\ Ordered
  BY DEF Init, Taken, Unbroken, Ordered, Nothing, ShownLast, hold_seq
<1>3. BadMarked /\ CopiesGood /\ FramesUnmixed /\ WholeFrames
  BY DEF Init, BadMarked, CopiesGood, Good, FramesUnmixed, WholeFrames, OfOneFrame, Nothing
<1>4. Assembling /\ Complete
  BY DEF Init, Assembling, Complete, Nothing
<1> QED
  BY <1>1, <1>2, <1>3, <1>4 DEF IInv

(* A packet that is taken from the camera is one of its packets.           *)
LEMMA CameraPacket ==
  ASSUME TypeOK, camera.frame <= MaxFrames
  PROVE  /\ camera \in Packets
         /\ NextPacket \in [frame : 1..MaxFrames + 1, index : 1..PacketsPerFrame]
<1>1. camera \in [frame : 1..MaxFrames + 1, index : 1..PacketsPerFrame]
  BY DEF TypeOK
<1>2. camera = [frame |-> camera.frame, index |-> camera.index]
  BY <1>1
<1>3. camera.frame \in 1..MaxFrames /\ camera.index \in 1..PacketsPerFrame
  BY <1>1, FramesAssumption
<1>4. camera \in Packets
  BY <1>2, <1>3 DEF Packets
<1>5. CASE camera.index < PacketsPerFrame
  BY <1>1, <1>3, <1>4, <1>5, FramesAssumption DEF NextPacket
<1>6. CASE camera.index >= PacketsPerFrame
  BY <1>3, <1>4, <1>6, FramesAssumption DEF NextPacket
<1> QED
  BY <1>3, <1>4, <1>5, <1>6, FramesAssumption

LEMMA SwapType ==
  ASSUME TypeOK, NEW data \in Seq(Packets), _uvc_swap_buffers(data)
  PROVE  /\ outbuf' \in Seq(Packets) /\ bfh_err' \in BOOLEAN /\ seq' \in Nat
         /\ hold' \in Held /\ hold'.num = seq'
<1>1. hold' = [num |-> seq + 1, data |-> data, err |-> bfh_err]
  BY DEF _uvc_swap_buffers
<1>2. hold' \in Held /\ hold'.num = seq + 1
  BY <1>1 DEF TypeOK, Held
<1>3. outbuf' = <<>> /\ bfh_err' = FALSE /\ seq' = seq + 1 /\ seq \in Nat
  BY DEF TypeOK, _uvc_swap_buffers
<1>4. bfh_err' \in BOOLEAN
  BY <1>3, Zenon
<1>5. outbuf' \in Seq(Packets)
  BY <1>3
<1> QED
  BY <1>2, <1>3, <1>4, <1>5

LEMMA TypeStep ==
  ASSUME TypeOK, Taken, [Next]_vars
  PROVE  TypeOK' /\ Taken'
<1> USE FramesAssumption
<1>1. CASE PacketHeader
  <2>1. /\ outbuf' \in Seq(Packets) /\ bfh_err' \in BOOLEAN /\ seq' \in Nat
        /\ hold' \in Held /\ hold'.num = seq'
    <3>1. CASE fid # camera.frame % 2 /\ outbuf # <<>>
      BY <1>1, <3>1, SwapType DEF PacketHeader, TypeOK
    <3>2. CASE ~(fid # camera.frame % 2 /\ outbuf # <<>>)
      BY <1>1, <3>2 DEF PacketHeader, TypeOK
    <3> QED
      BY <3>1, <3>2
  <2>2. fid' \in {0, 1}
    BY <1>1, Parity DEF PacketHeader, TypeOK
  <2>3. burst' \in 0..link'.burst /\ event' \in {"poll", "data", "short"}
    BY <1>1 DEF PacketHeader, TypeOK
  <2>4. Taken'
    BY <1>1 DEF PacketHeader, Taken, Sending
  <2> QED
    BY <1>1, <2>1, <2>2, <2>3, <2>4 DEF PacketHeader, TypeOK
<1>2. CASE PacketData
  <2>1. camera \in Packets /\ camera' \in [frame : 1..MaxFrames + 1, index : 1..PacketsPerFrame]
    BY <1>2, CameraPacket DEF PacketData, Taken
  <2>2. Append(outbuf, camera) \in Seq(Packets)
    BY <2>1 DEF TypeOK
  <2>3. /\ outbuf' \in Seq(Packets) /\ bfh_err' \in BOOLEAN /\ seq' \in Nat
        /\ hold' \in Held /\ hold'.num = seq'
    <3>1. CASE camera.index = PacketsPerFrame
      BY <1>2, <2>2, <3>1, SwapType DEF PacketData
    <3>2. CASE camera.index # PacketsPerFrame
      BY <1>2, <2>2, <3>2 DEF PacketData, TypeOK
    <3> QED
      BY <3>1, <3>2
  <2> QED
    BY <1>2, <2>1, <2>3 DEF PacketData, TypeOK, Taken
<1>0. ASSUME camera.frame <= MaxFrames, Report PROVE bad' \subseteq 1..MaxFrames
  <2>1. bad' \subseteq bad \cup {camera.frame}
    BY <1>0 DEF Report
  <2>2. camera.frame \in 1..MaxFrames
    BY <1>0, CameraPacket DEF Packets
  <2> QED
    BY <2>1, <2>2 DEF TypeOK
<1>3. CASE PacketShort
  <2>1. bad' \subseteq 1..MaxFrames
    BY <1>0, <1>3 DEF PacketShort, Taken
  <2> QED
    BY <1>3, <2>1, CameraPacket DEF PacketShort, TypeOK, Taken
<1>4. CASE \E fault \in link.faults \ {"short"} : PacketLost(fault)
  <2> PICK fault \in link.faults \ {"short"} : PacketLost(fault)
    BY <1>4
  <2>1. bfh_err' \in BOOLEAN
    BY Zenon DEF PacketLost, TypeOK
  <2>2. burst' \in 0..link'.burst
    BY DEF PacketLost, TypeOK
  <2>3. bad' \subseteq 1..MaxFrames
    BY <1>0, Zenon DEF PacketLost, Sending, TypeOK
  <2> QED
    BY <2>1, <2>2, <2>3, CameraPacket DEF PacketLost, Sending, TypeOK, Taken
<1>5. CASE NoticeFrame
  BY <1>5 DEF NoticeFrame, TypeOK, Taken, hold_seq, Held
<1>6. CASE CallUser
  BY <1>6 DEF CallUser, TypeOK, Taken
<1>7. CASE UNCHANGED vars
  BY <1>7 DEF vars, TypeOK, Taken
<1> QED
  BY <1>1, <1>2, <1>3, <1>4, <1>5, <1>6, <1>7 DEF Next

-----------------------------------------------------------------------------
(* The numbers of the frames, and the error marks.                         *)

EventStep ==
  PacketHeader \/ PacketData \/ PacketShort
    \/ \E fault \in link.faults \ {"short"} : PacketLost(fault)

(* What a packet does as far as the caller can tell: nothing, or one more  *)
(* frame is held, with its error mark.                                     *)
LEMMA EventEffect ==
  ASSUME TypeOK, Taken, EventStep
  PROVE  /\ UNCHANGED <<link, last_seq, frame, caller, shown>>
         /\ \/ UNCHANGED <<seq, hold>> /\ (bfh_err' = bfh_err \/ Marked)
            \/ /\ seq' = seq + 1 /\ hold'.num = seq + 1
               /\ hold'.err = bfh_err /\ bfh_err' = FALSE
<1>1. CASE PacketHeader
  BY <1>1 DEF PacketHeader, _uvc_swap_buffers
<1>2. CASE PacketData
  BY <1>2 DEF PacketData, _uvc_swap_buffers
<1>3. CASE PacketShort
  BY <1>3 DEF PacketShort, TypeOK, Marked, Taken
<1>4. CASE \E fault \in link.faults \ {"short"} : PacketLost(fault)
  <2> PICK fault \in link.faults \ {"short"} : PacketLost(fault)
    BY <1>4
  <2>1. CASE fault = "status"
    BY <2>1 DEF PacketLost, Marked
  <2>2. CASE fault # "status"
    <3>1. bfh_err' = bfh_err
      BY <2>2, Zenon DEF PacketLost, TypeOK
    <3> QED
      BY <3>1 DEF PacketLost
  <2> QED
    BY <2>1, <2>2
<1> QED
  BY <1>1, <1>2, <1>3, <1>4 DEF EventStep

LEMMA NumbersType ==
  ASSUME TypeOK
  PROVE  /\ frame.num \in Nat /\ hold.num \in Nat /\ ShownLast \in Nat
         /\ frame.err \in BOOLEAN /\ hold.err \in BOOLEAN
<1>1. frame \in Held /\ hold \in Held
  BY DEF TypeOK
<1>2. ASSUME shown # <<>> PROVE shown[Len(shown)] \in Held
  BY <1>2 DEF TypeOK
<1> QED
  BY <1>1, <1>2 DEF Held, ShownLast

LEMMA OrderStep ==
  ASSUME TypeOK, Taken, Unbroken, Ordered, [Next]_vars
  PROVE  Unbroken' /\ Ordered'
<1> USE NumbersType
<1>1. CASE EventStep
  <2>1. ShownLast' = ShownLast /\ (Marked' <=> Marked)
    BY <1>1, EventEffect DEF ShownLast, Marked
  <2>2. Unbroken'
    <3>1. frame' = frame /\ ~frame.err
      BY <1>1, EventEffect DEF Unbroken
    <3>2. ASSUME ~Marked PROVE ~bfh_err' /\ ~hold'.err
      <4>1. bfh_err = FALSE /\ hold.err = FALSE
        BY <3>2 DEF Unbroken, TypeOK
      <4>2. \/ hold' = hold /\ bfh_err' = bfh_err
            \/ hold'.err = bfh_err /\ bfh_err' = FALSE
        BY <1>1, <3>2, EventEffect
      <4> QED
        BY <4>1, <4>2
    <3> QED
      BY <2>1, <3>1, <3>2, Zenon DEF Unbroken
  <2>3. Ordered'
    <3>1. /\ UNCHANGED <<frame, last_seq, caller>>
          /\ \/ UNCHANGED <<seq, hold>>
             \/ seq' = seq + 1 /\ hold'.num = seq + 1
      BY <1>1, EventEffect
    <3>2. hold_seq \in Nat /\ hold_seq' \in Nat /\ hold_seq <= hold_seq'
      BY <3>1 DEF TypeOK, hold_seq
    <3> QED
      BY <2>1, <3>1, <3>2 DEF Ordered, TypeOK
  <2> QED
    BY <2>2, <2>3
<1>2. CASE NoticeFrame
  <2>1. ShownLast' = ShownLast /\ (Marked' <=> Marked)
    BY <1>2 DEF NoticeFrame, ShownLast, Marked
  <2>2. Unbroken'
    BY <1>2, <2>1 DEF NoticeFrame, Unbroken
  <2>3. CASE hold.err
    BY <1>2, <2>1, <2>3 DEF NoticeFrame, Ordered, Unbroken, TypeOK, hold_seq
  <2>4. CASE ~hold.err
    BY <1>2, <2>1, <2>4 DEF NoticeFrame, Ordered, Unbroken, TypeOK, hold_seq
  <2> QED
    BY <2>1, <2>2, <2>3, <2>4
<1>3. CASE CallUser
  <2>1. (Marked' <=> Marked) /\ Unbroken'
    BY <1>3 DEF CallUser, Marked, Unbroken
  <2>2. CASE hold.err
    BY <1>3, <2>1, <2>2 DEF CallUser, Ordered, ShownLast, hold_seq
  <2>3. CASE ~hold.err
    <3>1. shown' = Append(shown, frame) /\ shown \in Seq(Held) /\ frame \in Held
      BY <1>3, <2>3 DEF CallUser, TypeOK
    <3>2. ShownLast' = frame.num
      BY <3>1 DEF ShownLast
    <3>3. Ordered'
      BY <1>3, <2>1, <3>2 DEF CallUser, Ordered, hold_seq
    <3> QED
      BY <2>1, <3>3
  <2> QED
    BY <2>1, <2>2, <2>3
<1>4. CASE UNCHANGED vars
  BY <1>4 DEF vars, Unbroken, Ordered, ShownLast, Marked, hold_seq
<1> QED
  BY <1>1, <1>2, <1>3, <1>4 DEF Next, EventStep

-----------------------------------------------------------------------------
(* What outbuf holds.                                                      *)

(* Frames of packets on their way are numbers.                             *)
LEMMA OutbufType ==
  ASSUME TypeOK
  PROVE  /\ \A i \in DOMAIN outbuf : outbuf[i].frame \in Nat
         /\ camera.frame \in Nat /\ camera.index \in 1..PacketsPerFrame
         /\ burst \in Nat /\ link.burst \in Nat /\ burst <= link.burst
<1>1. \A i \in DOMAIN outbuf : outbuf[i] \in Packets
  BY DEF TypeOK
<1>2. link.burst \in Nat
  BY FramesAssumption DEF TypeOK
<1> QED
  BY <1>1, <1>2, FramesAssumption DEF TypeOK, Packets

(* No two neighbouring frames have the same ID: outbuf holds one frame.    *)
LEMMA OneFrame ==
  ASSUME TypeOK, Assembling
  PROVE  OfOneFrame(outbuf)
<1> SUFFICES ASSUME NEW i \in DOMAIN outbuf, NEW j \in DOMAIN outbuf
             PROVE  outbuf[i].frame = outbuf[j].frame
  BY DEF OfOneFrame
<1>1. outbuf[i].frame % 2 = outbuf[j].frame % 2
  BY DEF Assembling
<1>2. \/ outbuf[i].frame = outbuf[j].frame
      \/ outbuf[i].frame + 1 = outbuf[j].frame
      \/ outbuf[j].frame + 1 = outbuf[i].frame
  BY OutbufType DEF Assembling
<1> QED
  BY <1>1, <1>2, OutbufType, Parity

(* While the event thread has a packet of a frame, so has outbuf.          *)
LEMMA SameFrame ==
  ASSUME TypeOK, Assembling, event # "poll"
  PROVE  \A i \in DOMAIN outbuf : outbuf[i].frame = camera.frame
  BY DEF Assembling

(* The camera goes on in its frame or begins the next.                     *)
LEMMA CameraMoves ==
  ASSUME TypeOK, camera' = NextPacket
  PROVE  \/ camera.index < PacketsPerFrame /\ camera'.frame = camera.frame
              /\ camera'.index = camera.index + 1
         \/ camera.index = PacketsPerFrame /\ camera'.frame = camera.frame + 1
              /\ camera'.index = 1
<1>1. camera \in [frame : 1..MaxFrames + 1, index : 1..PacketsPerFrame]
  BY DEF TypeOK
<1> QED
  BY <1>1, FramesAssumption DEF NextPacket

LEMMA AssemblingStep ==
  ASSUME TypeOK, Taken, ~Mixable, Assembling, Reported => Complete, [Next]_vars
  PROVE  Assembling'
<1> USE OutbufType, FramesAssumption
<1>1. CASE PacketHeader
  <2>1. CASE fid # camera.frame % 2 /\ outbuf # <<>>
    BY <1>1, <2>1 DEF PacketHeader, _uvc_swap_buffers, Assembling
  <2>2. CASE fid = camera.frame % 2
    <3>1. UNCHANGED <<outbuf, camera, fid>>
      BY <1>1, <2>2 DEF PacketHeader
    <3>2. ASSUME NEW i \in DOMAIN outbuf PROVE outbuf[i].frame = camera.frame
      BY <2>2, Parity DEF Assembling
    <3> QED
      BY <3>1, <3>2 DEF Assembling
  <2>3. CASE outbuf = <<>> /\ fid # camera.frame % 2
    BY <1>1, <2>3 DEF PacketHeader, Assembling
  <2> QED
    BY <2>1, <2>2, <2>3
<1>2. CASE PacketData
  <2>1. CASE camera.index = PacketsPerFrame
    BY <1>2, <2>1 DEF PacketData, _uvc_swap_buffers, Assembling
  <2>2. CASE camera.index # PacketsPerFrame
    <3>1. camera'.frame = camera.frame /\ outbuf' = Append(outbuf, camera) /\ fid' = fid
      BY <1>2, <2>2, CameraMoves DEF PacketData
    <3>2. \A i \in DOMAIN outbuf : outbuf[i].frame = camera.frame
      BY <1>2, SameFrame DEF PacketData
    <3>3. \A i \in DOMAIN outbuf' : outbuf'[i].frame = camera.frame
      BY <3>1, <3>2 DEF TypeOK
    <3>4. camera.frame % 2 = fid
      BY <1>2 DEF PacketData, Taken
    <3> QED
      BY <3>1, <3>3, <3>4 DEF Assembling
  <2> QED
    BY <2>1, <2>2
<1>3. CASE PacketShort
  <2>1. UNCHANGED <<outbuf, burst, fid>> /\ event' = "poll" /\ camera' = NextPacket
    BY <1>3 DEF PacketShort
  <2>2. \A i \in DOMAIN outbuf : outbuf[i].frame = camera.frame
    BY <1>3, SameFrame DEF PacketShort
  <2> QED
    BY <2>1, <2>2, CameraMoves DEF Assembling
<1>4. CASE \E fault \in link.faults \ {"short"} : PacketLost(fault)
  <2>1. /\ UNCHANGED <<outbuf, fid>> /\ event = "poll" /\ event' = "poll"
        /\ burst < link.burst /\ burst' = burst + 1 /\ camera' = NextPacket
    BY <1>4 DEF PacketLost, Sending
  <2> SUFFICES ASSUME NEW i \in DOMAIN outbuf
               PROVE  /\ outbuf[i].frame % 2 = fid
                      /\ \/ outbuf[i].frame = camera'.frame
                         \/ /\ outbuf[i].frame + 1 = camera'.frame
                            /\ camera'.index <= burst' + 1
    BY <2>1 DEF Assembling
  <2>2. CASE outbuf[i].frame = camera.frame
    BY <2>1, <2>2, CameraMoves DEF Assembling
  <2>3. CASE outbuf[i].frame # camera.frame
    <3>1. outbuf[i].frame + 1 = camera.frame /\ camera.index <= burst + 1
      BY <2>3 DEF Assembling
    <3>2. camera.index < PacketsPerFrame
      <4>1. CASE link.burst < PacketsPerFrame
        BY <2>1, <3>1, <4>1
      <4>2. CASE Reported
        BY <2>1, <2>3, <4>2 DEF Reported, Complete
      <4> QED
        BY <4>1, <4>2 DEF Mixable
    <3> QED
      BY <2>1, <3>1, <3>2, CameraMoves DEF Assembling
  <2> QED
    BY <2>2, <2>3
<1>5. CASE NoticeFrame \/ CallUser \/ UNCHANGED vars
  BY <1>5 DEF NoticeFrame, CallUser, vars, Assembling
<1> QED
  BY <1>1, <1>2, <1>3, <1>4, <1>5 DEF Next

(* A packet that is appended is of the frame that outbuf holds.            *)
LEMMA AppendOne ==
  ASSUME TypeOK, Assembling, event # "poll"
  PROVE  /\ OfOneFrame(Append(outbuf, camera))
         /\ Len(Append(outbuf, camera)) = Len(outbuf) + 1
         /\ \A i \in DOMAIN Append(outbuf, camera) :
              Append(outbuf, camera)[i].frame = camera.frame
<1>1. \A i \in DOMAIN outbuf : outbuf[i].frame = camera.frame
  BY SameFrame
<1>2. \A i \in DOMAIN Append(outbuf, camera) :
        Append(outbuf, camera)[i].frame = camera.frame
  BY <1>1 DEF TypeOK
<1>3. Len(Append(outbuf, camera)) = Len(outbuf) + 1
  BY DEF TypeOK
<1> QED
  BY <1>2, <1>3 DEF OfOneFrame

(* What becomes of outbuf and of the frame that is held.                   *)
LEMMA DataEffect ==
  ASSUME EventStep
  PROVE  /\ \/ outbuf' = outbuf \/ outbuf' = <<>>
            \/ event # "poll" /\ outbuf' = Append(outbuf, camera)
         /\ \/ hold' = hold \/ hold'.data = outbuf
            \/ event # "poll" /\ hold'.data = Append(outbuf, camera)
         /\ UNCHANGED <<link, frame, shown>>
<1>1. CASE PacketHeader
  BY <1>1 DEF PacketHeader, _uvc_swap_buffers
<1>2. CASE PacketData
  BY <1>2 DEF PacketData, _uvc_swap_buffers
<1>3. CASE PacketShort
  BY <1>3 DEF PacketShort
<1>4. CASE \E fault \in link.faults \ {"short"} : PacketLost(fault)
  BY <1>4 DEF PacketLost
<1> QED
  BY <1>1, <1>2, <1>3, <1>4 DEF EventStep

(* The other steps copy the held frame, or show a copy.                    *)
LEMMA EventStepOrNot ==
  ASSUME [Next]_vars, ~EventStep
  PROVE  /\ UNCHANGED <<link, camera, burst, bad, event, fid, outbuf, bfh_err, hold>>
         /\ frame' = frame \/ (~hold.err /\ frame' = hold)
         /\ shown' = shown \/ shown' = Append(shown, frame)
<1>1. CASE NoticeFrame
  BY <1>1, Zenon DEF NoticeFrame
<1>2. CASE CallUser
  BY <1>2, Zenon DEF CallUser
<1>3. CASE UNCHANGED vars
  BY <1>3 DEF vars
<1> QED
  BY <1>1, <1>2, <1>3 DEF Next, EventStep

LEMMA UnmixedStep ==
  ASSUME TypeOK, FramesUnmixed, ~Mixable => Assembling, [Next]_vars
  PROVE  FramesUnmixed'
<1> SUFFICES ASSUME link.burst < PacketsPerFrame, link' = link
             PROVE  OfOneFrame(outbuf)' /\ OfOneFrame(hold.data)' /\ OfOneFrame(frame.data)'
  <2>1. link' = link
    BY EventStepOrNot, DataEffect
  <2> QED
    BY <2>1 DEF FramesUnmixed
<1>1. OfOneFrame(outbuf) /\ OfOneFrame(hold.data) /\ OfOneFrame(frame.data)
  BY DEF FramesUnmixed
<1>2. Assembling
  BY DEF Mixable
<1>3. CASE EventStep
  <2>1. OfOneFrame(outbuf)'
    BY <1>1, <1>2, <1>3, AppendOne, DataEffect DEF OfOneFrame
  <2>2. OfOneFrame(hold.data)'
    BY <1>1, <1>2, <1>3, AppendOne, DataEffect DEF OfOneFrame
  <2>3. OfOneFrame(frame.data)'
    BY <1>1, <1>3, DataEffect DEF OfOneFrame
  <2> QED
    BY <2>1, <2>2, <2>3
<1>4. CASE ~EventStep
  BY <1>1, <1>4, EventStepOrNot DEF OfOneFrame
<1> QED
  BY <1>3, <1>4

LEMMA CompleteStep ==
  ASSUME TypeOK, Taken, Reported, Assembling, Complete, [Next]_vars
  PROVE  Complete'
<1> USE OutbufType, FramesAssumption
<1>1. CASE PacketHeader
  <2>1. event' # "short" /\ UNCHANGED <<camera, frame>>
    BY <1>1 DEF PacketHeader, Reported
  <2>2. CASE fid # camera.frame % 2 /\ outbuf # <<>>
    <3>1. /\ outbuf' = <<>> /\ bfh_err' = FALSE /\ hold'.err = bfh_err
      BY <1>1, <2>2 DEF PacketHeader, _uvc_swap_buffers
    <3>2. PICK i \in DOMAIN outbuf : TRUE
      BY <2>2 DEF TypeOK
    <3>3. outbuf[i].frame # camera.frame
      BY <2>2 DEF Assembling
    <3>4. bfh_err = TRUE /\ camera.index = 1
      BY <3>3 DEF Complete, Reported, TypeOK
    <3> QED
      BY <2>1, <3>1, <3>4 DEF Complete
  <2>3. CASE fid = camera.frame % 2
    <3>1. UNCHANGED <<outbuf, bfh_err, hold>>
      BY <1>1, <2>3 DEF PacketHeader
    <3>2. ASSUME NEW i \in DOMAIN outbuf PROVE outbuf[i].frame = camera.frame
      BY <2>3, Parity DEF Assembling
    <3> QED
      BY <2>1, <3>1, <3>2 DEF Complete
  <2>4. CASE outbuf = <<>> /\ fid # camera.frame % 2
    <3>1. UNCHANGED <<outbuf, bfh_err, hold>>
      BY <1>1, <2>4 DEF PacketHeader
    <3> QED
      BY <2>1, <2>4, <3>1 DEF Complete
  <2> QED
    BY <2>2, <2>3, <2>4
<1>2. CASE PacketData
  <2>1. event' = "poll" /\ frame' = frame /\ camera' = NextPacket /\ event # "poll"
    BY <1>2 DEF PacketData
  <2>2. CASE camera.index = PacketsPerFrame
    <3>1. /\ hold'.data = Append(outbuf, camera) /\ hold'.err = bfh_err
          /\ outbuf' = <<>> /\ bfh_err' = FALSE
      BY <1>2, <2>2 DEF PacketData, _uvc_swap_buffers
    <3>2. ASSUME ~hold'.err PROVE Whole(hold.data)'
      <4>1. Len(outbuf) = camera.index - 1
        BY <3>1, <3>2 DEF Complete
      <4> QED
        BY <2>1, <2>2, <3>1, <4>1, AppendOne DEF Whole, OfOneFrame
    <3>3. camera'.index = 1
      BY <2>1, <2>2, CameraMoves
    <3>4. Whole(frame.data)' \/ ~(frame'.num > 0)
      BY <2>1 DEF Complete, Whole, OfOneFrame
    <3> QED
      BY <2>1, <3>1, <3>2, <3>3, <3>4 DEF Complete
  <2>3. CASE camera.index # PacketsPerFrame
    <3>1. UNCHANGED <<hold, bfh_err>> /\ outbuf' = Append(outbuf, camera)
      BY <1>2, <2>3 DEF PacketData
    <3>2. camera'.frame = camera.frame /\ camera'.index = camera.index + 1
      BY <2>1, <2>3, CameraMoves
    <3>3. \A i \in DOMAIN outbuf' : outbuf'[i].frame = camera.frame
      BY <2>1, <3>1, AppendOne
    <3>4. Len(outbuf') = Len(outbuf) + 1
      BY <2>1, <3>1, AppendOne
    <3> QED
      BY <2>1, <3>1, <3>2, <3>3, <3>4 DEF Complete, Whole, OfOneFrame
  <2> QED
    BY <2>2, <2>3
<1>3. CASE PacketShort
  BY <1>3 DEF PacketShort, Complete
<1>4. CASE \E fault \in link.faults \ {"short"} : PacketLost(fault)
  <2>1. /\ UNCHANGED <<event, outbuf, hold, frame>> /\ camera' = NextPacket
        /\ burst < link.burst /\ burst' = burst + 1
    BY <1>4 DEF PacketLost
  <2>2. bfh_err' = TRUE
    BY <1>4 DEF PacketLost, Reported
  <2>3. ASSUME NEW i \in DOMAIN outbuf
        PROVE  outbuf[i].frame # camera'.frame => camera'.index <= burst'
    BY <2>1, CameraMoves DEF Complete, Reported
  <2> QED
    BY <2>1, <2>2, <2>3 DEF Complete, Whole, OfOneFrame
<1>5. CASE ~EventStep
  <2>1. /\ UNCHANGED <<camera, burst, event, outbuf, bfh_err, hold>>
        /\ frame' = frame \/ (~hold.err /\ frame' = hold)
    BY <1>5, EventStepOrNot
  <2>2. frame'.num > 0 => Whole(frame.data)'
    BY <2>1 DEF Complete, Whole, OfOneFrame
  <2> QED
    BY <2>1, <2>2 DEF Complete, Whole, OfOneFrame
<1> QED
  BY <1>1, <1>2, <1>3, <1>4, <1>5 DEF EventStep

LEMMA WholeStep ==
  ASSUME TypeOK, WholeFrames, Reported => Complete, [Next]_vars
  PROVE  WholeFrames'
<1>1. link' = link /\ (shown' = shown \/ shown' = Append(shown, frame))
  BY EventStepOrNot, DataEffect
<1> SUFFICES ASSUME Reported PROVE WholeFrames'
  BY <1>1 DEF WholeFrames, Reported
<1>2. frame.num > 0 => Whole(frame.data)
  BY DEF Complete
<1>3. \A i \in DOMAIN shown : shown[i].num > 0 => Whole(shown[i].data)
  BY DEF WholeFrames, Reported, Whole
<1>4. \A i \in DOMAIN shown' : shown'[i].num > 0 => Whole(shown'[i].data)
  <2>1. CASE shown' = shown
    BY <1>3, <2>1
  <2>2. CASE shown' = Append(shown, frame)
    BY <1>2, <1>3, <2>2 DEF TypeOK
  <2> QED
    BY <1>1, <2>1, <2>2
<1> QED
  BY <1>4 DEF WholeFrames, Whole, OfOneFrame

-----------------------------------------------------------------------------
(* The frames reported broken.                                             *)

(* What a report, or a packet without one, adds to them.                   *)
LEMMA BadGrows ==
  ASSUME TypeOK, Taken, [Next]_vars
  PROVE  /\ bad' \subseteq bad \cup {camera.frame}
         /\ camera'.frame \in Nat /\ camera.frame <= camera'.frame
<1>1. bad' = bad \/ Report
  BY Zenon DEF Next, vars, PacketHeader, PacketData, PacketShort, PacketLost, NoticeFrame, CallUser
<1>2. camera' = camera \/ camera' = NextPacket
  BY Zenon DEF Next, vars, PacketHeader, PacketData, PacketShort, PacketLost, NoticeFrame, CallUser
<1> QED
  BY <1>1, <1>2, OutbufType, CameraMoves DEF Report

(* Packets that are on the way are known by the number of their frame.     *)
LEMMA CopiesType ==
  ASSUME TypeOK
  PROVE  /\ \A i \in DOMAIN hold.data : hold.data[i].frame \in Nat
         /\ \A i \in DOMAIN frame.data : frame.data[i].frame \in Nat
         /\ \A i \in DOMAIN shown : \A j \in DOMAIN shown[i].data : shown[i].data[j].frame \in Nat
<1>1. ASSUME NEW data \in Seq(Packets), NEW i \in DOMAIN data PROVE data[i].frame \in Nat
  <2>1. data[i] \in Packets
    OBVIOUS
  <2> QED
    BY <2>1, FramesAssumption DEF Packets
<1>2. hold.data \in Seq(Packets) /\ frame.data \in Seq(Packets)
  BY DEF TypeOK, Held
<1>3. ASSUME NEW i \in DOMAIN shown PROVE shown[i].data \in Seq(Packets)
  <2>1. shown[i] \in Held
    BY DEF TypeOK
  <2> QED
    BY <2>1 DEF Held
<1> QED
  BY <1>1, <1>2, <1>3

LEMMA BadStep ==
  ASSUME TypeOK, Taken, BadMarked, [Next]_vars
  PROVE  BadMarked'
<1>0. \A f \in bad : f \in Nat
  BY FramesAssumption DEF TypeOK
<1> USE <1>0, OutbufType, FramesAssumption
<1>1. CASE PacketHeader
  <2>1. CASE fid # camera.frame % 2 /\ outbuf # <<>>
    <3>1. outbuf' = <<>> /\ UNCHANGED <<bad, camera>>
      BY <1>1, <2>1 DEF PacketHeader, _uvc_swap_buffers
    <3>2. PICK i \in DOMAIN outbuf : TRUE
      BY <2>1 DEF TypeOK
    <3>3. camera.frame \notin bad
      BY <2>1, <3>2 DEF BadMarked
    <3> QED
      BY <3>1, <3>3 DEF BadMarked
  <2>2. CASE fid = camera.frame % 2 \/ outbuf = <<>>
    BY <1>1, <2>2 DEF PacketHeader, BadMarked
  <2> QED
    BY <2>1, <2>2
<1>2. CASE PacketData
  <2>1. UNCHANGED <<bad, fid>> /\ camera' = NextPacket
    BY <1>2 DEF PacketData
  <2>2. CASE camera.index = PacketsPerFrame
    <3>1. outbuf' = <<>> /\ camera'.frame = camera.frame + 1
      BY <1>2, <2>1, <2>2, CameraMoves DEF PacketData, _uvc_swap_buffers
    <3> QED
      BY <2>1, <3>1 DEF BadMarked
  <2>3. CASE camera.index # PacketsPerFrame
    <3>1. /\ outbuf' = Append(outbuf, camera) /\ bfh_err' = bfh_err
          /\ camera'.frame = camera.frame
      BY <1>2, <2>1, <2>3, CameraMoves DEF PacketData
    <3>2. camera.frame % 2 = fid
      BY <1>2 DEF PacketData, Taken
    <3>3. ASSUME NEW i \in DOMAIN outbuf'
          PROVE  \/ i \in DOMAIN outbuf /\ outbuf'[i] = outbuf[i]
                 \/ outbuf'[i] = camera
      BY <3>1 DEF TypeOK
    <3>4. camera.frame \in bad => \A i \in DOMAIN outbuf' : outbuf'[i].frame = camera.frame
      BY <3>3 DEF BadMarked
    <3>5. ASSUME NEW i \in DOMAIN outbuf'
          PROVE  /\ outbuf'[i].frame <= camera.frame /\ outbuf'[i].frame % 2 = fid
                 /\ outbuf'[i].frame \in bad => bfh_err
      BY <3>2, <3>3 DEF BadMarked
    <3>6. camera.frame \in bad => bfh_err
      BY DEF BadMarked
    <3>7. \A f \in bad : f <= camera.frame
      BY DEF BadMarked
    <3> QED
      BY <2>1, <3>1, <3>4, <3>5, <3>6, <3>7 DEF BadMarked
  <2> QED
    BY <2>2, <2>3
<1>3. ASSUME UNCHANGED <<outbuf, fid>>, camera' = NextPacket, Report, bfh_err' = TRUE
      PROVE  BadMarked'
  <2>1. camera'.frame = camera.frame \/ camera'.frame = camera.frame + 1
    BY <1>3, CameraMoves
  <2>2. CASE camera'.frame = camera.frame + 1
    <3>1. camera'.frame \notin bad'
      BY <1>3, <2>2 DEF BadMarked, Report
    <3>2. \A f \in bad' : f <= camera'.frame
      BY <1>3, <2>2 DEF BadMarked, Report
    <3> QED
      BY <1>3, <2>2, <3>1, <3>2 DEF BadMarked
  <2>3. CASE camera'.frame = camera.frame
    <3>1. \A f \in bad' : f <= camera'.frame
      BY <1>3, <2>3 DEF BadMarked, Report
    <3>2. camera.frame \in bad' => \A i \in DOMAIN outbuf : outbuf[i].frame = camera.frame
      BY <1>3 DEF BadMarked, Report
    <3> QED
      BY <1>3, <2>3, <3>1, <3>2 DEF BadMarked
  <2> QED
    BY <2>1, <2>2, <2>3
<1>4. ASSUME UNCHANGED <<outbuf, fid, bad, bfh_err>>, camera' = NextPacket
      PROVE  BadMarked'
  <2>1. camera'.frame = camera.frame \/ camera'.frame = camera.frame + 1
    BY <1>4, CameraMoves
  <2>2. camera'.frame = camera.frame + 1 => camera'.frame \notin bad
    BY DEF BadMarked
  <2> QED
    BY <1>4, <2>1, <2>2 DEF BadMarked
<1>5. CASE PacketShort
  BY <1>3, <1>5 DEF PacketShort
<1>6. CASE \E fault \in link.faults \ {"short"} : PacketLost(fault)
  <2> PICK fault \in link.faults \ {"short"} : PacketLost(fault)
    BY <1>6
  <2>1. CASE fault = "status"
    <3>1. bfh_err' = TRUE
      BY <2>1, Zenon DEF PacketLost
    <3> QED
      BY <1>3, <2>1, <3>1 DEF PacketLost
  <2>2. CASE fault # "status"
    <3>1. bfh_err' = bfh_err
      BY <2>2, Zenon DEF PacketLost, TypeOK
    <3> QED
      BY <1>4, <2>2, <3>1 DEF PacketLost
  <2> QED
    BY <2>1, <2>2
<1>7. CASE NoticeFrame \/ CallUser \/ UNCHANGED vars
  BY <1>7 DEF NoticeFrame, CallUser, vars, BadMarked
<1> QED
  BY <1>1, <1>2, <1>5, <1>6, <1>7 DEF Next

LEMMA CopiesStep ==
  ASSUME TypeOK, Taken, BadMarked, CopiesGood, [Next]_vars
  PROVE  CopiesGood'
<1> USE CopiesType, BadGrows, OutbufType, FramesAssumption
<1>1. CASE UNCHANGED <<hold, frame, shown>>
  BY <1>1 DEF CopiesGood, Good
<1>2. CASE NoticeFrame
  <2>1. /\ UNCHANGED <<bad, camera, hold, shown>>
        /\ frame' = frame \/ (~hold.err /\ frame' = hold)
    BY <1>2, Zenon DEF NoticeFrame
  <2> QED
    BY <2>1 DEF CopiesGood, Good
<1>3. CASE CallUser
  <2>1. /\ UNCHANGED <<bad, camera, hold, frame>>
        /\ shown' = shown \/ shown' = Append(shown, frame)
    BY <1>3, Zenon DEF CallUser
  <2>2. \A i \in DOMAIN shown' : \/ i \in DOMAIN shown /\ shown'[i] = shown[i]
                               \/ shown'[i] = frame
    BY <2>1 DEF TypeOK
  <2> QED
    BY <2>1, <2>2 DEF CopiesGood, Good
<1>4. CASE PacketHeader /\ hold' # hold
  <2>1. /\ hold'.data = outbuf /\ hold'.err = bfh_err
        /\ UNCHANGED <<bad, camera, frame, shown>>
        /\ fid # camera.frame % 2
    BY <1>4 DEF PacketHeader, _uvc_swap_buffers
  <2>2. \A i \in DOMAIN outbuf : outbuf[i].frame < camera.frame
    BY <2>1 DEF BadMarked
  <2>3. ~bfh_err => Good(outbuf)
    BY <2>2 DEF BadMarked, Good
  <2> QED
    BY <2>1, <2>2, <2>3 DEF CopiesGood, Good
<1>5. CASE PacketData /\ hold' # hold
  <2>1. /\ hold'.data = Append(outbuf, camera) /\ hold'.err = bfh_err
        /\ UNCHANGED <<bad, frame, shown>>
        /\ camera'.frame = camera.frame + 1
    BY <1>5, CameraMoves DEF PacketData, _uvc_swap_buffers
  <2>2. ASSUME NEW i \in DOMAIN hold'.data
        PROVE  \/ i \in DOMAIN outbuf /\ hold'.data[i] = outbuf[i]
               \/ hold'.data[i] = camera
    BY <2>1 DEF TypeOK
  <2>3. \A i \in DOMAIN hold'.data : hold'.data[i].frame < camera'.frame
    BY <2>1, <2>2 DEF BadMarked
  <2>4. ASSUME ~hold'.err, NEW i \in DOMAIN hold'.data PROVE hold'.data[i].frame \notin bad'
    BY <2>1, <2>2, <2>4 DEF BadMarked
  <2> QED
    BY <2>1, <2>3, <2>4 DEF CopiesGood, Good
<1> QED
  <2>1. CASE EventStep
    <3>1. UNCHANGED <<frame, shown>>
      BY <2>1, DataEffect
    <3>2. CASE PacketShort \/ \E fault \in link.faults \ {"short"} : PacketLost(fault)
      BY <1>1, <3>1, <3>2 DEF PacketShort, PacketLost
    <3> QED
      BY <1>1, <1>4, <1>5, <2>1, <3>1, <3>2 DEF EventStep
  <2>2. CASE ~EventStep
    BY <1>1, <1>2, <1>3, <2>2 DEF Next, EventStep, vars
  <2> QED
    BY <2>1, <2>2

-----------------------------------------------------------------------------
(* The theorems.                                                           *)

LEMMA InvStep == IInv /\ [Next]_vars => IInv'
<1> SUFFICES ASSUME IInv, [Next]_vars PROVE IInv'
  OBVIOUS
<1>1. /\ TypeOK /\ Taken /\ Unbroken /\ Ordered
      /\ BadMarked /\ CopiesGood /\ FramesUnmixed /\ WholeFrames
      /\ (~Mixable => Assembling) /\ (Reported => Complete)
  BY DEF IInv
<1>2. Reported => Assembling
  BY <1>1 DEF Mixable
<1>3. (Mixable' <=> Mixable) /\ (Reported' <=> Reported)
  <2>1. link' = link
    BY EventStepOrNot, DataEffect
  <2> QED
    BY <2>1 DEF Mixable, Reported
<1>4. TypeOK' /\ Taken'
  BY <1>1, TypeStep
<1>5. Unbroken' /\ Ordered' /\ BadMarked' /\ CopiesGood'
  BY <1>1, OrderStep, BadStep, CopiesStep
<1>6. (~Mixable => Assembling)'
  BY <1>1, <1>3, AssemblingStep
<1>7. (Reported => Complete)'
  BY <1>1, <1>2, <1>3, CompleteStep
<1>8. FramesUnmixed' /\ WholeFrames'
  BY <1>1, UnmixedStep, WholeStep
<1> QED
  BY <1>4, <1>5, <1>6, <1>7, <1>8 DEF IInv

(* The strengthened invariant of the assembly of frames.                   *)
THEOREM Inductive == Spec => []IInv
<1>1. Init => IInv
  BY InitInv
<1>2. IInv /\ [Next]_vars => IInv'
  BY InvStep
<1> QED
  BY <1>1, <1>2, PTL DEF Spec

(* _uvc_process_payload_iso, _uvc_user_caller: on any link and for frames  *)
(* of any size, frames are not mixed, no data of a frame reported broken   *)
(* while none before it was waiting for its end are shown, and where every *)
(* loss is reported only whole frames are.                                 *)
THEOREM FramesAlways == Spec => []FramesInv
<1>1. IInv => FramesInv
  BY DEF IInv, FramesInv, CopiesGood, Good, NoBrokenShown
<1> QED
  BY <1>1, Inductive, PTL

-----------------------------------------------------------------------------
(* The assembly implements FrameFeed.                                      *)

ShownNums == [i \in DOMAIN shown |-> shown[i].num]

LEMMA FeedInit == Init => Feed!Init
  BY DEF Init, Feed!Init

LEMMA LatestShown ==
  ASSUME TypeOK
  PROVE  /\ ShownNums \in Seq(Nat) /\ Len(ShownNums) = Len(shown)
         /\ Feed!Latest = ShownLast
<1>1. \A i \in DOMAIN shown : shown[i].num \in Nat
  <2>1. \A i \in DOMAIN shown : shown[i] \in Held
    BY DEF TypeOK
  <2> QED
    BY <2>1 DEF Held
<1>2. ShownNums \in Seq(Nat) /\ Len(ShownNums) = Len(shown)
  BY <1>1 DEF ShownNums, TypeOK
<1>3. shown = <<>> <=> ShownNums = <<>>
  BY <1>2 DEF TypeOK
<1>4. shown # <<>> => ShownNums[Len(ShownNums)] = shown[Len(shown)].num
  BY <1>2 DEF TypeOK, ShownNums
<1> QED
  BY <1>2, <1>3, <1>4 DEF Feed!Latest, ShownLast, ShownNums

LEMMA FeedStep ==
  ASSUME IInv, [Next]_vars
  PROVE  [Feed!Next]_<<seq, ShownNums, Marked>>
<1>0. TypeOK /\ Taken /\ Unbroken /\ Ordered
  BY DEF IInv
<1>1. CASE EventStep
  <2>1. link' = link /\ shown' = shown /\ (seq' = seq \/ seq' = seq + 1)
    BY <1>0, <1>1, EventEffect
  <2> QED
    BY <2>1 DEF Feed!Next, Feed!Publish, ShownNums, Marked
<1>2. CASE NoticeFrame \/ UNCHANGED vars
  BY <1>2 DEF NoticeFrame, vars, ShownNums, Marked
<1>3. CASE CallUser
  <2>1. CASE hold.err
    BY <1>3, <2>1 DEF CallUser, ShownNums, Marked
  <2>2. CASE ~hold.err
    <3>1. /\ shown' = Append(shown, frame) /\ seq' = seq /\ link' = link
          /\ caller = "call"
      BY <1>3, <2>2 DEF CallUser
    <3>2. ShownNums' = Append(ShownNums, frame.num)
      <4>1. shown \in Seq(Held) /\ frame \in Held
        BY <1>0 DEF TypeOK
      <4>2. Append(ShownNums, frame.num)
              = [i \in 1..Len(shown) + 1 |->
                   IF i = Len(shown) + 1 THEN frame.num ELSE shown[i].num]
        BY <1>0, <4>1, LatestShown DEF ShownNums
      <4> QED
        BY <3>1, <4>1, <4>2 DEF ShownNums
    <3>3. frame.num \in Feed!Newer \cup (IF Marked THEN {Feed!Latest} ELSE {})
      <4>1. /\ frame.num \in Nat /\ ShownLast \in Nat /\ seq \in Nat
            /\ Feed!Latest = ShownLast
        BY <1>0, NumbersType, LatestShown DEF TypeOK
      <4>2. CASE Marked
        BY <1>0, <4>1, <4>2 DEF Ordered, Feed!Newer
      <4>3. CASE ~Marked
        BY <1>0, <3>1, <4>1, <4>3 DEF Ordered, Feed!Newer
      <4> QED
        BY <4>2, <4>3
    <3>4. Feed!Deliver
      BY <3>1, <3>2, <3>3 DEF Feed!Deliver, ShownNums, Marked
    <3> QED
      BY <3>4 DEF Feed!Next
  <2> QED
    BY <2>1, <2>2
<1> QED
  BY <1>1, <1>2, <1>3 DEF Next, EventStep

(* stream.c: whoever passes a function to uvc_start_streaming gets what    *)
(* FrameFeed promises, on any link and for frames of any size.             *)
THEOREM ImplementsFeed == Spec => FeedsFrames
<1>1. Init => Feed!Init
  BY FeedInit
<1>2. IInv /\ [Next]_vars => [Feed!Next]_<<seq, ShownNums, Marked>>
  BY FeedStep
<1> QED
  BY <1>1, <1>2, Inductive, PTL DEF Spec, FeedsFrames, Feed!Spec, ShownNums, Marked
=============================================================================
