------------------------------ MODULE FrameFeed ------------------------------
(***************************************************************************)
(* What libuvc's stream with a callback amounts to: the user's function is *)
(* called "with the contents of each frame" (stream.c:1581).  A slow       *)
(* function misses frames, but each frame it gets is newer than the one    *)
(* before and complete on the camera's side.  Where frames may be marked   *)
(* broken it may be called with the frame it got last once more, or, before*)
(* the first one, with memory that holds none (frame 0).                   *)
(***************************************************************************)
EXTENDS Naturals, Sequences

VARIABLES
  published,   \* the number of frames completed so far
  shown,       \* the numbers of the frames the function was called with
  marked       \* frames may be marked broken on this link

Latest == IF shown = <<>> THEN 0 ELSE shown[Len(shown)]

Init == published = 0 /\ shown = <<>> /\ marked \in BOOLEAN

Publish == published' = published + 1 /\ UNCHANGED <<shown, marked>>

Newer == Latest + 1 .. published

Deliver ==
  /\ \E n \in Newer \cup (IF marked THEN {Latest} ELSE {}) : shown' = Append(shown, n)
  /\ UNCHANGED <<published, marked>>

Next == Publish \/ Deliver

Spec == Init /\ [][Next]_<<published, shown, marked>>
=============================================================================
