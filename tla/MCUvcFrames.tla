---------------------------- MODULE MCUvcFrames ----------------------------
(* TLC instances of UvcFrames: links with every fault, two packets in a row*)
(* or one; one that loses packets in silence and whole frames of them; one *)
(* that reports each loss.                                                 *)
EXTENDS UvcFrames

FourLinks ==
  { [faults |-> FaultKinds, burst |-> 2],
    [faults |-> FaultKinds, burst |-> 1],
    [faults |-> {"empty", "error"}, burst |-> 4],
    [faults |-> {"status"}, burst |-> 1] }
=============================================================================
