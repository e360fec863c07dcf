----------------------------- MODULE MCUvcStream -----------------------------
(* TLC instances of UvcStream: four transfers stand for the code's ten.    *)
EXTENDS UvcStream
=============================================================================
