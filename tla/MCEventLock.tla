---------------------------- MODULE MCEventLock ----------------------------
(* TLC instances of EventLock.                                             *)
EXTENDS EventLock, TLC

CONSTANTS c1
OneCaller == {c1}
=============================================================================
