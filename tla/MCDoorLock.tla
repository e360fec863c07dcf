----------------------------- MODULE MCDoorLock -----------------------------
EXTENDS DoorLock, TLC
CONSTANTS u1, u2, r1
MCUTimers == {u1, u2}
MCOneRTimer == {r1}
=============================================================================
