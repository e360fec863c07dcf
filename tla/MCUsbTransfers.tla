--------------------------- MODULE MCUsbTransfers ---------------------------
(* TLC instances of UsbTransfers.                                          *)
EXTENDS UsbTransfers, TLC

CONSTANTS t1, t2
TwoTransfers == {t1, t2}
=============================================================================
