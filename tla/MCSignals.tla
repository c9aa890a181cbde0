------------------------------ MODULE MCSignals ------------------------------
(* Signals for the keyboard and for line 8 of the second controller besides  *)
(* those of KiInitialize.  A serial line raises requests too; no signal is   *)
(* registered for it, and the firmware left it masked.                       *)
EXTENDS Signals

Firmware == (0 .. 15) \ {0, 1, 2, 8}
===============================================================================
