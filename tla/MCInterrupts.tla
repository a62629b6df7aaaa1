---------------------------- MODULE MCInterrupts ----------------------------
(* The machine as it is: three devices, three terminals.                   *)
EXTENDS Interrupts
=============================================================================
