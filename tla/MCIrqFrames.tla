---------------------------- MODULE MCIrqFrames ----------------------------
(* The boot task and two others, slices of two ticks, four frames on a     *)
(* stack: a system call, an interrupt in it, and two that cut epilogues,   *)
(* the second of which switches.                                           *)
EXTENDS IrqFrames
=============================================================================
