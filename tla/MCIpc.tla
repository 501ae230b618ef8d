------------------------------- MODULE MCIpc -------------------------------
(* Two senders of two messages make the vector grow twice and the receiver *)
(* wait, pop in the middle of the traffic, end and be reaped.              *)
EXTENDS Ipc
=============================================================================
