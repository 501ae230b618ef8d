------------------------------ MODULE MCKernel ------------------------------
(* The boot task and the two tasks of pkg/ipc-test, slices of two ticks.   *)
EXTENDS Kernel
=============================================================================
