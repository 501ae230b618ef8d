------------------------------ MODULE MCSched ------------------------------
(* Four tasks and a slice of three ticks: enough for the search of         *)
(* sched_yield to wrap, to skip dead tasks and to find only itself.        *)
EXTENDS Sched
=============================================================================
