---------------------------- MODULE SchedProofs ----------------------------
(***************************************************************************)
(* What is proved of the scheduler for any number of tasks and any length  *)
(* of a slice: its types, the bound of the round robin, and the safety of  *)
(* the reaper.                                                             *)
(***************************************************************************)
EXTENDS Sched, TLAPS

\* The boot task never ends, and exactly the queued tasks have a state.
QueueInv ==
    /\ state[Boot] = "RUNNING"
    /\ \A p \in Pid : state[p] = "NONE" <=> p >= length

\* A task that waits has as many switches to wait, at most, as calls of
\* next_pid() separate it from the current task.
TurnInv ==
    /\ \A p \in Pid : Running(p) /\ p # current_pid => waited[p] + Distance(p) <= length
    /\ Running(current_pid) => waited[current_pid] = 0
    /\ \A p \in Pid : p >= length => waited[p] = 0

SchedInv == SchedTypeOK /\ QueueInv /\ TurnInv /\ StackOutlivesTask

-----------------------------------------------------------------------------
\* The next task to run is the one that no other running task precedes: on
\* the way from the old current task to any other, the switch to it takes
\* off at least one step.
LEMMA SwitchShortens ==
    ASSUME NEW n \in Nat, NEW c \in 0 .. n - 1, NEW p \in 0 .. n - 1,
           NEW q \in 0 .. n - 1, p # q, q # c,
           (IF p > c THEN p - c ELSE p - c + n) <= (IF q > c THEN q - c ELSE q - c + n)
    PROVE  (IF q > p THEN q - p ELSE q - p + n) + 1
              <= (IF q > c THEN q - c ELSE q - c + n)
BY SMT

LEMMA SchedInitInv == SchedInit => SchedInv
<1> SUFFICES ASSUME SchedInit
             PROVE  SchedInv
  OBVIOUS
<1> USE SchedAssumption DEF SchedInit, sched_init, Pid, Queued, Boot
<1>1. SchedTypeOK
  BY DEF SchedTypeOK
<1>2. QueueInv
  BY DEF QueueInv
<1>3. TurnInv
  BY DEF TurnInv, Running, Distance
<1>4. StackOutlivesTask
  BY DEF StackOutlivesTask
<1> QED  BY <1>1, <1>2, <1>3, <1>4 DEF SchedInv

\* A switch keeps the types and makes the waiting tasks' turns come closer.
LEMMA SwitchInv ==
    ASSUME SchedInv, NEW p \in Queued, next_pid(p), SwitchTo(p),
           UNCHANGED <<length, state, bstack, idle_i>>
    PROVE  /\ current_pid' \in Queued'
           /\ waited' \in [Pid -> 0 .. MaxTasks]
           /\ TurnInv'
           /\ StackOutlivesTask'
<1> USE SchedAssumption DEF SchedInv, SchedTypeOK, QueueInv, Pid, Queued, Running
<1>1. Queued \subseteq Pid
  OBVIOUS
<1>2. current_pid' = p /\ p \in Queued'
  BY DEF SwitchTo
<1>3. waited' \in [Pid -> 0 .. MaxTasks]
  BY DEF SwitchTo
<1>4. ASSUME NEW q \in Pid, Running(q)', q # current_pid'
      PROVE  waited'[q] + Distance(q)' <= length'
  <2>1. Running(q) /\ q # p /\ waited'[q] <= waited[q] + 1 /\ waited'[q] \in Nat
    BY <1>2, <1>4 DEF SwitchTo
  <2>2. Distance(p) <= Distance(q)
    BY <2>1 DEF next_pid
  <2>3. CASE q = current_pid
    <3>1. waited[q] = 0
      BY <2>1, <2>3 DEF TurnInv
    <3>2. Distance(q)' + 1 <= length
      BY <1>2, <2>1, <2>3 DEF Distance
    <3> QED  BY <2>1, <3>1, <3>2, <1>2 DEF Distance
  <2>4. CASE q # current_pid
    <3>1. waited[q] + Distance(q) <= length
      BY <2>1, <2>4 DEF TurnInv
    <3>2. Distance(q)' + 1 <= Distance(q)
      BY <1>2, <2>1, <2>2, <2>4, SwitchShortens DEF Distance
    <3>3. Distance(q) \in Int /\ Distance(q)' \in Int /\ waited[q] \in Int
             /\ length' = length /\ length \in Int
      BY <1>2 DEF Distance
    <3>4. waited'[q] <= waited[q] + 1 /\ waited'[q] \in Int
      BY <2>1
    <3> QED  BY <3>1, <3>2, <3>3, <3>4
  <2> QED  BY <2>3, <2>4
<1>5. Running(current_pid)' => waited'[current_pid'] = 0
  BY <1>2 DEF SwitchTo
<1>6. ASSUME NEW q \in Pid, q >= length'
      PROVE  waited'[q] = 0
  BY <1>6 DEF SwitchTo
<1>7. StackOutlivesTask'
  BY <1>2 DEF StackOutlivesTask, next_pid
<1> QED  BY <1>2, <1>3, <1>4, <1>5, <1>6, <1>7 DEF TurnInv

LEMMA SchedNextInv == SchedInv /\ [SchedNext]_schedVars => SchedInv'
<1> SUFFICES ASSUME SchedInv, [SchedNext]_schedVars
             PROVE  SchedInv'
  OBVIOUS
<1> USE SchedAssumption DEF SchedInv, SchedTypeOK, QueueInv, Pid, Queued, Boot
<1>1. CASE sched_yield
  <2>1. CASE tick + 1 >= SWITCH_TICK
    <3>1. PICK p \in Queued : next_pid(p) /\ SwitchTo(p)
      BY <1>1, <2>1 DEF sched_yield
    <3>2. UNCHANGED <<length, state, bstack, idle_i>> /\ tick' = 0
      BY <1>1, <2>1 DEF sched_yield
    <3>3. TurnInv' /\ StackOutlivesTask' /\ current_pid' \in Queued' /\ waited' \in [Pid -> 0 .. MaxTasks]
      BY <3>1, <3>2, SwitchInv
    <3>4. SchedTypeOK' /\ QueueInv'
      BY <3>2, <3>3
    <3> QED  BY <3>3, <3>4
  <2>2. CASE ~(tick + 1 >= SWITCH_TICK)
    <3>1. tick' = tick + 1 /\ UNCHANGED <<length, state, bstack, current_pid, idle_i, waited>>
      BY <1>1, <2>2 DEF sched_yield
    <3>2. SchedTypeOK' /\ QueueInv'
      BY <2>2, <3>1
    <3>3. TurnInv' /\ StackOutlivesTask'
      BY <3>1 DEF TurnInv, StackOutlivesTask, Running, Distance
    <3> QED  BY <3>2, <3>3
  <2> QED  BY <2>1, <2>2
<1>2. CASE sched_force_yield
  BY <1>2 DEF sched_force_yield, TurnInv, StackOutlivesTask, Running, Distance
<1>3. CASE sched_push_task
  <2>1. SchedTypeOK' /\ QueueInv'
    BY <1>3 DEF sched_push_task
  <2>2. TurnInv'
    BY <1>3 DEF sched_push_task, TurnInv, Running, Distance
  <2>3. StackOutlivesTask'
    BY <1>3 DEF sched_push_task, StackOutlivesTask
  <2> QED  BY <2>1, <2>2, <2>3
<1>4. CASE syscall_exit
  <2>1. SchedTypeOK' /\ QueueInv'
    BY <1>4 DEF syscall_exit, Running
  <2>2. TurnInv'
    BY <1>4 DEF syscall_exit, TurnInv, Running, Distance
  <2>3. StackOutlivesTask'
    BY <1>4 DEF syscall_exit, StackOutlivesTask, Running
  <2> QED  BY <2>1, <2>2, <2>3
<1>5. CASE sched_idle
  <2>1. SchedTypeOK' /\ QueueInv'
    BY <1>5 DEF sched_idle
  <2>2. TurnInv'
    BY <1>5 DEF sched_idle, TurnInv, Running, Distance
  <2>3. StackOutlivesTask'
    BY <1>5 DEF sched_idle, StackOutlivesTask, Reapable
  <2> QED  BY <2>1, <2>2, <2>3
<1>6. CASE UNCHANGED schedVars
  BY <1>6 DEF schedVars, TurnInv, StackOutlivesTask, Running, Distance
<1> QED  BY <1>1, <1>2, <1>3, <1>4, <1>5, <1>6 DEF SchedNext

\* The inductive invariant holds in every reachable state.
THEOREM SchedInvariance == SchedSafety => []SchedInv
BY SchedInitInv, SchedNextInv, PTL DEF SchedSafety

\* current_pid always names a queued task and tick never runs away, although
\* the queue grows and system calls force the tick.
THEOREM SchedTypes == SchedSafety => []SchedTypeOK
<1>1. SchedInv => SchedTypeOK
  BY DEF SchedInv
<1> QED  BY <1>1, SchedInvariance, PTL

\* Round robin: whatever the other tasks do, a running task is passed over
\* by fewer switches of sched_yield than there are tasks.
THEOREM SchedRoundRobin == SchedSafety => []BoundedBypass
<1>1. SchedInv => BoundedBypass
  BY SchedAssumption DEF SchedInv, SchedTypeOK, TurnInv, BoundedBypass, Running, Queued,
     Pid, Distance
<1> QED  BY <1>1, SchedInvariance, PTL

\* sched_idle never frees the kernel stack of a task that is current or that
\* the scheduler can still resume.
THEOREM SchedReapsSafely == SchedSafety => []StackOutlivesTask
<1>1. SchedInv => StackOutlivesTask
  BY DEF SchedInv
<1> QED  BY <1>1, SchedInvariance, PTL
=============================================================================
