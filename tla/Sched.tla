------------------------------- MODULE Sched -------------------------------
(***************************************************************************)
(* The scheduler of the kernel (kernel/sched.c), with the lifecycle of a   *)
(* task: queued once by sched_push_task, scheduled round-robin by the      *)
(* timer, ended by syscall_exit, its kernel stack freed by sched_idle.     *)
(*                                                                         *)
(* Every operation is atomic here.  Module Kernel extends this one and     *)
(* takes each operation apart into the locks it acquires and the points    *)
(* where an interrupt can cut it.                                          *)
(***************************************************************************)
EXTENDS Integers

CONSTANTS
    MaxTasks,       \* tasks the boot task queues, itself included
    SWITCH_TICK     \* timer ticks in a slice

ASSUME SchedAssumption ==
    /\ MaxTasks \in Nat \ {0}
    /\ SWITCH_TICK \in Nat \ {0}

VARIABLES
    length,         \* tasks.length
    state,          \* tasks.data[pid]->state; "NONE" beyond the queue
    bstack,         \* pids whose context.syscall_kernel_bstack is not 0
    current_pid,
    tick,
    idle_i,         \* the index i of the loop in sched_idle
    waited          \* history: switches since a task last ran (MaxTasks: or more)

schedVars == <<length, state, bstack, current_pid, tick, idle_i, waited>>

-----------------------------------------------------------------------------
Pid == 0 .. MaxTasks - 1
Boot == 0

Queued == 0 .. length - 1

Running(p) == p \in Queued /\ state[p] = "RUNNING"

sched_init ==
    /\ length = 1
    /\ state = [p \in Pid |-> IF p = Boot THEN "RUNNING" ELSE "NONE"]
    /\ bstack = {}
    /\ current_pid = Boot
    /\ tick = 0
    /\ idle_i = 0
    /\ waited = [p \in Pid |-> 0]

\* Calls of next_pid() that take current_pid to p, wrapping at tasks.length.
Distance(p) == IF p > current_pid THEN p - current_pid
                                  ELSE p - current_pid + length

\* Plausible error in next_pid: the search restarts at the head of the queue.
next_pid_FromHead(p) ==
    /\ Running(p)
    /\ \A q \in Queued : Running(q) => p <= q

\* The task at which the search loop of sched_yield stops.
next_pid(p) ==
    /\ Running(p)
    /\ \A q \in Queued : Running(q) => Distance(p) <= Distance(q)

SwitchTo(p) ==
    /\ current_pid' = p
    /\ waited' = [q \in Pid |->
                     IF ~Running(q) \/ q = p THEN 0
                     ELSE IF waited[q] < MaxTasks THEN waited[q] + 1 ELSE MaxTasks]

\* One timer interrupt.
sched_yield ==
    /\ IF tick + 1 >= SWITCH_TICK
          THEN /\ tick' = 0
               /\ \E p \in Queued : next_pid(p) /\ SwitchTo(p)
          ELSE /\ tick' = tick + 1
               /\ UNCHANGED <<current_pid, waited>>
    /\ UNCHANGED <<length, state, bstack, idle_i>>

\* Called by the current task from a system call: the next tick switches.
sched_force_yield ==
    /\ current_pid # Boot
    /\ Running(current_pid)
    /\ tick' = SWITCH_TICK
    /\ UNCHANGED <<length, state, bstack, current_pid, idle_i, waited>>

\* The boot task queues a task made by create_task and context_create.
sched_push_task ==
    /\ current_pid = Boot
    /\ length < MaxTasks
    /\ length' = length + 1
    /\ state' = [state EXCEPT ![length] = "RUNNING"]
    /\ bstack' = bstack \cup {length}
    /\ UNCHANGED <<current_pid, tick, idle_i, waited>>

\* The current task ends; it then spins until it is switched out.
syscall_exit ==
    /\ current_pid # Boot
    /\ Running(current_pid)
    /\ state' = [state EXCEPT ![current_pid] = "DEAD"]
    /\ tick' = SWITCH_TICK
    /\ UNCHANGED <<length, bstack, current_pid, idle_i, waited>>

\* Plausible error in sched_idle: the state of the task is not looked at.
Reapable_AnyState(p) == p \in bstack

\* The reaper frees the kernel stack of a task that is dead.
Reapable(p) == state[p] = "DEAD" /\ p \in bstack

\* Plausible error in sched_idle: the loop stops one task short.
sched_idle_OneShort ==
    /\ current_pid = Boot
    /\ length = MaxTasks
    /\ bstack' = IF Reapable(idle_i) THEN bstack \ {idle_i} ELSE bstack
    /\ idle_i' = IF idle_i + 1 < length - 1 THEN idle_i + 1 ELSE 0
    /\ UNCHANGED <<length, state, current_pid, tick, waited>>

\* One iteration of the loop of sched_idle, which the boot task calls for
\* ever once it has queued every task.
sched_idle ==
    /\ current_pid = Boot
    /\ length = MaxTasks
    /\ bstack' = IF Reapable(idle_i) THEN bstack \ {idle_i} ELSE bstack
    /\ idle_i' = IF idle_i + 1 < length THEN idle_i + 1 ELSE 0
    /\ UNCHANGED <<length, state, current_pid, tick, waited>>

SchedInit == sched_init

SchedNext ==
    \/ sched_yield
    \/ sched_force_yield
    \/ sched_push_task
    \/ syscall_exit
    \/ sched_idle

SchedSafety == SchedInit /\ [][SchedNext]_schedVars

(***************************************************************************)
(* The timer interrupt keeps coming, and the bodies of the boot task's two *)
(* loops are a few instructions in a slice of milliseconds: when the boot  *)
(* task is scheduled again and again it gets through them.                 *)
(***************************************************************************)
SchedFairness ==
    /\ WF_schedVars(sched_yield)
    /\ SF_schedVars(sched_push_task)
    /\ SF_schedVars(sched_idle)

SchedSpec == SchedSafety /\ SchedFairness

-----------------------------------------------------------------------------
\* Types: in particular current_pid always names a queued task, and the
\* forced value of tick never runs past SWITCH_TICK.
SchedTypeOK ==
    /\ length \in 1 .. MaxTasks
    /\ state \in [Pid -> {"NONE", "RUNNING", "DEAD"}]
    /\ bstack \subseteq Pid
    /\ current_pid \in Queued
    /\ tick \in 0 .. SWITCH_TICK
    /\ idle_i \in Queued
    /\ waited \in [Pid -> 0 .. MaxTasks]

\* Round robin: a task that is running is passed over by fewer context
\* switches than there are tasks, whatever the others do (exit, force a
\* yield) and although the queue grows while it waits.
BoundedBypass ==
    \A p \in Pid : Running(p) => waited[p] < length

\* The reaper never frees the kernel stack of a task that can still use it:
\* the running task, which takes the timer interrupt on it, or one that
\* the scheduler can resume.
StackOutlivesTask ==
    \A p \in Queued \ {Boot} :
        p \notin bstack => state[p] = "DEAD" /\ current_pid # p

\* Every running task is scheduled again, unless it ends.
NoStarvation ==
    \A p \in Pid : Running(p) ~> (current_pid = p \/ state[p] = "DEAD")

\* The kernel stack of every task that ends is freed at last.
DeadIsReaped ==
    \A p \in Pid : (state[p] = "DEAD") ~> (p \notin bstack)

=============================================================================
