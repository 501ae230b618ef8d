------------------------------- MODULE Kernel -------------------------------
(***************************************************************************)
(* The kernel as the processor runs it: one processor, the interrupt flag, *)
(* the locks of navy/lock.h, the timer interrupt, and the boot task and    *)
(* the two tasks of pkg/ipc-test.  Every C function that takes a lock is   *)
(* the sequence of its instructions that matter to the others, and calls   *)
(* are expanded in place, so that it shows where each interrupt can land:  *)
(* LOCK turns interrupts off, and every UNLOCK, also one inside a region   *)
(* that another LOCK protects, turns them on again.                        *)
(*                                                                         *)
(* What the instructions do to tasks are the actions of module Sched.      *)
(***************************************************************************)
EXTENDS Sched, Sequences

CONSTANTS
    Timings         \* when the timer may fire, see Timing

(***************************************************************************)
(* "any": wherever interrupts are on.  "queued": once both tasks are       *)
(* queued.  "outside": where no lock is held.  "quiet": where no lock is   *)
(* held, once both tasks are queued.                                       *)
(***************************************************************************)
Timing == {"any", "queued", "outside", "quiet"}

ASSUME KernelAssumption == MaxTasks = 3 /\ Timings \subseteq Timing

VARIABLES
    intr,           \* the interrupt flag
    locks,          \* the context that holds each lock
    todo,           \* what each task has left to execute
    isr,            \* what the interrupt handler has left; empty outside it
    scanning,       \* contexts between the search of pmm_alloc and its mark
    mail,           \* messages in the mailbox of the receiver
    timing          \* when the timer may fire, in this behaviour

vars == <<schedVars, intr, locks, todo, isr, scanning, mail, timing>>

-----------------------------------------------------------------------------
LockName == {"elfloader", "scheduler", "ctx", "liballoc", "vmm", "pmm"}

Isr == -1           \* the interrupt handler, as the holder of a lock
Nobody == -2

Sender == 1
Receiver == 2

Lock(l) == <<[op |-> "lock", arg |-> l]>>
Unlock(l) == <<[op |-> "unlock", arg |-> l]>>
Do(x) == <<[op |-> x, arg |-> ""]>>
Branch(s, t) == <<[op |-> "branch", arg |-> <<s, t>>]>>
Maybe(s) == Branch(s, <<>>)

\* kernel/hw/x86_64/pmm.c
pmm_set_used == Lock("pmm") \o Do("mark") \o Unlock("pmm")
pmm_alloc == Do("scan") \o pmm_set_used
pmm_free == Lock("pmm") \o Unlock("pmm")

\* kernel/hw/x86_64/vmm.c: a page table is allocated where one is missing.
vmm_flush == Lock("vmm") \o Unlock("vmm")
vmm_get_pml_alloc == Maybe(pmm_alloc)
vmm_map_page ==
    Lock("vmm") \o vmm_get_pml_alloc \o vmm_get_pml_alloc \o vmm_get_pml_alloc \o Unlock("vmm")
vmm_map_range == Maybe(vmm_map_page) \o vmm_flush
vmm_switch_space == Lock("vmm") \o Unlock("vmm")
vmm_unmap_page == Lock("vmm") \o Unlock("vmm")
vmm_create_space == Lock("vmm") \o pmm_alloc \o Unlock("vmm")

\* lib/liballoc: the heap grows and shrinks by blocks of pages.
liballoc_alloc == pmm_alloc \o vmm_map_range
liballoc_free == vmm_unmap_page \o pmm_free
malloc == Lock("liballoc") \o Maybe(liballoc_alloc) \o Unlock("liballoc")
free == Lock("liballoc") \o Maybe(liballoc_free) \o Unlock("liballoc")
\* Plausible error in realloc: malloc is called with the lock held.
realloc_LockedMalloc == Branch(malloc, Lock("liballoc") \o malloc \o Unlock("liballoc") \o free)
realloc == Branch(malloc, Lock("liballoc") \o Unlock("liballoc") \o malloc \o free)

\* lib/navy/vec.c and vec.h
vec_push(store) == Maybe(realloc) \o Do(store)

\* kernel/sched.c, kernel/task.c, kernel/hw/x86_64/ctx.c, kernel/elfloader.c
push_task == Lock("scheduler") \o vec_push("push") \o Unlock("scheduler")
context_create == Lock("ctx") \o malloc \o Unlock("ctx")
create_task == malloc \o pmm_alloc \o vmm_map_range
load_elf_module ==
    Lock("elfloader") \o vmm_create_space \o Maybe(pmm_alloc \o vmm_map_range)
        \o create_task \o context_create \o Unlock("elfloader")
idle == Lock("scheduler") \o Do("reap") \o Unlock("scheduler") \o Do("idle")

\* Plausible error in bootstrap: a task runs before the next is loaded.
bootstrap_PushEarly ==
    load_elf_module \o push_task \o load_elf_module \o push_task \o Do("idle")

bootstrap ==
    load_elf_module \o load_elf_module \o push_task \o push_task \o Do("idle")

\* kernel/syscall.c, called by pkg/ipc-test/main.c
syscall(body) == Do("syscall") \o body \o Do("sysret")
create_shared_mem == pmm_alloc \o malloc \o vmm_map_range \o vmm_map_range
ipc_send == Do("lookup")
ipc_rcv_sync == Do("wait") \o Do("pop") \o vmm_map_range \o vmm_map_range
main(p) ==
    (IF p = Sender THEN syscall(create_shared_mem) \o syscall(ipc_send)
                   ELSE syscall(ipc_rcv_sync)) \o syscall(Do("exit"))

\* kernel/hw/x86_64/interrupt_handler.c
interrupts_handler == Lock("scheduler") \o Do("yield") \o Unlock("scheduler") \o Do("iret")
context_switch == Lock("ctx") \o Unlock("ctx")

-----------------------------------------------------------------------------
Init ==
    /\ sched_init
    /\ intr = TRUE
    /\ locks = [l \in LockName |-> Nobody]
    /\ todo = [p \in Pid |-> IF p = Boot THEN bootstrap ELSE main(p)]
    /\ isr = <<>>
    /\ scanning = {}
    /\ mail = 0
    /\ timing \in Timings

\* The processor runs the handler if it is in one, else the current task.
Context == IF isr # <<>> THEN Isr ELSE current_pid
Code == IF isr # <<>> THEN isr ELSE todo[current_pid]

At(op) == Code # <<>> /\ Head(Code).op = op

GoOn(code) ==
    IF isr # <<>> THEN isr' = code /\ UNCHANGED todo
                  ELSE todo' = [todo EXCEPT ![current_pid] = code] /\ UNCHANGED isr

Acquire ==
    /\ At("lock")
    /\ locks[Head(Code).arg] = Nobody
    /\ locks' = [locks EXCEPT ![Head(Code).arg] = Context]
    /\ intr' = FALSE
    /\ GoOn(Tail(Code))
    /\ UNCHANGED <<schedVars, scanning, mail, timing>>

\* LOCK finds the lock held: it turns interrupts off and tries for ever.
Spin ==
    /\ At("lock")
    /\ locks[Head(Code).arg] # Nobody
    /\ intr' = FALSE
    /\ UNCHANGED <<schedVars, locks, todo, isr, scanning, mail, timing>>

\* UNLOCK turns interrupts on, whatever other lock the context holds.
Release ==
    /\ At("unlock")
    /\ locks' = [locks EXCEPT ![Head(Code).arg] = Nobody]
    /\ intr' = TRUE
    /\ GoOn(Tail(Code))
    /\ UNCHANGED <<schedVars, scanning, mail, timing>>

Choose ==
    /\ At("branch")
    /\ \E k \in 1 .. 2 : GoOn(Head(Code).arg[k] \o Tail(Code))
    /\ UNCHANGED <<schedVars, intr, locks, scanning, mail, timing>>

Scan ==
    /\ At("scan")
    /\ scanning' = scanning \cup {Context}
    /\ GoOn(Tail(Code))
    /\ UNCHANGED <<schedVars, intr, locks, mail, timing>>

Mark ==
    /\ At("mark")
    /\ scanning' = scanning \ {Context}
    /\ GoOn(Tail(Code))
    /\ UNCHANGED <<schedVars, intr, locks, mail, timing>>

Push ==
    /\ At("push")
    /\ sched_push_task
    /\ GoOn(Tail(Code))
    /\ UNCHANGED <<intr, locks, scanning, mail, timing>>

\* The body of the loop of sched_idle: free the stack and the mailbox.
Reap ==
    /\ At("reap")
    /\ IF Reapable(idle_i)
          THEN /\ GoOn(free \o Maybe(free) \o Do("reaped") \o Tail(Code))
               /\ UNCHANGED schedVars
          ELSE /\ GoOn(Tail(Code))
               /\ sched_idle
    /\ UNCHANGED <<intr, locks, scanning, mail, timing>>

Reaped ==
    /\ At("reaped")
    /\ sched_idle
    /\ GoOn(Tail(Code))
    /\ UNCHANGED <<intr, locks, scanning, mail, timing>>

Idle ==
    /\ At("idle")
    /\ GoOn(idle)
    /\ UNCHANGED <<schedVars, intr, locks, scanning, mail, timing>>

\* The entry of a system call masks interrupts (MSR_SYSCALL_FLAG_MASK); the
\* exit restores the flags of the task.
Enter ==
    /\ At("syscall")
    /\ intr' = FALSE
    /\ GoOn(Tail(Code))
    /\ UNCHANGED <<schedVars, locks, scanning, mail, timing>>

Sysret ==
    /\ At("sysret")
    /\ intr' = TRUE
    /\ GoOn(Tail(Code))
    /\ UNCHANGED <<schedVars, locks, scanning, mail, timing>>

\* syscall_exit() never returns: the task spins with interrupts on.
Exit ==
    /\ At("exit")
    /\ syscall_exit
    /\ intr' = TRUE
    /\ GoOn(<<>>)
    /\ UNCHANGED <<locks, scanning, mail, timing>>

\* syscall_ipc_send() to the receiver.  sched_get_by_pid() lets the pid
\* tasks.length pass and reads past the end of the queue: the kernel panics,
\* or the message is lost.
Lookup ==
    /\ At("lookup")
    /\ IF Running(Receiver)
          THEN GoOn(vec_push("deliver") \o Tail(Code))
          ELSE \/ GoOn(Tail(Code))
               \/ length = Receiver /\ GoOn(Do("panic"))
    /\ UNCHANGED <<schedVars, intr, locks, scanning, mail, timing>>

Deliver ==
    /\ At("deliver")
    /\ mail' = mail + 1
    /\ GoOn(Tail(Code))
    /\ UNCHANGED <<schedVars, intr, locks, scanning, timing>>

\* Plausible error in sched_force_yield: interrupts are not turned on.
Wait_NoSti ==
    /\ At("wait")
    /\ IF mail = 0 THEN sched_force_yield /\ UNCHANGED <<intr, todo, isr>>
                   ELSE GoOn(Tail(Code)) /\ UNCHANGED <<schedVars, intr>>
    /\ UNCHANGED <<locks, scanning, mail, timing>>

\* syscall_ipc_rcv_sync() yields until its mailbox is not empty.
Wait ==
    /\ At("wait")
    /\ IF mail = 0 THEN sched_force_yield /\ intr' = TRUE /\ UNCHANGED <<todo, isr>>
                   ELSE GoOn(Tail(Code)) /\ UNCHANGED <<schedVars, intr>>
    /\ UNCHANGED <<locks, scanning, mail, timing>>

Pop ==
    /\ At("pop")
    /\ mail' = mail - 1
    /\ GoOn(Tail(Code))
    /\ UNCHANGED <<schedVars, intr, locks, scanning, timing>>

Panic ==
    /\ At("panic")
    /\ intr' = FALSE
    /\ UNCHANGED <<schedVars, locks, todo, isr, scanning, mail, timing>>

\* sched_yield(): the registers of the next task replace those of the
\* current one in the frame of the interrupt.
Yield ==
    /\ At("yield")
    /\ sched_yield
    /\ GoOn((IF tick + 1 >= SWITCH_TICK THEN context_switch \o vmm_switch_space ELSE <<>>)
                \o Tail(Code))
    /\ UNCHANGED <<intr, locks, scanning, mail, timing>>

Iret ==
    /\ At("iret")
    /\ intr' = TRUE
    /\ GoOn(<<>>)
    /\ UNCHANGED <<schedVars, locks, scanning, mail, timing>>

\* The timer interrupts the current task; until its handler has told the
\* interrupt controller, it does not interrupt again.
Tick ==
    /\ intr /\ isr = <<>>
    /\ timing \in {"queued", "quiet"} => length = MaxTasks
    /\ timing \in {"outside", "quiet"} => \A l \in LockName : locks[l] = Nobody
    /\ intr' = FALSE
    /\ isr' = interrupts_handler
    /\ UNCHANGED <<schedVars, locks, todo, scanning, mail, timing>>

Handler == isr # <<>> /\ (Acquire \/ Spin \/ Release \/ Yield \/ Iret)

Task(p) ==
    /\ isr = <<>> /\ current_pid = p
    /\ \/ Acquire \/ Spin \/ Release \/ Choose \/ Scan \/ Mark
       \/ Push \/ Reap \/ Reaped \/ Idle
       \/ Enter \/ Sysret \/ Exit \/ Lookup \/ Deliver \/ Wait \/ Pop \/ Panic

Next == Tick \/ Handler \/ \E p \in Pid : Task(p)

(***************************************************************************)
(* The timer keeps firing, and the interrupt controller keeps its request  *)
(* until interrupts are on; the handler runs to its end; and a task gets   *)
(* on with its code when it is scheduled again and again: a slice is eight *)
(* milliseconds long.                                                      *)
(***************************************************************************)
Fairness ==
    /\ SF_vars(Tick)
    /\ WF_vars(Handler)
    /\ \A p \in Pid : SF_vars(Task(p))

Spec == Init /\ [][Next]_vars /\ Fairness

-----------------------------------------------------------------------------
Held(c) == {l \in LockName : locks[l] = c}

\* pmm_alloc searches without a lock, and yet no two contexts are ever
\* between a search and the mark that follows it: the same page is never
\* found twice.
ScanExclusive == \A c, d \in scanning : c = d

\* Locks are taken in one order, by tasks and by the handler: no two
\* contexts wait for each other, and none waits for itself.
Rank == [elfloader |-> 1, scheduler |-> 2, ctx |-> 3, liballoc |-> 4, vmm |-> 5, pmm |-> 6]

LockOrder ==
    At("lock") => \A l \in Held(Context) : Rank[l] < Rank[Head(Code).arg]

\* The program of pkg/ipc-test: the message reaches the receiver, which then
\* ends.
Delivered == <>(state[Receiver] = "DEAD")

\* The same, when the timer spares the locks and the boot: both tasks end,
\* and the kernel takes their stacks back.
TestEnds == timing = "quiet" => <>[](bstack = {} /\ state[Sender] = "DEAD" /\ state[Receiver] = "DEAD")
=============================================================================
