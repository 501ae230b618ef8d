------------------------------ MODULE IrqFrames ------------------------------
(***************************************************************************)
(* The registers behind the scheduler: what an interrupt pushes, on which  *)
(* stack, what context_save and context_switch do with it, and what iretq  *)
(* pops (kernel/hw/x86_64/idt.s, interrupt_handler.c, ctx.c, gdt.c and     *)
(* syscall.s), under the operations of module Sched.                       *)
(*                                                                         *)
(* An interrupt from user mode starts on the one stack of tss.rsp[0]; one  *)
(* from kernel mode goes on where the stack pointer is: on the boot's      *)
(* stack, on the kernel stack of a system call, on the stack of the        *)
(* handler that it cuts, or, at the end of a system call, on the stack of  *)
(* the program.  The handler signals the end of the interrupt with the     *)
(* interrupt flag set, so that the next one can cut its epilogue.          *)
(***************************************************************************)
EXTENDS Sched

CONSTANTS
    MaxDepth,       \* frames on one stack: bounds how deep interrupts nest
    Dangers         \* dangerous switches that happen, see Danger

\* A switch away from a task in the epilogue of an interrupt that cut its
\* program, and one at the very end of its system call.
Danger == {"epilogue", "exit"}

ASSUME FramesAssumption == MaxDepth \in Nat \ {0} /\ Dangers \subseteq Danger

VARIABLES
    cpu,            \* the registers of the processor
    mem,            \* the frame in each place of each stack
    regs,           \* context.regs of each task
    gs,             \* the task whose context GS_BASE and KERN_GS_BASE name
    cr3,            \* the task whose address space is in use
    intr,           \* the interrupt flag
    inService,      \* the controller waits for the end of the timer's interrupt
    left            \* history: the registers each program was last cut with

cpuVars == <<cpu, mem, regs, gs, cr3, intr, inService, left>>
vars == <<schedVars, cpuVars>>

-----------------------------------------------------------------------------
\* Registers, by what they amount to: the code that rip points into, the
\* program it belongs to, and how many frames rsp has below it on its stack.
Program == {"user", "kernel", "exit"}       \* of a task, or of the boot
Handler == {"timer", "device"}              \* interrupts_handler()
Code == Program \cup Handler \cup {"epilogue", "fault"}

IntStack == <<"tss", Boot>>                 \* tss.rsp[0]
BootStack == <<"boot", Boot>>
KernelStack(p) == <<"kernel", p>>           \* context.syscall_kernel_stack
UserStack(p) == <<"user", p>>
Virtual == UserStack(Boot)                  \* USER_STACK_BASE, in any space

Stack == {IntStack, BootStack} \cup {KernelStack(p) : p \in Pid} \cup {UserStack(p) : p \in Pid}

Regs(at, of, stack, depth) == [at |-> at, of |-> of, stack |-> stack, depth |-> depth]

NoFrame == Regs("fault", Boot, BootStack, 0)

\* The memory that a stack pointer means in the address space in use.
Physical(stack) == IF stack = Virtual THEN UserStack(cr3) ELSE stack

Top(stack, depth) == <<Physical(stack), depth>>

\* context_create(): a task starts in user mode on its own stack.
context_create(p) == Regs("user", p, Virtual, 0)

FramesInit ==
    /\ sched_init
    /\ cpu = Regs("kernel", Boot, BootStack, 0)
    /\ mem = [slot \in Stack \X (1 .. MaxDepth) |-> NoFrame]
    /\ regs = [p \in Pid |-> IF p = Boot THEN NoFrame ELSE context_create(p)]
    /\ gs = Boot
    /\ cr3 = Boot
    /\ intr = TRUE
    /\ inService = FALSE
    /\ left = regs

-----------------------------------------------------------------------------
\* The stack that only the program p, and the handlers that cut it, use.
OwnStack(p) == IF p = Boot THEN BootStack ELSE KernelStack(p)

\* The dangers of a switch that an interrupt brings about now: the stack that
\* the task or the handler has to go on with is not the task's own.
DangersNow ==
    IF tick + 1 < SWITCH_TICK \/ \A p \in Queued : Running(p) => p = current_pid THEN {}
    ELSE IF cpu.at = "epilogue" /\ cpu.stack # OwnStack(current_pid) THEN {"epilogue"}
    ELSE IF cpu.at = "exit" THEN {"exit"}
    ELSE {}

\* The processor takes an interrupt and __interrupt_common saves the rest.
Interrupt(irq) ==
    /\ intr
    /\ ~inService
    /\ cpu.at \in Program \cup {"epilogue"}
    /\ irq = "timer" => DangersNow \subseteq Dangers
    /\ LET stack == IF cpu.at = "user" THEN IntStack ELSE cpu.stack
           depth == IF cpu.at = "user" THEN 1 ELSE cpu.depth + 1
       IN  /\ depth <= MaxDepth
           /\ mem' = [mem EXCEPT ![Top(stack, depth)] = cpu]
           /\ cpu' = Regs(irq, cpu.of, stack, depth)
    /\ intr' = FALSE
    /\ inService' = TRUE
    /\ left' = IF cpu.at \in Program THEN [left EXCEPT ![cpu.of] = cpu] ELSE left
    /\ UNCHANGED <<schedVars, regs, gs, cr3>>

\* Plausible error in sched_yield: the registers are not saved.
context_save_Nothing(p, frame) == regs

context_save(p, frame) == [regs EXCEPT ![p] = frame]

\* Plausible error in context_switch: the base of GS is left to the last task.
context_switch_NoGs(p) ==
    /\ gs' = gs
    /\ mem' = [mem EXCEPT ![Top(cpu.stack, cpu.depth)] = regs'[p]]

\* The registers of p replace those in the frame of the interrupt.
context_switch(p) ==
    /\ gs' = p
    /\ mem' = [mem EXCEPT ![Top(cpu.stack, cpu.depth)] = regs'[p]]

\* The timer's interrupt.  sched_yield() takes and frees locks, the last of
\* which sets the interrupt flag: nothing cuts it until the controller is
\* told, and then anything may.
TimerHandler ==
    /\ cpu.at = "timer"
    /\ sched_yield
    /\ IF tick + 1 >= SWITCH_TICK
          THEN LET frame == mem[Top(cpu.stack, cpu.depth)] IN
               /\ regs' = context_save(current_pid, frame)
               /\ context_switch(current_pid')
               /\ cr3' = current_pid'
          ELSE UNCHANGED <<mem, regs, gs, cr3>>
    /\ cpu' = [cpu EXCEPT !.at = "epilogue"]
    /\ intr' = TRUE
    /\ inService' = FALSE
    /\ UNCHANGED left

\* Any other interrupt: the controller is told, and that is all.
DeviceHandler ==
    /\ cpu.at = "device"
    /\ cpu' = [cpu EXCEPT !.at = "epilogue"]
    /\ inService' = FALSE
    /\ UNCHANGED <<schedVars, mem, regs, gs, cr3, intr, left>>

\* The end of __interrupt_common.  What is below the stack pointer is lost.
Iretq ==
    /\ cpu.at = "epilogue"
    /\ cpu' = mem[Top(cpu.stack, cpu.depth)]
    /\ mem' = [mem EXCEPT ![Top(cpu.stack, cpu.depth)] = NoFrame]
    /\ intr' = TRUE
    /\ UNCHANGED <<schedVars, regs, gs, cr3, inService, left>>

-----------------------------------------------------------------------------
\* The boot's own code.
PushTask ==
    /\ cpu.at = "kernel" /\ cpu.of = Boot
    /\ sched_push_task
    /\ UNCHANGED cpuVars

Idle ==
    /\ cpu.at = "kernel" /\ cpu.of = Boot
    /\ sched_idle
    /\ UNCHANGED cpuVars

\* syscall_handle: whatever the task has on its kernel stack, the entry
\* starts at the top of it.  MSR_SYSCALL_FLAG_MASK clears the flag.
Syscall ==
    /\ cpu.at = "user"
    /\ mem' = [mem EXCEPT ![<<KernelStack(gs), 1>>] = cpu]
    /\ cpu' = Regs("kernel", cpu.of, KernelStack(gs), 1)
    /\ intr' = FALSE
    /\ UNCHANGED <<schedVars, regs, gs, cr3, inService, left>>

InSyscall == cpu.at = "kernel" /\ cpu.of # Boot /\ state[cpu.of] = "RUNNING"

\* An UNLOCK in a system call sets the flag.
Unlock ==
    /\ InSyscall
    /\ intr' = TRUE
    /\ UNCHANGED <<schedVars, cpu, mem, regs, gs, cr3, inService, left>>

\* syscall_ipc_rcv_sync() finds its mailbox empty.
ForceYield ==
    /\ InSyscall
    /\ sched_force_yield
    /\ intr' = TRUE
    /\ UNCHANGED <<cpu, mem, regs, gs, cr3, inService, left>>

\* syscall_exit() spins with the flag set.
Exit ==
    /\ InSyscall
    /\ syscall_exit
    /\ intr' = TRUE
    /\ UNCHANGED <<cpu, mem, regs, gs, cr3, inService, left>>

\* The end of syscall_handle: the registers are popped, and rsp is the
\* program's again; the flag is what the system call left it.
PopAll ==
    /\ InSyscall
    /\ cpu' = [mem[Top(cpu.stack, cpu.depth)] EXCEPT !.at = "exit"]
    /\ mem' = [mem EXCEPT ![Top(cpu.stack, cpu.depth)] = NoFrame]
    /\ UNCHANGED <<schedVars, regs, gs, cr3, intr, inService, left>>

Sysret ==
    /\ cpu.at = "exit"
    /\ cpu' = [cpu EXCEPT !.at = "user"]
    /\ intr' = TRUE
    /\ UNCHANGED <<schedVars, mem, regs, gs, cr3, inService, left>>

FramesNext ==
    \/ \E irq \in Handler : Interrupt(irq)
    \/ TimerHandler \/ DeviceHandler \/ Iretq
    \/ PushTask \/ Idle
    \/ Syscall \/ Unlock \/ ForceYield \/ Exit \/ PopAll \/ Sysret

FramesSpec == FramesInit /\ [][FramesNext]_vars

-----------------------------------------------------------------------------
\* A program that is resumed has the registers it was cut with, whatever ran
\* in between and on whatever stack.
ResumesOwn ==
    [][Iretq =>
          cpu'.at = "epilogue" \/ cpu' = left[current_pid]]_vars

\* A system call starts on the kernel stack of its own task, and nothing
\* that is still needed lies on it: the entry always starts at the top.
EntersOnFreeStack ==
    [][Syscall =>
          /\ cpu'.stack = KernelStack(current_pid)
          /\ \A d \in 1 .. MaxDepth : mem[<<cpu'.stack, d>>] = NoFrame]_vars

\* When the reaper has freed the kernel stack of a task, neither the
\* processor nor a task that can still run has a frame on it; a handler can
\* be there after the switch away from the task, but not when the boot runs.
FreedStackUnused ==
    \A p \in Queued \ {Boot} : p \notin bstack =>
        /\ cpu.stack # KernelStack(p)
        /\ \A q \in Queued \ {p, current_pid} : Running(q) => regs[q].stack # KernelStack(p)
=============================================================================
