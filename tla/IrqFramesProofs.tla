-------------------------- MODULE IrqFramesProofs --------------------------
(***************************************************************************)
(* What is proved of the registers behind the scheduler, for any number of *)
(* tasks, any slice and any depth of nesting, when no dangerous switch     *)
(* happens (Dangers = {}): whatever runs in between and on whatever stack, *)
(* a program goes on with its own registers, a system call starts on an    *)
(* empty kernel stack of its own task, and nothing is left on a kernel     *)
(* stack that the reaper has freed.                                        *)
(*                                                                         *)
(* The argument is an account of every frame.  Each task keeps a chain of  *)
(* frames on its own stack, and a handler that switched away from a task   *)
(* goes on above that task's chain, on a stack that it borrows, until it   *)
(* returns to the registers of the task that is now current.               *)
(***************************************************************************)
EXTENDS IrqFrames, SchedProofs

\* The registers of a program: in user mode, in a system call, at its end.
UserRegs(q) == context_create(q)
KernelDepth(q) == IF q = Boot THEN 0 ELSE 1
KernelRegs(q) == Regs("kernel", q, OwnStack(q), KernelDepth(q))
ExitRegs(q) == Regs("exit", q, Virtual, 0)

ProgramRegs(q) == IF q = Boot THEN {KernelRegs(q)}
                  ELSE {UserRegs(q), KernelRegs(q), ExitRegs(q)}

AllRegs == [at : Code, of : Pid, stack : Stack, depth : 0 .. MaxDepth]

FramesTypeOK ==
    /\ cpu \in AllRegs
    /\ mem \in [Stack \X (1 .. MaxDepth) -> AllRegs]
    /\ regs \in [Pid -> AllRegs]
    /\ left \in [Pid -> AllRegs]
    /\ cpu.at # "fault"
    /\ gs = current_pid
    /\ cr3 = current_pid

\* The processor runs a handler, or the end of one, on a stack that is not
\* the current task's own.
InHandler == cpu.at \in Handler \cup {"epilogue"}
Borrowing == InHandler /\ cpu.stack # OwnStack(current_pid)

\* The frame that leads back from the borrowed stack.
Base == IF cpu.stack \in {IntStack, Virtual} THEN 1 ELSE regs[cpu.of].depth + 1
Pending == mem[Top(cpu.stack, Base)]

\* The registers with which each task goes on, on its own stack or in user
\* mode, and how much of its own stack its frames take.
Own(q) == IF q # current_pid THEN regs[q] ELSE IF Borrowing THEN Pending ELSE cpu
OwnTop(q) == IF Own(q).stack = OwnStack(q) THEN Own(q).depth ELSE 0

\* What these frames are: the user's registers, pushed by syscall_handle,
\* those of the system call, and those of the epilogues cut in it.
OwnFrame(q, d) ==
    IF d <= KernelDepth(q) THEN UserRegs(q)
    ELSE IF d = KernelDepth(q) + 1 THEN KernelRegs(q)
    ELSE Regs("epilogue", q, OwnStack(q), d - 1)

OwnRegsOK(q) ==
    /\ \/ Own(q) \in ProgramRegs(q)
       \/ /\ Own(q).at \in Handler \cup {"epilogue"}
          /\ Own(q).of = q
          /\ Own(q).stack = OwnStack(q)
          /\ Own(q).depth > KernelDepth(q)
          /\ left[q] = KernelRegs(q)
    /\ q # current_pid \/ Borrowing =>
          /\ Own(q).at \notin Handler
          /\ Own(q).at \in Program => left[q] = Own(q)
    /\ q # current_pid => Own(q).at # "exit"

OwnFramesOK(q) ==
    \A d \in 1 .. MaxDepth : d <= OwnTop(q) => mem[<<OwnStack(q), d>>] = OwnFrame(q, d)

\* Above them there is nothing, but for what borrows the stack.
FreeOK(q) ==
    \A d \in 1 .. MaxDepth :
        d > OwnTop(q) /\ (cpu.stack = OwnStack(q) => d > cpu.depth)
            => mem[<<OwnStack(q), d>>] = NoFrame

OwnOK(q) == OwnRegsOK(q) /\ OwnFramesOK(q) /\ FreeOK(q)

\* A handler borrows the stack of the task that it switched away from, above
\* what that task keeps there, or the stack of the program that it cut at
\* the end of a system call; all it has above its base is cut epilogues.
BorrowOK ==
    Borrowing =>
        /\ Base \in 1 .. cpu.depth
        /\ cpu.stack = Virtual =>
              cpu.of = current_pid /\ Own(current_pid) = ExitRegs(current_pid)
        /\ cpu.stack \notin {IntStack, Virtual} =>
              /\ cpu.of # current_pid
              /\ cpu.stack = OwnStack(cpu.of)
              /\ regs[cpu.of].stack = OwnStack(cpu.of)
        /\ \A d \in 1 .. MaxDepth : Base < d /\ d <= cpu.depth =>
              mem[Top(cpu.stack, d)] = Regs("epilogue", cpu.of, cpu.stack, d - 1)
        /\ cpu.at \in Handler /\ cpu.depth = Base =>
              \/ /\ cpu.stack = IntStack
                 /\ cpu.of = current_pid
                 /\ Own(current_pid) = UserRegs(current_pid)
              \/ cpu.stack = Virtual

\* The timer's handler is only there when its switch is no danger.
TimerOK ==
    cpu.at = "timer" =>
        LET f == mem[Top(cpu.stack, cpu.depth)] IN
        \/ tick + 1 < SWITCH_TICK
        \/ \A p \in Queued : Running(p) => p = current_pid
        \/ f.at # "exit" /\ (f.at = "epilogue" => f.stack = OwnStack(current_pid))

\* The kernel stack that the processor is on has not been freed.
LiveOK == \A p \in Pid \ {Boot} : cpu.stack = KernelStack(p) => p \in bstack

FramesInv ==
    /\ FramesTypeOK
    /\ \A q \in Pid : OwnOK(q)
    /\ BorrowOK
    /\ TimerOK
    /\ LiveOK

-----------------------------------------------------------------------------
\* The stacks are different stacks.
LEMMA StackFacts ==
    /\ IntStack \in Stack /\ Virtual \in Stack /\ IntStack # Virtual
    /\ \A q \in Pid : /\ OwnStack(q) \in Stack /\ OwnStack(q) # IntStack /\ OwnStack(q) # Virtual
                      /\ UserStack(q) \in Stack /\ UserStack(q) # IntStack
                      /\ KernelStack(q) \in Stack
                      /\ KernelStack(q) # IntStack /\ KernelStack(q) # Virtual
                      /\ KernelStack(q) # OwnStack(Boot)
                      /\ q # Boot => OwnStack(q) = KernelStack(q)
    /\ \A q, r \in Pid : /\ OwnStack(q) = OwnStack(r) => q = r
                         /\ KernelStack(q) = KernelStack(r) => q = r
                         /\ UserStack(q) # OwnStack(r)
    /\ OwnStack(Boot) = BootStack
BY SchedAssumption DEF IntStack, Virtual, Stack, OwnStack, UserStack, KernelStack, BootStack, Boot, Pid

\* The memory that a stack means: virtual addresses are the current task's.
Phys(s, c) == IF s = Virtual THEN UserStack(c) ELSE s

LEMMA PhysFacts ==
    ASSUME NEW c \in Pid
    PROVE  /\ Phys(IntStack, c) = IntStack
           /\ Phys(Virtual, c) = UserStack(c)
           /\ \A q \in Pid : Phys(OwnStack(q), c) = OwnStack(q)
           /\ \A s \in Stack : Phys(s, c) \in Stack
           /\ \A q \in Pid, s \in Stack : Phys(s, c) = OwnStack(q) <=> s = OwnStack(q)
BY StackFacts DEF Phys

LEMMA RegsFields ==
    ASSUME NEW a, NEW o, NEW s, NEW d
    PROVE  /\ Regs(a, o, s, d).at = a
           /\ Regs(a, o, s, d).of = o
           /\ Regs(a, o, s, d).stack = s
           /\ Regs(a, o, s, d).depth = d
BY DEF Regs

LEMMA RegsType ==
    ASSUME NEW a \in Code, NEW o \in Pid, NEW s \in Stack, NEW d \in 0 .. MaxDepth
    PROVE  Regs(a, o, s, d) \in AllRegs
BY DEF Regs, AllRegs

LEMMA ProgramFacts ==
    /\ \A q \in Pid :
         /\ UserRegs(q) = Regs("user", q, Virtual, 0)
         /\ KernelRegs(q) = Regs("kernel", q, OwnStack(q), KernelDepth(q))
         /\ ExitRegs(q) = Regs("exit", q, Virtual, 0)
         /\ UserRegs(q) \in AllRegs /\ KernelRegs(q) \in AllRegs /\ ExitRegs(q) \in AllRegs
         /\ KernelDepth(q) \in 0 .. 1
         /\ q # Boot => KernelDepth(q) = 1
    /\ KernelDepth(Boot) = 0
    /\ NoFrame \in AllRegs
<1>1. MaxDepth \in Nat /\ MaxDepth >= 1
  BY FramesAssumption
<1>2. Boot \in Pid
  BY SchedAssumption DEF Boot, Pid
<1>3. {"user", "kernel", "exit", "fault"} \subseteq Code
  BY DEF Code, Program
<1>4. ASSUME NEW q \in Pid
      PROVE  /\ UserRegs(q) = Regs("user", q, Virtual, 0)
             /\ KernelRegs(q) = Regs("kernel", q, OwnStack(q), KernelDepth(q))
             /\ ExitRegs(q) = Regs("exit", q, Virtual, 0)
             /\ KernelDepth(q) \in 0 .. 1
             /\ q # Boot => KernelDepth(q) = 1
  BY DEF UserRegs, context_create, KernelRegs, ExitRegs, KernelDepth
<1>5. KernelDepth(Boot) = 0
  BY DEF KernelDepth
<1>6. NoFrame \in AllRegs
  BY <1>1, <1>2, <1>3, StackFacts, RegsType DEF NoFrame
<1>7. ASSUME NEW q \in Pid
      PROVE  UserRegs(q) \in AllRegs /\ KernelRegs(q) \in AllRegs /\ ExitRegs(q) \in AllRegs
  <2>1. KernelDepth(q) \in 0 .. MaxDepth /\ 0 \in 0 .. MaxDepth
    BY <1>1, <1>4
  <2>2. OwnStack(q) \in Stack /\ Virtual \in Stack
    BY StackFacts
  <2>3. "user" \in Code /\ "kernel" \in Code /\ "exit" \in Code
    BY <1>3
  <2> QED  BY <1>4, <2>1, <2>2, <2>3, RegsType
<1> QED  BY <1>4, <1>5, <1>6, <1>7

-----------------------------------------------------------------------------
\* Where the processor is, in each of the places it can be.
LEMMA CpuFacts ==
    ASSUME FramesInv, SchedInv
    PROVE  /\ current_pid \in Pid /\ Boot \in Pid /\ Queued \subseteq Pid
           /\ MaxDepth \in Nat /\ MaxDepth >= 1
           /\ cpu \in AllRegs
           /\ cpu.at \in Code /\ cpu.of \in Pid /\ cpu.stack \in Stack /\ cpu.depth \in 0 .. MaxDepth
           /\ cpu = Regs(cpu.at, cpu.of, cpu.stack, cpu.depth)
           /\ InHandler <=> cpu.at \notin Program
           /\ cpu.at = "user" => current_pid # Boot /\ cpu = UserRegs(current_pid)
           /\ cpu.at = "kernel" => cpu = KernelRegs(current_pid)
           /\ cpu.at = "exit" => current_pid # Boot /\ cpu = ExitRegs(current_pid)
           /\ ~InHandler => ~Borrowing
           /\ \A s, d : Top(s, d) = <<Phys(s, current_pid), d>>
           /\ \A q \in Pid : OwnOK(q) /\ Own(q) \in AllRegs /\ OwnTop(q) \in 0 .. MaxDepth
<1>1. current_pid \in Pid /\ Boot \in Pid /\ Queued \subseteq Pid
  BY SchedAssumption DEF SchedInv, SchedTypeOK, Queued, Pid, Boot
<1>2. MaxDepth \in Nat /\ MaxDepth >= 1
  BY FramesAssumption
<1>3. cpu \in AllRegs
  BY DEF FramesInv, FramesTypeOK
<1>4. cpu.at \in Code /\ cpu.of \in Pid /\ cpu.stack \in Stack /\ cpu.depth \in 0 .. MaxDepth
  BY <1>3 DEF AllRegs
<1>5. cpu = Regs(cpu.at, cpu.of, cpu.stack, cpu.depth)
  BY <1>3 DEF AllRegs, Regs
<1>6. InHandler <=> cpu.at \notin Program
  BY <1>4 DEF InHandler, Code, Program, Handler, FramesInv, FramesTypeOK
<1>7. ~InHandler => ~Borrowing
  BY DEF Borrowing
<1>8. OwnOK(current_pid)
  BY <1>1 DEF FramesInv
<1>9. cpu.at \in Program => cpu \in ProgramRegs(current_pid)
  BY <1>6, <1>7, <1>8 DEF OwnOK, OwnRegsOK, Own, InHandler
<1>10. /\ cpu.at = "user" => current_pid # Boot /\ cpu = UserRegs(current_pid)
       /\ cpu.at = "kernel" => cpu = KernelRegs(current_pid)
       /\ cpu.at = "exit" => current_pid # Boot /\ cpu = ExitRegs(current_pid)
  <2>1. {"user", "kernel", "exit"} = Program
    BY DEF Program
  <2>2. /\ UserRegs(current_pid).at = "user"
        /\ KernelRegs(current_pid).at = "kernel"
        /\ ExitRegs(current_pid).at = "exit"
    BY <1>1, ProgramFacts, RegsFields
  <2> QED  BY <1>9, <2>1, <2>2 DEF ProgramRegs
<1>11. \A s, d : Top(s, d) = <<Phys(s, current_pid), d>>
  BY DEF Top, Physical, Phys, FramesInv, FramesTypeOK
<1>12. ASSUME NEW q \in Pid
       PROVE  Own(q) \in AllRegs
  <2>1. CASE q # current_pid
    BY <2>1 DEF Own, FramesInv, FramesTypeOK
  <2>2. CASE q = current_pid /\ ~Borrowing
    BY <2>2, <1>3 DEF Own
  <2>3. CASE q = current_pid /\ Borrowing
    <3>1. Base \in 1 .. MaxDepth
      BY <2>3, <1>2, <1>4 DEF FramesInv, BorrowOK
    <3>2. Top(cpu.stack, Base) \in Stack \X (1 .. MaxDepth)
      BY <3>1, <1>1, <1>4, <1>11, PhysFacts
    <3>3. Pending \in AllRegs
      BY <3>2 DEF Pending, FramesInv, FramesTypeOK
    <3> QED  BY <2>3, <3>3 DEF Own
  <2> QED  BY <2>1, <2>2, <2>3
<1>13. ASSUME NEW q \in Pid
       PROVE  OwnOK(q) /\ Own(q) \in AllRegs /\ OwnTop(q) \in 0 .. MaxDepth
  <2>1. Own(q).depth \in 0 .. MaxDepth
    BY <1>12 DEF AllRegs
  <2> QED  BY <1>2, <1>12, <2>1 DEF OwnTop, FramesInv
<1> QED  BY <1>1, <1>2, <1>3, <1>4, <1>5, <1>6, <1>7, <1>10, <1>11, <1>13

\* A handler on the current task's own stack is above its chain of frames;
\* one on a borrowed stack has a base there, under nothing but epilogues.
LEMMA HandlerFacts ==
    ASSUME FramesInv, SchedInv, InHandler
    PROVE  /\ cpu.depth \in 1 .. MaxDepth
           /\ cpu.depth - 1 \in 0 .. MaxDepth
           /\ Top(cpu.stack, cpu.depth) \in Stack \X (1 .. MaxDepth)
           /\ ~Borrowing =>
                 /\ cpu.of = current_pid
                 /\ cpu.stack = OwnStack(current_pid)
                 /\ KernelDepth(current_pid) < cpu.depth
                 /\ left[current_pid] = KernelRegs(current_pid)
                 /\ OwnTop(current_pid) = cpu.depth
                 /\ mem[Top(cpu.stack, cpu.depth)] = OwnFrame(current_pid, cpu.depth)
           /\ Borrowing =>
                 /\ Base \in 1 .. cpu.depth
                 /\ Own(current_pid) = mem[Top(cpu.stack, Base)]
                 /\ Base < cpu.depth =>
                       mem[Top(cpu.stack, cpu.depth)]
                         = Regs("epilogue", cpu.of, cpu.stack, cpu.depth - 1)
<1> USE CpuFacts
<1>1. CASE ~Borrowing
  <2>1. Own(current_pid) = cpu /\ cpu.stack = OwnStack(current_pid)
    BY <1>1 DEF Own, Borrowing
  <2>2. cpu \notin ProgramRegs(current_pid)
    <3>1. \A r \in ProgramRegs(current_pid) : r.at \in Program
      BY ProgramFacts, RegsFields DEF ProgramRegs, Program
    <3> QED  BY <3>1
  <2>3. /\ cpu.of = current_pid
        /\ KernelDepth(current_pid) < cpu.depth
        /\ left[current_pid] = KernelRegs(current_pid)
    <3>1. KernelDepth(current_pid) \in Int /\ cpu.depth \in Int
      BY ProgramFacts
    <3> QED  BY <2>1, <2>2, <3>1 DEF OwnOK, OwnRegsOK
  <2>4. OwnTop(current_pid) = cpu.depth
    BY <2>1 DEF OwnTop
  <2>5. cpu.depth \in 1 .. MaxDepth
    BY <2>3, ProgramFacts
  <2>6. Top(cpu.stack, cpu.depth) = <<OwnStack(current_pid), cpu.depth>>
    BY <2>1, PhysFacts
  <2>7. mem[<<OwnStack(current_pid), cpu.depth>>] = OwnFrame(current_pid, cpu.depth)
    BY <2>4, <2>5 DEF OwnOK, OwnFramesOK
  <2>8. Top(cpu.stack, cpu.depth) \in Stack \X (1 .. MaxDepth)
    BY <2>5, <2>6, StackFacts
  <2> QED  BY <1>1, <2>1, <2>3, <2>4, <2>5, <2>6, <2>7, <2>8
<1>2. CASE Borrowing
  <2>1. Base \in 1 .. cpu.depth /\ cpu.depth \in 1 .. MaxDepth
    BY <1>2 DEF FramesInv, BorrowOK
  <2>2. Own(current_pid) = mem[Top(cpu.stack, Base)]
    BY <1>2 DEF Own, Pending
  <2>3. Base < cpu.depth =>
           mem[Top(cpu.stack, cpu.depth)] = Regs("epilogue", cpu.of, cpu.stack, cpu.depth - 1)
    BY <1>2, <2>1 DEF FramesInv, BorrowOK
  <2>4. Top(cpu.stack, cpu.depth) \in Stack \X (1 .. MaxDepth)
    BY <2>1, PhysFacts
  <2> QED  BY <1>2, <2>1, <2>2, <2>3, <2>4
<1> QED  BY <1>1, <1>2

\* The base of a stack that is borrowed from a task is right above what the
\* task keeps there.
LEMMA LenderTop ==
    ASSUME FramesInv, SchedInv, Borrowing, NEW q \in Pid, cpu.stack = OwnStack(q)
    PROVE  OwnTop(q) = Base - 1
<1> USE CpuFacts
<1>1. cpu.stack # IntStack /\ cpu.stack # Virtual /\ q # current_pid
  BY StackFacts DEF Borrowing
<1>2. OwnStack(cpu.of) = cpu.stack /\ regs[cpu.of].stack = cpu.stack
  BY <1>1 DEF FramesInv, BorrowOK
<1>3. q = cpu.of
  BY <1>2, StackFacts
<1>4. Base = regs[q].depth + 1
  BY <1>1, <1>3 DEF Base
<1>5. OwnTop(q) = regs[q].depth /\ OwnTop(q) \in Int
  BY <1>1, <1>2, <1>3 DEF OwnTop, Own
<1> QED  BY <1>4, <1>5

-----------------------------------------------------------------------------
\* A task that is not current keeps its registers, and what is stored above
\* its chain of frames does not disturb it.
LEMMA OthersKeep ==
    ASSUME FramesInv, SchedInv, NEW q \in Pid, q # current_pid,
           current_pid' = current_pid, regs' = regs, left'[q] = left[q],
           \A d \in 1 .. MaxDepth : d <= OwnTop(q) =>
               mem'[<<OwnStack(q), d>>] = mem[<<OwnStack(q), d>>],
           \A d \in 1 .. MaxDepth :
               d > OwnTop(q) /\ (cpu'.stack = OwnStack(q) => d > cpu'.depth)
                   => mem'[<<OwnStack(q), d>>] = NoFrame
    PROVE  OwnOK(q)'
<1>1. OwnOK(q)
  BY CpuFacts
<1>2. Own(q)' = Own(q)
  BY DEF Own
<1>3. OwnTop(q)' = OwnTop(q)
  BY <1>2 DEF OwnTop
<1>4. OwnRegsOK(q)'
  BY <1>1, <1>2 DEF OwnOK, OwnRegsOK
<1>5. OwnFramesOK(q)'
  BY <1>1, <1>3 DEF OwnOK, OwnFramesOK
<1>6. FreeOK(q)'
  BY <1>3 DEF FreeOK
<1> QED  BY <1>4, <1>5, <1>6 DEF OwnOK

\* The same when the stacks of the tasks that are not current are not touched.
LEMMA OthersApart ==
    ASSUME FramesInv, SchedInv, NEW q \in Pid, q # current_pid,
           current_pid' = current_pid, regs' = regs, left'[q] = left[q],
           \A d \in 1 .. MaxDepth : mem'[<<OwnStack(q), d>>] = mem[<<OwnStack(q), d>>],
           cpu.stack # OwnStack(q)
    PROVE  OwnOK(q)'
<1>1. FreeOK(q)
  BY CpuFacts DEF OwnOK
<1>2. \A d \in 1 .. MaxDepth : d > OwnTop(q) => mem[<<OwnStack(q), d>>] = NoFrame
  BY <1>1 DEF FreeOK
<1> QED  BY <1>2, OthersKeep

\* The scheduler's own steps in kernel mode leave every frame where it is.
LEMMA QuietInv ==
    ASSUME FramesInv, SchedInv, cpu.at = "kernel",
           UNCHANGED <<cpu, mem, regs, gs, cr3, left, current_pid>>,
           bstack \subseteq bstack' \/ cpu.of = Boot
    PROVE  FramesInv'
<1> USE CpuFacts
<1>1. FramesTypeOK'
  BY DEF FramesInv, FramesTypeOK
<1>2. Own(current_pid) = cpu /\ ~Borrowing
  BY DEF Own, InHandler, Handler, Borrowing
<1>3. ASSUME NEW q \in Pid
      PROVE  OwnOK(q)'
  <2>1. OwnOK(q)
    OBVIOUS
  <2> QED
    BY ZenonT(30), <2>1 DEF OwnOK, OwnRegsOK, OwnFramesOK, FreeOK, OwnTop, Own, Pending, Borrowing,
       InHandler, Top, Physical, Base
<1>4. BorrowOK' /\ TimerOK'
  BY <1>2 DEF BorrowOK, TimerOK, Borrowing, InHandler
<1>5. LiveOK'
  <2>1. CASE bstack \subseteq bstack'
    BY <2>1 DEF LiveOK, FramesInv
  <2>2. CASE cpu.of = Boot
    <3>1. cpu.stack = OwnStack(Boot)
      BY <2>2, ProgramFacts, RegsFields
    <3> QED  BY <3>1, StackFacts DEF LiveOK
  <2> QED  BY <2>1, <2>2
<1> QED  BY <1>1, <1>3, <1>4, <1>5 DEF FramesInv

\* A step of the current task's program from one of its places to another.
LEMMA ProgramStep ==
    ASSUME FramesInv, SchedInv, cpu.at \in Program, cpu'.at \in Program,
           cpu' \in ProgramRegs(current_pid),
           cpu' \in AllRegs, mem' \in [Stack \X (1 .. MaxDepth) -> AllRegs],
           UNCHANGED <<schedVars, regs, gs, cr3, left>>,
           \A q \in Pid \ {current_pid}, d \in 1 .. MaxDepth :
               mem'[<<OwnStack(q), d>>] = mem[<<OwnStack(q), d>>],
           OwnFramesOK(current_pid)', FreeOK(current_pid)'
    PROVE  FramesInv'
<1> USE CpuFacts
<1>1. UNCHANGED <<current_pid, bstack, tick, length, state>>
  BY DEF schedVars
<1>2. FramesTypeOK'
  BY <1>1 DEF FramesInv, FramesTypeOK, Program
<1>3. /\ cpu.stack \in {Virtual, OwnStack(current_pid)}
      /\ cpu'.stack \in {Virtual, OwnStack(current_pid)}
  BY ProgramFacts, RegsFields DEF ProgramRegs, Program
<1>4. ~InHandler' /\ ~Borrowing'
  BY DEF InHandler, Borrowing, Program, Handler
<1>5. Own(current_pid)' = cpu'
  BY <1>1, <1>4 DEF Own
<1>6. OwnRegsOK(current_pid)'
  BY <1>1, <1>4, <1>5 DEF OwnRegsOK
<1>7. ASSUME NEW q \in Pid, q # current_pid
      PROVE  OwnOK(q)'
  <2>1. cpu.stack # OwnStack(q)
    BY <1>3, <1>7, StackFacts
  <2> QED  BY <1>1, <1>7, <2>1, OthersApart
<1>8. OwnOK(current_pid)'
  BY <1>6 DEF OwnOK
<1>9. BorrowOK' /\ TimerOK'
  BY <1>4 DEF BorrowOK, TimerOK, InHandler, Handler
<1>10. LiveOK'
  <2>1. ASSUME NEW p \in Pid \ {Boot}, cpu'.stack = KernelStack(p)
        PROVE  p \in bstack
    <3>1. p = current_pid
      BY <1>3, <2>1, StackFacts
    <3> QED  BY <2>1, <3>1 DEF SchedInv, SchedTypeOK, StackOutlivesTask
  <2> QED  BY <1>1, <2>1 DEF LiveOK
<1>11. \A q \in Pid : OwnOK(q)'
  <2>1. current_pid' = current_pid
    BY <1>1
  <2>2. ASSUME NEW q \in Pid, q = current_pid
        PROVE  OwnOK(q)'
    BY <1>8, <2>1, <2>2 DEF OwnOK, OwnRegsOK, OwnFramesOK, FreeOK
  <2> QED  BY <1>7, <2>2
<1> QED  BY <1>2, <1>9, <1>10, <1>11 DEF FramesInv

LEMMA SysretInv ==
    ASSUME FramesInv, SchedInv, Sysret
    PROVE  FramesInv'
<1> USE CpuFacts
<1>1. current_pid # Boot /\ cpu = ExitRegs(current_pid) /\ cpu.at \in Program
  BY DEF Sysret, Program
<1>2. cpu' = UserRegs(current_pid)
  <2>1. cpu' = [cpu EXCEPT !.at = "user"]
    BY DEF Sysret
  <2> QED  BY <1>1, <2>1, ProgramFacts DEF Regs
<1>3. UNCHANGED <<schedVars, mem, regs, gs, cr3, left>>
  BY DEF Sysret
<1>4. cpu' \in ProgramRegs(current_pid) /\ cpu' \in AllRegs /\ cpu'.at \in Program
  BY <1>1, <1>2, ProgramFacts, RegsFields DEF ProgramRegs, Program
<1>5. mem' \in [Stack \X (1 .. MaxDepth) -> AllRegs]
  BY <1>3 DEF FramesInv, FramesTypeOK
<1>6. ~Borrowing /\ ~Borrowing' /\ cpu.stack = Virtual /\ cpu'.stack = Virtual /\ UNCHANGED current_pid
  BY <1>1, <1>2, <1>3, <1>4, ProgramFacts, RegsFields
     DEF Borrowing, InHandler, Program, Handler, schedVars
<1>7. OwnTop(current_pid) = 0 /\ OwnTop(current_pid)' = 0
  BY <1>6, StackFacts DEF OwnTop, Own
<1>8. OwnFramesOK(current_pid)' /\ FreeOK(current_pid)'
  <2>1. OwnFramesOK(current_pid) /\ FreeOK(current_pid)
    BY DEF OwnOK
  <2>2. OwnStack(current_pid) # Virtual
    BY StackFacts
  <2>3. OwnFramesOK(current_pid)'
    BY <1>3, <1>6, <1>7, <2>1 DEF OwnFramesOK
  <2>4. FreeOK(current_pid)'
    BY <1>3, <1>6, <1>7, <2>1, <2>2 DEF FreeOK
  <2> QED  BY <2>3, <2>4
<1> QED  BY <1>1, <1>3, <1>4, <1>5, <1>8, ProgramStep

LEMMA SyscallInv ==
    ASSUME FramesInv, SchedInv, Syscall
    PROVE  /\ FramesInv'
           /\ cpu'.stack = KernelStack(current_pid)
           /\ \A d \in 1 .. MaxDepth : mem[<<cpu'.stack, d>>] = NoFrame
<1> USE CpuFacts
<1>1. current_pid # Boot /\ cpu = UserRegs(current_pid) /\ cpu.at \in Program
  BY DEF Syscall, Program
<1>2. UNCHANGED <<schedVars, regs, gs, cr3, left>> /\ gs = current_pid
  BY DEF Syscall, FramesInv, FramesTypeOK
<1>3. OwnStack(current_pid) = KernelStack(current_pid)
  BY <1>1, StackFacts
<1>4. cpu' = KernelRegs(current_pid)
  BY <1>1, <1>2, <1>3, ProgramFacts, RegsFields DEF Syscall
<1>5. mem' = [mem EXCEPT ![<<OwnStack(current_pid), 1>>] = cpu]
  BY <1>2, <1>3 DEF Syscall
<1>6. mem \in [Stack \X (1 .. MaxDepth) -> AllRegs] /\ OwnStack(current_pid) \in Stack
  BY StackFacts DEF FramesInv, FramesTypeOK
<1>7. cpu' \in ProgramRegs(current_pid) /\ cpu' \in AllRegs /\ cpu'.at \in Program
  BY <1>1, <1>4, ProgramFacts, RegsFields DEF ProgramRegs, Program
<1>8. mem' \in [Stack \X (1 .. MaxDepth) -> AllRegs]
  BY <1>5, <1>6
<1>9. /\ \A q \in Pid \ {current_pid}, d \in 1 .. MaxDepth :
            mem'[<<OwnStack(q), d>>] = mem[<<OwnStack(q), d>>]
      /\ mem'[<<OwnStack(current_pid), 1>>] = UserRegs(current_pid)
      /\ \A d \in 1 .. MaxDepth : d > 1 =>
            mem'[<<OwnStack(current_pid), d>>] = mem[<<OwnStack(current_pid), d>>]
  BY <1>1, <1>5, <1>6, StackFacts
<1>10. ~Borrowing /\ ~Borrowing' /\ cpu.stack = Virtual /\ UNCHANGED current_pid
  BY <1>1, <1>2, <1>7, ProgramFacts, RegsFields
     DEF Borrowing, InHandler, Program, Handler, schedVars
<1>11. cpu'.stack = OwnStack(current_pid) /\ cpu'.depth = 1 /\ KernelDepth(current_pid) = 1
  BY <1>1, <1>4, ProgramFacts, RegsFields
<1>12. OwnTop(current_pid) = 0 /\ OwnTop(current_pid)' = 1
  BY <1>10, <1>11, StackFacts DEF OwnTop, Own
<1>13. \A d \in 1 .. MaxDepth : mem[<<OwnStack(current_pid), d>>] = NoFrame
  BY <1>10, <1>12, StackFacts DEF OwnOK, FreeOK
<1>14. OwnFramesOK(current_pid)' /\ FreeOK(current_pid)'
  BY <1>9, <1>10, <1>11, <1>12, <1>13 DEF OwnFramesOK, FreeOK, OwnFrame
<1>15. FramesInv'
  BY <1>1, <1>2, <1>7, <1>8, <1>9, <1>14, ProgramStep
<1> QED  BY <1>3, <1>11, <1>13, <1>15

LEMMA PopAllInv ==
    ASSUME FramesInv, SchedInv, PopAll
    PROVE  FramesInv'
<1> USE CpuFacts
<1>1. cpu = KernelRegs(current_pid) /\ cpu.at \in Program /\ current_pid # Boot
  BY ProgramFacts, RegsFields DEF PopAll, InSyscall, Program
<1>2. UNCHANGED <<schedVars, regs, gs, cr3, left>>
  BY DEF PopAll
<1>3. cpu.stack = OwnStack(current_pid) /\ cpu.depth = 1 /\ KernelDepth(current_pid) = 1
  BY <1>1, ProgramFacts, RegsFields
<1>4. Top(cpu.stack, cpu.depth) = <<OwnStack(current_pid), 1>>
  BY <1>3, PhysFacts
<1>5. ~Borrowing /\ UNCHANGED current_pid
  BY <1>1, <1>2 DEF Borrowing, InHandler, Program, Handler, schedVars
<1>6. OwnTop(current_pid) = 1
  BY <1>3, <1>5 DEF OwnTop, Own
<1>7. mem[<<OwnStack(current_pid), 1>>] = UserRegs(current_pid)
  BY <1>3, <1>6 DEF OwnOK, OwnFramesOK, OwnFrame
<1>8. cpu' = ExitRegs(current_pid)
  <2>1. cpu' = [UserRegs(current_pid) EXCEPT !.at = "exit"]
    BY <1>4, <1>7 DEF PopAll
  <2> QED  BY <2>1, ProgramFacts DEF Regs
<1>9. mem' = [mem EXCEPT ![<<OwnStack(current_pid), 1>>] = NoFrame]
  BY <1>4 DEF PopAll
<1>10. mem \in [Stack \X (1 .. MaxDepth) -> AllRegs] /\ OwnStack(current_pid) \in Stack
  BY StackFacts DEF FramesInv, FramesTypeOK
<1>11. cpu' \in ProgramRegs(current_pid) /\ cpu' \in AllRegs /\ cpu'.at \in Program
  BY <1>1, <1>8, ProgramFacts, RegsFields DEF ProgramRegs, Program
<1>12. mem' \in [Stack \X (1 .. MaxDepth) -> AllRegs]
  BY <1>9, <1>10, ProgramFacts
<1>13. /\ \A q \in Pid \ {current_pid}, d \in 1 .. MaxDepth :
             mem'[<<OwnStack(q), d>>] = mem[<<OwnStack(q), d>>]
       /\ mem'[<<OwnStack(current_pid), 1>>] = NoFrame
       /\ \A d \in 1 .. MaxDepth : d > 1 =>
             mem'[<<OwnStack(current_pid), d>>] = mem[<<OwnStack(current_pid), d>>]
  BY <1>9, <1>10, StackFacts
<1>14. cpu'.stack = Virtual /\ ~Borrowing'
  BY <1>8, <1>11, ProgramFacts, RegsFields DEF Borrowing, InHandler, Program, Handler
<1>15. OwnTop(current_pid)' = 0
  BY <1>5, <1>14, StackFacts DEF OwnTop, Own
<1>16. \A d \in 1 .. MaxDepth : d > 1 => mem[<<OwnStack(current_pid), d>>] = NoFrame
  BY <1>3, <1>6 DEF OwnOK, FreeOK
<1>17. OwnFramesOK(current_pid)' /\ FreeOK(current_pid)'
  BY <1>5, <1>13, <1>15, <1>16 DEF OwnFramesOK, FreeOK
<1> QED  BY <1>1, <1>2, <1>11, <1>12, <1>13, <1>17, ProgramStep

-----------------------------------------------------------------------------
\* An interrupt of the program in user mode, or at the end of its system
\* call, starts a borrowed stack, which leads back to the program.
LEMMA CutProgram ==
    ASSUME FramesInv, SchedInv, Dangers = {}, NEW irq \in Handler, Interrupt(irq),
           cpu.at \in {"user", "exit"}
    PROVE  FramesInv'
<1> USE CpuFacts
<1> DEFINE stack == IF cpu.at = "user" THEN IntStack ELSE Virtual
<1>1. /\ current_pid # Boot
      /\ cpu.of = current_pid /\ cpu.stack = Virtual /\ cpu.depth = 0
      /\ cpu.at = "user" => cpu = UserRegs(current_pid)
      /\ cpu.at = "exit" => cpu = ExitRegs(current_pid)
      /\ cpu.at \in Program
  BY ProgramFacts, RegsFields DEF Program
<1>2. /\ UNCHANGED <<schedVars, regs, gs, cr3>>
      /\ UNCHANGED <<current_pid, bstack, tick, length, state>>
      /\ left' = [left EXCEPT ![current_pid] = cpu]
  BY <1>1 DEF Interrupt, schedVars
<1>3. /\ cpu' = Regs(irq, current_pid, stack, 1)
      /\ mem' = [mem EXCEPT ![<<Phys(stack, current_pid), 1>>] = cpu]
  <2>1. CASE cpu.at = "user"
    BY <1>1, <2>1 DEF Interrupt
  <2>2. CASE cpu.at = "exit"
    <3>1. cpu.depth + 1 = 1 /\ cpu.at # "user"
      BY <1>1, <2>2
    <3> QED  BY <1>1, <3>1 DEF Interrupt
  <2> QED  BY <2>1, <2>2
<1>4. cpu'.at = irq /\ cpu'.of = current_pid /\ cpu'.stack = stack /\ cpu'.depth = 1
  BY <1>3, RegsFields
<1>5. /\ mem \in [Stack \X (1 .. MaxDepth) -> AllRegs]
      /\ left \in [Pid -> AllRegs] /\ regs \in [Pid -> AllRegs]
      /\ stack \in Stack /\ Phys(stack, current_pid) \in Stack
      /\ irq \in Code
  BY StackFacts, PhysFacts DEF FramesInv, FramesTypeOK, Code, Handler
<1>6. cpu' \in AllRegs /\ cpu'.at # "fault"
  BY <1>3, <1>4, <1>5, RegsType DEF Handler
<1>7. FramesTypeOK'
  BY <1>2, <1>3, <1>5, <1>6 DEF FramesTypeOK, FramesInv
<1>8. \A q \in Pid : Phys(stack, current_pid) # OwnStack(q) /\ stack # OwnStack(q)
  BY StackFacts, PhysFacts
<1> HIDE DEF stack
<1>9. \A q \in Pid, d \in 1 .. MaxDepth : mem'[<<OwnStack(q), d>>] = mem[<<OwnStack(q), d>>]
  BY <1>3, <1>5, <1>8, StackFacts
<1>10. InHandler' /\ Borrowing'
  BY <1>2, <1>4, <1>8 DEF InHandler, Borrowing
<1>11. Base' = 1
  BY <1>4 DEF Base, stack
<1>12. \A d : Top(cpu.stack, d)' = <<Phys(stack, current_pid), d'>>
  BY <1>2, <1>4 DEF Top, Physical, Phys, FramesInv, FramesTypeOK
<1>13. mem'[<<Phys(stack, current_pid), 1>>] = cpu
  BY <1>3, <1>5
<1>14. Pending' = cpu /\ Own(current_pid)' = cpu /\ Own(current_pid) = cpu
  BY <1>1, <1>2, <1>10, <1>11, <1>12, <1>13 DEF Pending, Own
<1>15. OwnTop(current_pid) = 0 /\ OwnTop(current_pid)' = 0
  BY <1>1, <1>2, <1>14, StackFacts DEF OwnTop
<1>16. OwnRegsOK(current_pid)'
  BY <1>1, <1>2, <1>5, <1>14, ProgramFacts, RegsFields DEF OwnRegsOK, ProgramRegs, Program, Handler
<1>17. OwnFramesOK(current_pid)'
  BY <1>2, <1>15 DEF OwnFramesOK
<1>18. FreeOK(current_pid)'
  <2>1. FreeOK(current_pid) /\ cpu.stack # OwnStack(current_pid)
    BY <1>1, StackFacts DEF OwnOK
  <2> QED  BY <1>2, <1>9, <1>15, <2>1 DEF FreeOK
<1>19. ASSUME NEW q \in Pid
       PROVE  OwnOK(q)'
  <2>1. CASE q = current_pid
    BY <1>2, <1>16, <1>17, <1>18, <2>1 DEF OwnOK
  <2>2. CASE q # current_pid
    <3>1. left'[q] = left[q] /\ cpu.stack # OwnStack(q)
      BY <1>1, <1>2, <1>5, <2>2, StackFacts
    <3> QED  BY <1>2, <1>9, <2>2, <3>1, OthersApart
  <2> QED  BY <2>1, <2>2
<1>20. BorrowOK'
  <2>1. Base' \in 1 .. cpu'.depth /\ stack \in {IntStack, Virtual}
    BY <1>4, <1>11 DEF stack
  <2>2. stack = Virtual => cpu = ExitRegs(current_pid)
    BY <1>1, StackFacts DEF stack
  <2>3. stack = IntStack => cpu = UserRegs(current_pid)
    BY <1>1, StackFacts DEF stack
  <2>4. \A d \in 1 .. MaxDepth : ~(Base' < d /\ d <= cpu'.depth)
    BY <1>4, <1>11
  <2> QED  BY <1>2, <1>4, <1>14, <2>1, <2>2, <2>3, <2>4 DEF BorrowOK
<1>21. TimerOK'
  <2>1. mem'[Top(cpu.stack, cpu.depth)'] = cpu
    BY <1>4, <1>12, <1>13
  <2>2. CASE irq # "timer"
    BY <1>4, <2>2 DEF TimerOK
  <2>3. CASE irq = "timer"
    <3>1. DangersNow = {}
      BY <2>3 DEF Interrupt
    <3>2. \/ tick + 1 < SWITCH_TICK
          \/ \A p \in Queued : Running(p) => p = current_pid
          \/ cpu.at = "user"
      BY <3>1 DEF DangersNow
    <3> QED  BY <1>2, <2>1, <3>2 DEF TimerOK, Queued, Running
  <2> QED  BY <2>2, <2>3
<1>22. LiveOK'
  BY <1>4, StackFacts DEF LiveOK, stack
<1> QED  BY <1>7, <1>19, <1>20, <1>21, <1>22 DEF FramesInv

\* An interrupt on the current task's own stack adds a frame to its chain.
LEMMA CutOwn ==
    ASSUME FramesInv, SchedInv, Dangers = {}, NEW irq \in Handler, Interrupt(irq),
           cpu.at = "kernel" \/ (cpu.at = "epilogue" /\ ~Borrowing)
    PROVE  FramesInv'
<1> USE CpuFacts
<1>1. /\ cpu.of = current_pid /\ cpu.stack = OwnStack(current_pid)
      /\ cpu.depth \in 0 .. MaxDepth
      /\ cpu.depth >= KernelDepth(current_pid)
      /\ ~Borrowing
      /\ cpu = OwnFrame(current_pid, cpu.depth + 1)
      /\ cpu.at = "epilogue" => left[current_pid] = KernelRegs(current_pid)
      /\ cpu.at = "kernel" => cpu = KernelRegs(current_pid)
  <2>1. KernelDepth(current_pid) \in Int /\ cpu.depth \in Int /\ KernelDepth(current_pid) \in 0 .. MaxDepth
    BY ProgramFacts
  <2>2. CASE cpu.at = "kernel"
    <3>1. cpu = KernelRegs(current_pid) /\ ~Borrowing
      BY <2>2 DEF Program
    <3>2. /\ cpu.of = current_pid /\ cpu.stack = OwnStack(current_pid)
          /\ cpu.depth = KernelDepth(current_pid)
      BY <3>1, ProgramFacts, RegsFields
    <3>3. OwnFrame(current_pid, cpu.depth + 1) = KernelRegs(current_pid)
      BY <2>1, <3>2 DEF OwnFrame
    <3> QED  BY <2>1, <2>2, <3>1, <3>2, <3>3
  <2>3. CASE cpu.at = "epilogue" /\ ~Borrowing
    <3>1. InHandler
      BY <2>3 DEF InHandler
    <3>2. /\ cpu.of = current_pid /\ cpu.stack = OwnStack(current_pid)
          /\ KernelDepth(current_pid) < cpu.depth
          /\ left[current_pid] = KernelRegs(current_pid)
      BY <2>3, <3>1, HandlerFacts
    <3>3. OwnFrame(current_pid, cpu.depth + 1)
             = Regs("epilogue", current_pid, OwnStack(current_pid), cpu.depth)
      BY <2>1, <3>2 DEF OwnFrame
    <3> QED  BY <2>1, <2>3, <3>2, <3>3
  <2> QED  BY <2>2, <2>3
<1>2. /\ UNCHANGED <<schedVars, regs, gs, cr3>>
      /\ UNCHANGED <<current_pid, bstack, tick, length, state>>
      /\ left' = IF cpu.at = "kernel" THEN [left EXCEPT ![current_pid] = cpu] ELSE left
  BY <1>1 DEF Interrupt, schedVars, Program
<1>3. /\ cpu.depth + 1 \in 1 .. MaxDepth
      /\ cpu' = Regs(irq, current_pid, OwnStack(current_pid), cpu.depth + 1)
      /\ mem' = [mem EXCEPT ![<<OwnStack(current_pid), cpu.depth + 1>>] = cpu]
  <2>1. cpu.at # "user"
    OBVIOUS
  <2>2. /\ cpu.depth + 1 <= MaxDepth
        /\ cpu' = Regs(irq, cpu.of, cpu.stack, cpu.depth + 1)
        /\ mem' = [mem EXCEPT ![Top(cpu.stack, cpu.depth + 1)] = cpu]
    BY <2>1 DEF Interrupt
  <2>3. Top(cpu.stack, cpu.depth + 1) = <<OwnStack(current_pid), cpu.depth + 1>>
    BY <1>1, PhysFacts
  <2>4. cpu.depth + 1 \in 1 .. MaxDepth
    BY <1>1, <2>2
  <2> QED  BY ONLY <1>1, <2>2, <2>3, <2>4
<1>4. /\ cpu'.at = irq /\ cpu'.of = current_pid
      /\ cpu'.stack = OwnStack(current_pid) /\ cpu'.depth = cpu.depth + 1
  BY <1>3, RegsFields
<1>5. /\ mem \in [Stack \X (1 .. MaxDepth) -> AllRegs]
      /\ left \in [Pid -> AllRegs] /\ regs \in [Pid -> AllRegs]
      /\ OwnStack(current_pid) \in Stack
      /\ irq \in Code /\ irq # "fault" /\ cpu.depth + 1 \in 0 .. MaxDepth
  BY <1>3, StackFacts DEF FramesInv, FramesTypeOK, Code, Handler
<1>6. cpu' \in AllRegs /\ cpu'.at # "fault"
  BY <1>3, <1>4, <1>5, RegsType
<1>7. FramesTypeOK'
  <2>1. mem' \in [Stack \X (1 .. MaxDepth) -> AllRegs] /\ left' \in [Pid -> AllRegs]
    BY <1>2, <1>3, <1>5
  <2> QED  BY <1>2, <1>5, <1>6, <2>1 DEF FramesTypeOK, FramesInv
<1>8. InHandler' /\ ~Borrowing'
  BY <1>2, <1>4 DEF InHandler, Borrowing
<1>9. Own(current_pid) = cpu /\ Own(current_pid)' = cpu'
  BY <1>1, <1>2, <1>8 DEF Own
<1>10. OwnTop(current_pid) = cpu.depth /\ OwnTop(current_pid)' = cpu.depth + 1
  BY <1>1, <1>2, <1>4, <1>9 DEF OwnTop
<1>11. /\ mem'[<<OwnStack(current_pid), cpu.depth + 1>>] = cpu
       /\ \A d \in 1 .. MaxDepth : d # cpu.depth + 1 =>
             mem'[<<OwnStack(current_pid), d>>] = mem[<<OwnStack(current_pid), d>>]
       /\ \A q \in Pid \ {current_pid}, d \in 1 .. MaxDepth :
             mem'[<<OwnStack(q), d>>] = mem[<<OwnStack(q), d>>]
  BY <1>3, <1>5, StackFacts
<1>12. OwnRegsOK(current_pid)'
  <2>1. left'[current_pid] = KernelRegs(current_pid)
    BY <1>1, <1>2, <1>5
  <2>2. cpu'.depth > KernelDepth(current_pid)
    BY <1>1, <1>4, ProgramFacts
  <2> QED  BY <1>2, <1>4, <1>8, <1>9, <2>1, <2>2 DEF OwnRegsOK
<1>13. OwnFramesOK(current_pid)'
  <2>1. OwnFramesOK(current_pid)
    BY DEF OwnOK
  <2>2. ASSUME NEW d \in 1 .. MaxDepth, d <= cpu.depth + 1
        PROVE  mem'[<<OwnStack(current_pid), d>>] = OwnFrame(current_pid, d)
    <3>1. d = cpu.depth + 1 \/ (d <= cpu.depth /\ d # cpu.depth + 1)
      BY <2>2, <1>1
    <3> QED  BY <1>1, <1>10, <1>11, <2>1, <3>1 DEF OwnFramesOK
  <2> QED  BY <1>2, <1>10, <2>2 DEF OwnFramesOK
<1>14. FreeOK(current_pid)'
  <2>1. FreeOK(current_pid)
    BY DEF OwnOK
  <2>2. ASSUME NEW d \in 1 .. MaxDepth, d > cpu.depth + 1
        PROVE  mem'[<<OwnStack(current_pid), d>>] = NoFrame
    <3>1. d > cpu.depth /\ d # cpu.depth + 1
      BY <2>2, <1>1
    <3> QED  BY <1>10, <1>11, <2>1, <3>1 DEF FreeOK
  <2> QED  BY <1>2, <1>10, <2>2 DEF FreeOK
<1>15. ASSUME NEW q \in Pid
       PROVE  OwnOK(q)'
  <2>1. CASE q = current_pid
    BY <1>2, <1>12, <1>13, <1>14, <2>1 DEF OwnOK
  <2>2. CASE q # current_pid
    <3>1. left'[q] = left[q] /\ cpu.stack # OwnStack(q)
      BY <1>1, <1>2, <1>5, <2>2, StackFacts
    <3> QED  BY <1>2, <1>11, <2>2, <3>1, OthersApart
  <2> QED  BY <2>1, <2>2
<1>16. BorrowOK'
  BY <1>8 DEF BorrowOK
<1>17. TimerOK'
  <2>1. mem'[Top(cpu.stack, cpu.depth)'] = cpu
    <3>1. Top(cpu.stack, cpu.depth)' = <<OwnStack(current_pid), cpu.depth + 1>>
      BY <1>2, <1>4, <1>5, StackFacts DEF Top, Physical, FramesInv, FramesTypeOK
    <3> QED  BY <1>11, <3>1
  <2>2. cpu.at # "exit"
    OBVIOUS
  <2> QED  BY <1>1, <1>2, <2>1, <2>2 DEF TimerOK
<1>18. LiveOK'
  <2>1. ASSUME NEW p \in Pid \ {Boot}, cpu'.stack = KernelStack(p)
        PROVE  p \in bstack
    <3>1. p = current_pid
      BY <1>4, <2>1, StackFacts
    <3> QED  BY <2>1, <3>1 DEF SchedInv, SchedTypeOK, StackOutlivesTask
  <2> QED  BY <1>2, <2>1 DEF LiveOK
<1> QED  BY <1>7, <1>15, <1>16, <1>17, <1>18 DEF FramesInv

\* An interrupt of an epilogue on a borrowed stack borrows more of it.
LEMMA CutBorrowed ==
    ASSUME FramesInv, SchedInv, Dangers = {}, NEW irq \in Handler, Interrupt(irq),
           cpu.at = "epilogue", Borrowing
    PROVE  FramesInv'
<1> USE CpuFacts
<1>1. /\ InHandler /\ cpu.depth \in 1 .. MaxDepth /\ Base \in 1 .. cpu.depth
      /\ \A q \in Pid : cpu.stack = OwnStack(q) => q # current_pid
      /\ \A q \in Pid : Phys(cpu.stack, current_pid) = OwnStack(q) <=> cpu.stack = OwnStack(q)
      /\ Phys(cpu.stack, current_pid) \in Stack
  BY HandlerFacts, PhysFacts DEF Borrowing
<1>2. /\ UNCHANGED <<schedVars, regs, gs, cr3, left>>
      /\ UNCHANGED <<current_pid, bstack, tick, length, state>>
  BY DEF Interrupt, schedVars, Program
<1>3. /\ cpu.depth + 1 \in 1 .. MaxDepth
      /\ cpu' = Regs(irq, cpu.of, cpu.stack, cpu.depth + 1)
      /\ mem' = [mem EXCEPT ![<<Phys(cpu.stack, current_pid), cpu.depth + 1>>] = cpu]
  <2>1. cpu.at # "user"
    OBVIOUS
  <2>2. /\ cpu.depth + 1 <= MaxDepth
        /\ cpu' = Regs(irq, cpu.of, cpu.stack, cpu.depth + 1)
        /\ mem' = [mem EXCEPT ![Top(cpu.stack, cpu.depth + 1)] = cpu]
    BY <2>1 DEF Interrupt
  <2>3. Top(cpu.stack, cpu.depth + 1) = <<Phys(cpu.stack, current_pid), cpu.depth + 1>>
    OBVIOUS
  <2>4. cpu.depth + 1 \in 1 .. MaxDepth
    BY <1>1, <2>2
  <2> QED  BY ONLY <2>2, <2>3, <2>4
<1>4. /\ cpu'.at = irq /\ cpu'.of = cpu.of
      /\ cpu'.stack = cpu.stack /\ cpu'.depth = cpu.depth + 1
  BY <1>3, RegsFields
<1>5. /\ mem \in [Stack \X (1 .. MaxDepth) -> AllRegs]
      /\ irq \in Code /\ irq # "fault" /\ cpu.depth + 1 \in 0 .. MaxDepth
  BY <1>3 DEF FramesInv, FramesTypeOK, Code, Handler
<1>6. cpu' \in AllRegs /\ cpu'.at # "fault"
  BY <1>3, <1>4, <1>5, RegsType
<1>7. FramesTypeOK'
  <2>1. mem' \in [Stack \X (1 .. MaxDepth) -> AllRegs]
    BY <1>1, <1>3, <1>5
  <2> QED  BY <1>2, <1>5, <1>6, <2>1 DEF FramesTypeOK, FramesInv
<1>8. InHandler' /\ Borrowing'
  BY <1>2, <1>4 DEF InHandler, Borrowing
<1>9. Base' = Base
  BY <1>2, <1>4 DEF Base
<1>10. \A s \in Stack, d \in 1 .. MaxDepth :
          mem'[<<s, d>>] = IF s = Phys(cpu.stack, current_pid) /\ d = cpu.depth + 1
                           THEN cpu ELSE mem[<<s, d>>]
  BY <1>1, <1>3, <1>5
<1>11. Pending' = Pending
  <2>1. Base \in 1 .. MaxDepth /\ Base # cpu.depth + 1
    BY <1>1
  <2>2. Pending' = mem'[<<Phys(cpu.stack, current_pid), Base>>]
    BY <1>2, <1>4, <1>9 DEF Pending, Top, Physical, Phys, FramesInv, FramesTypeOK
  <2>3. Pending = mem[<<Phys(cpu.stack, current_pid), Base>>]
    BY DEF Pending
  <2> QED  BY <1>1, <1>10, <2>1, <2>2, <2>3
<1>12. \A q \in Pid : Own(q)' = Own(q) /\ OwnTop(q)' = OwnTop(q)
  BY <1>2, <1>8, <1>11 DEF Own, OwnTop
<1>13. ASSUME NEW q \in Pid, cpu.stack = OwnStack(q)
       PROVE  OwnTop(q) = Base - 1
  BY <1>13, LenderTop
<1>14. ASSUME NEW q \in Pid
       PROVE  OwnOK(q)'
  <2>1. OwnOK(q) /\ OwnStack(q) \in Stack
    BY StackFacts
  <2>2. OwnRegsOK(q)'
    BY <1>2, <1>8, <1>12, <2>1 DEF OwnOK, OwnRegsOK
  <2>3. ASSUME NEW d \in 1 .. MaxDepth, d <= OwnTop(q)
        PROVE  mem'[<<OwnStack(q), d>>] = mem[<<OwnStack(q), d>>]
    <3>1. OwnStack(q) = cpu.stack => d # cpu.depth + 1
      BY <1>1, <1>13, <2>3
    <3> QED  BY <1>1, <1>10, <2>1, <3>1
  <2>4. OwnFramesOK(q)'
    BY <1>12, <2>1, <2>3 DEF OwnOK, OwnFramesOK
  <2>5. ASSUME NEW d \in 1 .. MaxDepth, d > OwnTop(q),
               cpu.stack = OwnStack(q) => d > cpu.depth + 1
        PROVE  mem'[<<OwnStack(q), d>>] = NoFrame
    <3>1. OwnStack(q) = cpu.stack => d # cpu.depth + 1 /\ d > cpu.depth
      BY <1>1, <2>5
    <3>2. mem[<<OwnStack(q), d>>] = NoFrame
      BY <2>1, <2>5, <3>1 DEF OwnOK, FreeOK
    <3> QED  BY <1>1, <1>10, <2>1, <3>1, <3>2
  <2>6. FreeOK(q)'
    BY <1>4, <1>12, <2>5 DEF FreeOK
  <2> QED  BY <2>2, <2>4, <2>6 DEF OwnOK
<1>15. BorrowOK'
  <2>1. BorrowOK
    BY DEF FramesInv
  <2>2. ASSUME NEW d \in 1 .. MaxDepth, Base < d, d <= cpu.depth + 1
        PROVE  mem'[Top(cpu.stack, d)'] = Regs("epilogue", cpu.of, cpu.stack, d - 1)
    <3>1. Top(cpu.stack, d)' = <<Phys(cpu.stack, current_pid), d>>
      BY <1>2, <1>4 DEF Top, Physical, Phys, FramesInv, FramesTypeOK
    <3>2. CASE d = cpu.depth + 1
      <4>1. d - 1 = cpu.depth
        BY <1>1, <3>2
      <4>2. cpu = Regs("epilogue", cpu.of, cpu.stack, cpu.depth)
        OBVIOUS
      <4> QED  BY <1>1, <1>10, <3>1, <3>2, <4>1, <4>2
    <3>3. CASE d # cpu.depth + 1
      <4>1. d <= cpu.depth
        BY <1>1, <2>2, <3>3
      <4>2. mem[Top(cpu.stack, d)] = Regs("epilogue", cpu.of, cpu.stack, d - 1)
        BY <2>1, <2>2, <4>1 DEF BorrowOK
      <4> QED  BY <1>1, <1>10, <3>1, <3>3, <4>2
    <3> QED  BY <3>2, <3>3
  <2>3. Base \in 1 .. cpu.depth + 1 /\ cpu.depth + 1 # Base
    BY <1>1
  <2> QED  BY <1>2, <1>4, <1>9, <1>12, <2>1, <2>2, <2>3 DEF BorrowOK
<1>16. TimerOK'
  <2>1. mem'[Top(cpu.stack, cpu.depth)'] = cpu
    <3>1. Top(cpu.stack, cpu.depth)' = <<Phys(cpu.stack, current_pid), cpu.depth + 1>>
      BY <1>2, <1>4 DEF Top, Physical, Phys, FramesInv, FramesTypeOK
    <3> QED  BY <1>1, <1>3, <1>10, <3>1
  <2>2. CASE irq # "timer"
    BY <1>4, <2>2 DEF TimerOK
  <2>3. CASE irq = "timer"
    <3>1. DangersNow = {}
      BY <2>3 DEF Interrupt
    <3>2. \/ tick + 1 < SWITCH_TICK
          \/ \A p \in Queued : Running(p) => p = current_pid
      BY <3>1 DEF DangersNow, Borrowing
    <3> QED  BY <1>2, <3>2 DEF TimerOK, Queued, Running
  <2> QED  BY <2>2, <2>3
<1>17. LiveOK'
  BY <1>2, <1>4 DEF LiveOK, FramesInv
<1> QED  BY <1>7, <1>14, <1>15, <1>16, <1>17 DEF FramesInv

LEMMA InterruptInv ==
    ASSUME FramesInv, SchedInv, Dangers = {}, NEW irq \in Handler, Interrupt(irq)
    PROVE  FramesInv'
<1>1. cpu.at \in {"user", "kernel", "exit", "epilogue"}
  BY DEF Interrupt, Program
<1> QED  BY <1>1, CutProgram, CutOwn, CutBorrowed

\* A handler that does not switch goes on to its epilogue.
LEMMA HandlerEnds ==
    ASSUME FramesInv, SchedInv, cpu.at \in Handler,
           cpu' = [cpu EXCEPT !.at = "epilogue"],
           regs' \in [Pid -> AllRegs],
           \A q \in Pid \ {current_pid} : regs'[q] = regs[q],
           UNCHANGED <<mem, gs, cr3, left, current_pid, bstack>>
    PROVE  FramesInv'
<1> USE CpuFacts
<1>1. /\ cpu'.at = "epilogue" /\ cpu'.of = cpu.of
      /\ cpu'.stack = cpu.stack /\ cpu'.depth = cpu.depth
      /\ cpu' \in AllRegs
  BY DEF AllRegs, Code
<1>2. FramesTypeOK'
  BY <1>1 DEF FramesInv, FramesTypeOK
<1>3. InHandler /\ InHandler' /\ Borrowing' = Borrowing
  BY <1>1 DEF InHandler, Borrowing
<1>4. Borrowing => Base' = Base
  <2>1. CASE cpu.stack \in {IntStack, Virtual}
    BY <1>1, <2>1 DEF Base
  <2>2. CASE Borrowing /\ cpu.stack \notin {IntStack, Virtual}
    <3>1. cpu.of # current_pid
      BY <2>2 DEF FramesInv, BorrowOK
    <3> QED  BY <1>1, <2>2, <3>1 DEF Base
  <2> QED  BY <2>1, <2>2
<1>5. Borrowing => Pending' = Pending
  BY <1>1, <1>4 DEF Pending, Top, Physical
<1>6. \A q \in Pid : /\ q # current_pid \/ Borrowing => Own(q)' = Own(q)
                     /\ Own(q)'.stack = Own(q).stack
                     /\ Own(q)'.depth = Own(q).depth
                     /\ OwnTop(q)' = OwnTop(q)
  BY <1>1, <1>3, <1>5 DEF Own, OwnTop
<1>7. ASSUME NEW q \in Pid
      PROVE  OwnOK(q)'
  <2>1. OwnOK(q)
    OBVIOUS
  <2>2. OwnRegsOK(q)'
    <3>1. CASE q # current_pid \/ Borrowing
      BY <1>3, <1>6, <2>1, <3>1 DEF OwnOK, OwnRegsOK
    <3>2. CASE q = current_pid /\ ~Borrowing
      <4>1. /\ cpu.of = current_pid /\ cpu.stack = OwnStack(current_pid)
            /\ KernelDepth(current_pid) < cpu.depth
            /\ left[current_pid] = KernelRegs(current_pid)
        BY <1>3, <3>2, HandlerFacts
      <4>2. Own(q)' = cpu' /\ ~Borrowing'
        BY <1>3, <3>2 DEF Own
      <4> QED  BY <1>1, <3>2, <4>1, <4>2 DEF OwnRegsOK
    <3> QED  BY <3>1, <3>2
  <2>3. OwnFramesOK(q)' /\ FreeOK(q)'
    BY <1>1, <1>6, <2>1 DEF OwnOK, OwnFramesOK, FreeOK
  <2> QED  BY <2>2, <2>3 DEF OwnOK
<1>8. BorrowOK'
  <2>1. BorrowOK
    BY DEF FramesInv
  <2>2. Borrowing => Own(current_pid)' = Own(current_pid)
    BY <1>6
  <2>3. regs'[cpu.of].stack = regs[cpu.of].stack \/ cpu.of = current_pid
    OBVIOUS
  <2> QED  BY <1>1, <1>3, <1>4, <2>1, <2>2, <2>3 DEF BorrowOK, Top, Physical, Handler
<1>9. TimerOK'
  BY <1>1 DEF TimerOK
<1>10. LiveOK'
  BY <1>1 DEF LiveOK, FramesInv
<1> QED  BY <1>2, <1>7, <1>8, <1>9, <1>10 DEF FramesInv

-----------------------------------------------------------------------------
\* iretq pops the frame under the stack pointer and leaves nothing of it.
LEMMA IretqPops ==
    ASSUME FramesInv, SchedInv, Iretq
    PROVE  /\ InHandler /\ cpu.depth \in 1 .. MaxDepth
           /\ UNCHANGED <<schedVars, regs, gs, cr3, left>>
           /\ UNCHANGED <<current_pid, bstack, tick, length, state>>
           /\ Phys(cpu.stack, current_pid) \in Stack
           /\ \A q \in Pid : Phys(cpu.stack, current_pid) = OwnStack(q) <=> cpu.stack = OwnStack(q)
           /\ cpu' = mem[<<Phys(cpu.stack, current_pid), cpu.depth>>]
           /\ \A s \in Stack, d \in 1 .. MaxDepth :
                 mem'[<<s, d>>] = IF s = Phys(cpu.stack, current_pid) /\ d = cpu.depth
                                  THEN NoFrame ELSE mem[<<s, d>>]
           /\ cpu'.at # "fault" => FramesTypeOK'
<1> USE CpuFacts
<1>1. InHandler
  BY DEF Iretq, InHandler
<1>2. cpu.depth \in 1 .. MaxDepth
  BY <1>1, HandlerFacts
<1>3. /\ UNCHANGED <<schedVars, regs, gs, cr3, left>>
      /\ UNCHANGED <<current_pid, bstack, tick, length, state>>
  BY DEF Iretq, schedVars
<1>4. /\ Phys(cpu.stack, current_pid) \in Stack
      /\ \A q \in Pid : Phys(cpu.stack, current_pid) = OwnStack(q) <=> cpu.stack = OwnStack(q)
  BY PhysFacts
<1>5. /\ cpu' = mem[<<Phys(cpu.stack, current_pid), cpu.depth>>]
      /\ mem' = [mem EXCEPT ![<<Phys(cpu.stack, current_pid), cpu.depth>>] = NoFrame]
  BY DEF Iretq
<1>6. mem \in [Stack \X (1 .. MaxDepth) -> AllRegs]
  BY DEF FramesInv, FramesTypeOK
<1>7. \A s \in Stack, d \in 1 .. MaxDepth :
         mem'[<<s, d>>] = IF s = Phys(cpu.stack, current_pid) /\ d = cpu.depth
                          THEN NoFrame ELSE mem[<<s, d>>]
  BY <1>4, <1>5, <1>6
<1>8. cpu'.at # "fault" => FramesTypeOK'
  <2>1. cpu' \in AllRegs
    BY <1>2, <1>4, <1>5, <1>6
  <2>2. mem' \in [Stack \X (1 .. MaxDepth) -> AllRegs]
    BY <1>2, <1>4, <1>5, <1>6, ProgramFacts
  <2> QED  BY <1>3, <2>1, <2>2 DEF FramesInv, FramesTypeOK
<1> QED  BY <1>1, <1>2, <1>3, <1>4, <1>5, <1>7, <1>8

\* On its own stack, the current task goes back to the frame below.
LEMMA IretqOwn ==
    ASSUME FramesInv, SchedInv, Iretq, ~Borrowing
    PROVE  FramesInv' /\ (cpu'.at = "epilogue" \/ cpu' = left[current_pid])
<1> USE CpuFacts, IretqPops
<1>1. /\ cpu.of = current_pid /\ cpu.stack = OwnStack(current_pid)
      /\ KernelDepth(current_pid) < cpu.depth
      /\ left[current_pid] = KernelRegs(current_pid)
      /\ OwnTop(current_pid) = cpu.depth
      /\ mem[Top(cpu.stack, cpu.depth)] = OwnFrame(current_pid, cpu.depth)
  BY HandlerFacts
<1>2. cpu' = OwnFrame(current_pid, cpu.depth)
  BY <1>1
<1>3. KernelDepth(current_pid) \in Int /\ cpu.depth \in Int
  BY ProgramFacts
<1>4. \/ /\ cpu.depth = KernelDepth(current_pid) + 1
         /\ cpu' = KernelRegs(current_pid)
      \/ /\ cpu.depth - 1 > KernelDepth(current_pid)
         /\ cpu' = Regs("epilogue", current_pid, OwnStack(current_pid), cpu.depth - 1)
  BY <1>1, <1>2, <1>3 DEF OwnFrame
<1>5. /\ cpu'.of = current_pid /\ cpu'.stack = OwnStack(current_pid)
      /\ cpu'.depth = cpu.depth - 1
      /\ \/ cpu'.at = "kernel" /\ cpu' = KernelRegs(current_pid)
         \/ cpu'.at = "epilogue" /\ cpu'.depth > KernelDepth(current_pid)
  BY <1>3, <1>4, ProgramFacts, RegsFields
<1>6. FramesTypeOK'
  BY <1>5
<1>7. ~Borrowing'
  BY <1>5 DEF Borrowing
<1>8. Own(current_pid)' = cpu' /\ OwnTop(current_pid)' = cpu.depth - 1
  BY <1>5, <1>7 DEF Own, OwnTop
<1>9. OwnRegsOK(current_pid)'
  <2>1. left'[current_pid] = KernelRegs(current_pid)
    BY <1>1
  <2>2. cpu' = KernelRegs(current_pid) => cpu' \in ProgramRegs(current_pid)
    BY DEF ProgramRegs
  <2> QED  BY <1>5, <1>7, <1>8, <2>1, <2>2 DEF OwnRegsOK
<1>10. \A d \in 1 .. MaxDepth :
          mem'[<<OwnStack(current_pid), d>>]
            = IF d = cpu.depth THEN NoFrame ELSE mem[<<OwnStack(current_pid), d>>]
  BY <1>1, StackFacts
<1>11. OwnFramesOK(current_pid)'
  <2>1. OwnFramesOK(current_pid)
    BY DEF OwnOK
  <2>2. ASSUME NEW d \in 1 .. MaxDepth, d <= cpu.depth - 1
        PROVE  mem'[<<OwnStack(current_pid), d>>] = OwnFrame(current_pid, d)
    <3>1. d # cpu.depth /\ d <= cpu.depth
      BY <2>2, <1>3
    <3> QED  BY <1>1, <1>10, <2>1, <3>1 DEF OwnFramesOK
  <2> QED  BY <1>8, <2>2 DEF OwnFramesOK
<1>12. FreeOK(current_pid)'
  <2>1. FreeOK(current_pid)
    BY DEF OwnOK
  <2>2. ASSUME NEW d \in 1 .. MaxDepth, d > cpu.depth - 1
        PROVE  mem'[<<OwnStack(current_pid), d>>] = NoFrame
    <3>1. d = cpu.depth \/ d > cpu.depth
      BY <2>2, <1>3
    <3> QED  BY <1>1, <1>10, <2>1, <3>1 DEF FreeOK
  <2> QED  BY <1>8, <2>2 DEF FreeOK
<1>13. ASSUME NEW q \in Pid
       PROVE  OwnOK(q)'
  <2>1. CASE q = current_pid
    BY <1>9, <1>11, <1>12, <2>1 DEF OwnOK
  <2>2. CASE q # current_pid
    <3>1. cpu.stack # OwnStack(q) /\ OwnStack(q) \in Stack
      BY <1>1, <2>2, StackFacts
    <3>2. \A d \in 1 .. MaxDepth : mem'[<<OwnStack(q), d>>] = mem[<<OwnStack(q), d>>]
      BY <3>1
    <3> QED  BY <2>2, <3>1, <3>2, OthersApart
  <2> QED  BY <2>1, <2>2
<1>14. BorrowOK' /\ TimerOK'
  BY <1>5, <1>7 DEF BorrowOK, TimerOK
<1>15. LiveOK'
  BY <1>1, <1>5 DEF LiveOK, FramesInv
<1>16. cpu'.at = "epilogue" \/ cpu' = left[current_pid]
  BY <1>1, <1>5
<1> QED  BY <1>6, <1>13, <1>14, <1>15, <1>16 DEF FramesInv

\* Above the base of a borrowed stack, it goes back to the epilogue below.
LEMMA IretqBorrowed ==
    ASSUME FramesInv, SchedInv, Iretq, Borrowing, Base # cpu.depth
    PROVE  FramesInv' /\ cpu'.at = "epilogue"
<1> USE CpuFacts, IretqPops
<1>1. /\ Base \in 1 .. cpu.depth /\ Base < cpu.depth
      /\ cpu' = Regs("epilogue", cpu.of, cpu.stack, cpu.depth - 1)
      /\ cpu.stack # OwnStack(current_pid)
  BY HandlerFacts DEF Borrowing
<1>2. /\ cpu'.at = "epilogue" /\ cpu'.of = cpu.of
      /\ cpu'.stack = cpu.stack /\ cpu'.depth = cpu.depth - 1
  BY <1>1, RegsFields
<1>3. FramesTypeOK'
  BY <1>2
<1>4. InHandler' /\ Borrowing' /\ Base' = Base
  BY <1>1, <1>2 DEF InHandler, Borrowing, Base
<1>5. Pending' = Pending
  <2>1. Base \in 1 .. MaxDepth /\ Base # cpu.depth
    BY <1>1
  <2>2. Pending' = mem'[<<Phys(cpu.stack, current_pid), Base>>]
    BY <1>2, <1>4 DEF Pending, Top, Physical, Phys, FramesInv, FramesTypeOK
  <2>3. Pending = mem[<<Phys(cpu.stack, current_pid), Base>>]
    BY DEF Pending
  <2> QED  BY <2>1, <2>2, <2>3
<1>6. \A q \in Pid : Own(q)' = Own(q) /\ OwnTop(q)' = OwnTop(q)
  BY <1>4, <1>5 DEF Own, OwnTop
<1>7. ASSUME NEW q \in Pid, cpu.stack = OwnStack(q)
      PROVE  OwnTop(q) = Base - 1
  BY <1>7, LenderTop
<1>8. ASSUME NEW q \in Pid
      PROVE  OwnOK(q)'
  <2>1. OwnOK(q) /\ OwnStack(q) \in Stack
    BY StackFacts
  <2>2. OwnRegsOK(q)'
    BY <1>4, <1>6, <2>1 DEF OwnOK, OwnRegsOK
  <2>3. ASSUME NEW d \in 1 .. MaxDepth, d <= OwnTop(q)
        PROVE  mem'[<<OwnStack(q), d>>] = mem[<<OwnStack(q), d>>]
    <3>1. OwnStack(q) = cpu.stack => d # cpu.depth
      BY <1>1, <1>7, <2>3
    <3> QED  BY <2>1, <3>1
  <2>4. OwnFramesOK(q)'
    BY <1>6, <2>1, <2>3 DEF OwnOK, OwnFramesOK
  <2>5. ASSUME NEW d \in 1 .. MaxDepth, d > OwnTop(q),
               cpu.stack = OwnStack(q) => d > cpu.depth - 1
        PROVE  mem'[<<OwnStack(q), d>>] = NoFrame
    <3>1. CASE OwnStack(q) = cpu.stack /\ d = cpu.depth
      BY <2>1, <3>1
    <3>2. CASE ~(OwnStack(q) = cpu.stack /\ d = cpu.depth)
      <4>1. cpu.stack = OwnStack(q) => d > cpu.depth
        BY <2>5, <3>2
      <4>2. mem[<<OwnStack(q), d>>] = NoFrame
        BY <2>1, <2>5, <4>1 DEF OwnOK, FreeOK
      <4> QED  BY <2>1, <4>2
    <3> QED  BY <3>1, <3>2
  <2>6. FreeOK(q)'
    BY <1>2, <1>6, <2>5 DEF FreeOK
  <2> QED  BY <2>2, <2>4, <2>6 DEF OwnOK
<1>9. BorrowOK'
  <2>1. BorrowOK
    BY DEF FramesInv
  <2>2. ASSUME NEW d \in 1 .. MaxDepth, Base < d, d <= cpu.depth - 1
        PROVE  mem'[Top(cpu.stack, d)'] = Regs("epilogue", cpu.of, cpu.stack, d - 1)
    <3>1. Top(cpu.stack, d)' = <<Phys(cpu.stack, current_pid), d>>
      BY <1>2 DEF Top, Physical, Phys, FramesInv, FramesTypeOK
    <3>2. d <= cpu.depth /\ d # cpu.depth
      BY <2>2
    <3>3. mem[Top(cpu.stack, d)] = Regs("epilogue", cpu.of, cpu.stack, d - 1)
      BY <2>1, <2>2, <3>2 DEF BorrowOK
    <3> QED  BY <3>1, <3>2, <3>3
  <2>3. Base \in 1 .. cpu.depth - 1
    BY <1>1
  <2> QED  BY <1>2, <1>4, <1>6, <2>1, <2>2, <2>3 DEF BorrowOK, Handler
<1>10. TimerOK'
  BY <1>2 DEF TimerOK
<1>11. LiveOK'
  BY <1>2 DEF LiveOK, FramesInv
<1> QED  BY <1>2, <1>3, <1>8, <1>9, <1>10, <1>11 DEF FramesInv

\* At its base, it goes back to the registers of the current task.
LEMMA IretqBase ==
    ASSUME FramesInv, SchedInv, Iretq, Borrowing, Base = cpu.depth
    PROVE  FramesInv' /\ (cpu'.at = "epilogue" \/ cpu' = left[current_pid])
<1> USE CpuFacts, IretqPops
<1>1. cpu' = Own(current_pid) /\ cpu.stack # OwnStack(current_pid)
  BY HandlerFacts DEF Borrowing
<1>2. OwnOK(current_pid)
  OBVIOUS
<1>3. \/ /\ cpu' \in ProgramRegs(current_pid) /\ cpu' = left[current_pid]
         /\ cpu'.at \in Program
         /\ cpu'.stack \in {Virtual, OwnStack(current_pid)}
      \/ /\ cpu'.at = "epilogue"
         /\ cpu'.of = current_pid
         /\ cpu'.stack = OwnStack(current_pid)
         /\ cpu'.depth > KernelDepth(current_pid)
         /\ left[current_pid] = KernelRegs(current_pid)
  <2>1. ASSUME NEW r \in ProgramRegs(current_pid)
        PROVE  r.at \in Program /\ r.stack \in {Virtual, OwnStack(current_pid)}
    BY ProgramFacts, RegsFields DEF ProgramRegs, Program
  <2> QED  BY <1>1, <1>2, <2>1 DEF OwnOK, OwnRegsOK
<1>4. FramesTypeOK'
  BY <1>3 DEF Program
<1>5. ~Borrowing'
  BY <1>3 DEF Borrowing, InHandler, Program, Handler
<1>6. Own(current_pid)' = Own(current_pid)
  BY <1>1, <1>5 DEF Own
<1>7. OwnTop(current_pid)' = OwnTop(current_pid)
  BY <1>6 DEF OwnTop
<1>8. ASSUME NEW q \in Pid, cpu.stack = OwnStack(q)
      PROVE  OwnTop(q) = Base - 1
  BY <1>8, LenderTop
<1>9. OwnOK(current_pid)'
  <2>1. OwnRegsOK(current_pid)'
    BY <1>3, <1>5, <1>6, <1>1 DEF OwnRegsOK
  <2>2. \A d \in 1 .. MaxDepth :
           mem'[<<OwnStack(current_pid), d>>] = mem[<<OwnStack(current_pid), d>>]
    BY <1>1, StackFacts
  <2>3. OwnFramesOK(current_pid)'
    BY <1>2, <1>7, <2>2 DEF OwnOK, OwnFramesOK
  <2>4. FreeOK(current_pid)'
    BY <1>1, <1>2, <1>7, <2>2 DEF OwnOK, FreeOK
  <2> QED  BY <2>1, <2>3, <2>4 DEF OwnOK
<1>10. ASSUME NEW q \in Pid, q # current_pid
       PROVE  OwnOK(q)'
  <2>1. OwnStack(q) \in Stack /\ OwnOK(q)
    BY StackFacts
  <2>2. ASSUME NEW d \in 1 .. MaxDepth, d <= OwnTop(q)
        PROVE  mem'[<<OwnStack(q), d>>] = mem[<<OwnStack(q), d>>]
    <3>1. OwnStack(q) = cpu.stack => d # cpu.depth
      BY <1>8, <2>2
    <3> QED  BY <2>1, <3>1
  <2>3. ASSUME NEW d \in 1 .. MaxDepth, d > OwnTop(q)
        PROVE  mem'[<<OwnStack(q), d>>] = NoFrame
    <3>1. CASE OwnStack(q) = cpu.stack /\ d = cpu.depth
      BY <2>1, <3>1
    <3>2. CASE ~(OwnStack(q) = cpu.stack /\ d = cpu.depth)
      <4>1. cpu.stack = OwnStack(q) => d > cpu.depth
        BY <1>8, <2>3, <3>2
      <4>2. mem[<<OwnStack(q), d>>] = NoFrame
        BY <2>1, <2>3, <4>1 DEF OwnOK, FreeOK
      <4> QED  BY <2>1, <4>2
    <3> QED  BY <3>1, <3>2
  <2> QED  BY <1>10, <2>2, <2>3, OthersKeep
<1>11. \A q \in Pid : OwnOK(q)'
  <2>1. ASSUME NEW q \in Pid, q = current_pid
        PROVE  OwnOK(q)'
    BY <1>9, <2>1 DEF OwnOK, OwnRegsOK, OwnFramesOK, FreeOK
  <2> QED  BY <1>10, <2>1
<1>12. BorrowOK' /\ TimerOK'
  BY <1>3, <1>5 DEF BorrowOK, TimerOK, Program
<1>13. LiveOK'
  <2>1. ASSUME NEW p \in Pid \ {Boot}, cpu'.stack = KernelStack(p)
        PROVE  p \in bstack
    <3>1. p = current_pid
      BY <1>3, <2>1, StackFacts
    <3> QED  BY <2>1, <3>1 DEF SchedInv, SchedTypeOK, StackOutlivesTask
  <2> QED  BY <2>1 DEF LiveOK
<1> QED  BY <1>3, <1>4, <1>11, <1>12, <1>13 DEF FramesInv

-----------------------------------------------------------------------------
\* The timer's handler switches from one task to another: it cut the old one
\* in user mode, and goes on at the bottom of the interrupt's stack, or on
\* its kernel stack, and goes on there above what the old one keeps.
LEMMA SwitchFrames ==
    ASSUME FramesInv, SchedInv, cpu.at = "timer",
           tick + 1 >= SWITCH_TICK,
           NEW p \in Queued, Running(p), p # current_pid,
           NEW f, f = mem[Top(cpu.stack, cpu.depth)]
    PROVE  \/ /\ ~Borrowing
              /\ f.stack = OwnStack(current_pid) /\ f.depth = cpu.depth - 1
              /\ f.of = current_pid
              /\ \/ f = KernelRegs(current_pid) /\ f.at = "kernel"
                 \/ f.at = "epilogue" /\ f.depth > KernelDepth(current_pid)
           \/ /\ Borrowing
              /\ cpu.stack = IntStack /\ cpu.depth = 1 /\ Base = 1
              /\ f = UserRegs(current_pid) /\ Own(current_pid) = f
<1> USE CpuFacts
<1>1. InHandler /\ cpu.at \in Handler
  BY DEF InHandler, Handler
<1>2. f.at # "exit" /\ (f.at = "epilogue" => f.stack = OwnStack(current_pid))
  <2>1. tick \in Int /\ SWITCH_TICK \in Int
    BY SchedAssumption DEF SchedInv, SchedTypeOK
  <2> QED  BY <2>1 DEF FramesInv, TimerOK
<1>3. CASE ~Borrowing
  <2>1. f = OwnFrame(current_pid, cpu.depth) /\ KernelDepth(current_pid) < cpu.depth
    BY <1>1, <1>3, HandlerFacts
  <2>2. KernelDepth(current_pid) \in Int /\ cpu.depth \in Int
    BY ProgramFacts
  <2>3. \/ /\ cpu.depth = KernelDepth(current_pid) + 1
           /\ f = KernelRegs(current_pid)
        \/ /\ cpu.depth - 1 > KernelDepth(current_pid)
           /\ f = Regs("epilogue", current_pid, OwnStack(current_pid), cpu.depth - 1)
    BY <2>1, <2>2 DEF OwnFrame
  <2> QED  BY <1>3, <2>2, <2>3, ProgramFacts, RegsFields
<1>4. CASE Borrowing
  <2>1. /\ Base \in 1 .. cpu.depth
        /\ Own(current_pid) = mem[Top(cpu.stack, Base)]
        /\ Base < cpu.depth => f = Regs("epilogue", cpu.of, cpu.stack, cpu.depth - 1)
    BY <1>1, <1>4, HandlerFacts
  <2>2. Base = cpu.depth
    <3>1. CASE Base < cpu.depth
      <4>1. f.at = "epilogue" /\ f.stack = cpu.stack
        BY <2>1, <3>1, RegsFields
      <4> QED  BY <1>2, <1>4, <4>1 DEF Borrowing
    <3> QED  BY <2>1, <3>1
  <2>3. f = Own(current_pid)
    BY <2>1, <2>2
  <2>4. cpu.stack # Virtual
    <3>1. CASE cpu.stack = Virtual
      <4>1. f = ExitRegs(current_pid)
        BY <1>4, <2>3, <3>1 DEF FramesInv, BorrowOK
      <4> QED  BY <1>2, <4>1, ProgramFacts, RegsFields
    <3> QED  BY <3>1
  <2>5. cpu.stack = IntStack /\ f = UserRegs(current_pid)
    BY <1>1, <1>4, <2>2, <2>3, <2>4 DEF FramesInv, BorrowOK
  <2>6. Base = 1
    BY <2>5 DEF Base
  <2> QED  BY <1>4, <2>2, <2>3, <2>5, <2>6
<1> QED  BY <1>3, <1>4

LEMMA TimerSwitch ==
    ASSUME FramesInv, SchedInv, cpu.at = "timer",
           tick + 1 >= SWITCH_TICK,
           NEW c \in Pid, c = current_pid,
           NEW p \in Queued, Running(p), p # c,
           current_pid' = p, gs' = p, cr3' = p, UNCHANGED <<left, bstack>>,
           regs' = [regs EXCEPT ![current_pid] = mem[Top(cpu.stack, cpu.depth)]],
           mem' = [mem EXCEPT ![Top(cpu.stack, cpu.depth)] = regs'[p]],
           cpu' = [cpu EXCEPT !.at = "epilogue"]
    PROVE  FramesInv'
<1> USE CpuFacts
<1> DEFINE f == mem[Top(cpu.stack, cpu.depth)]
<1>1. /\ p \in Pid /\ p # c
      /\ mem \in [Stack \X (1 .. MaxDepth) -> AllRegs]
      /\ regs \in [Pid -> AllRegs]
      /\ InHandler
  BY DEF FramesInv, FramesTypeOK, InHandler, Handler
<1>2. /\ cpu.depth \in 1 .. MaxDepth
      /\ Top(cpu.stack, cpu.depth) \in Stack \X (1 .. MaxDepth)
      /\ f \in AllRegs
  BY <1>1, HandlerFacts
<1>3. \/ /\ ~Borrowing
         /\ f.stack = OwnStack(c) /\ f.depth = cpu.depth - 1 /\ f.of = c
         /\ \/ f = KernelRegs(c) /\ f.at = "kernel"
            \/ f.at = "epilogue" /\ f.depth > KernelDepth(c)
      \/ /\ Borrowing
         /\ cpu.stack = IntStack /\ cpu.depth = 1 /\ Base = 1
         /\ f = UserRegs(c) /\ Own(c) = f
  BY SwitchFrames
<1>4. ~Borrowing =>
         /\ cpu.of = c /\ cpu.stack = OwnStack(c) /\ KernelDepth(c) < cpu.depth
         /\ left[c] = KernelRegs(c) /\ OwnTop(c) = cpu.depth
  BY <1>1, HandlerFacts
<1>5. cpu.stack \in {IntStack, OwnStack(c)} /\ cpu.stack \in Stack
  BY <1>3, <1>4
<1>6. /\ \A s \in {IntStack, OwnStack(c)} : Phys(s, c) = s /\ Phys(s, p) = s
      /\ Top(cpu.stack, cpu.depth) = <<cpu.stack, cpu.depth>>
  BY <1>1, <1>5, PhysFacts
<1> HIDE DEF f
<1>7. /\ cpu'.at = "epilogue" /\ cpu'.of = cpu.of
      /\ cpu'.stack = cpu.stack /\ cpu'.depth = cpu.depth
      /\ cpu' \in AllRegs
  BY DEF AllRegs, Code
<1>8. /\ regs' = [regs EXCEPT ![c] = f]
      /\ regs' \in [Pid -> AllRegs] /\ regs'[c] = f
      /\ \A q \in Pid \ {c} : regs'[q] = regs[q]
  BY <1>1, <1>2 DEF f
<1>9. /\ mem' = [mem EXCEPT ![<<cpu.stack, cpu.depth>>] = regs[p]]
      /\ mem' \in [Stack \X (1 .. MaxDepth) -> AllRegs]
      /\ mem'[<<cpu.stack, cpu.depth>>] = regs[p]
      /\ \A s \in Stack, d \in 1 .. MaxDepth :
            ~(s = cpu.stack /\ d = cpu.depth) => mem'[<<s, d>>] = mem[<<s, d>>]
  <2>1. mem' = [mem EXCEPT ![<<cpu.stack, cpu.depth>>] = regs[p]]
    BY <1>1, <1>6, <1>8
  <2>2. regs[p] \in AllRegs
    BY <1>1
  <2> QED  BY <1>1, <1>2, <1>5, <2>1, <2>2
<1>10. FramesTypeOK'
  BY <1>7, <1>8, <1>9 DEF FramesInv, FramesTypeOK
<1>11. InHandler' /\ Borrowing'
  BY <1>1, <1>5, <1>7, StackFacts DEF InHandler, Borrowing
<1>12. Base' = cpu.depth
  <2>1. CASE Borrowing
    BY <1>3, <1>7, <2>1 DEF Base
  <2>2. CASE ~Borrowing
    <3>1. cpu'.stack = OwnStack(c) /\ cpu'.of = c /\ cpu'.stack \notin {IntStack, Virtual}
      BY <1>1, <1>4, <1>7, <2>2, StackFacts
    <3>2. Base' = regs'[c].depth + 1
      BY <3>1 DEF Base
    <3> QED  BY <1>2, <1>3, <1>8, <2>2, <3>2
  <2> QED  BY <2>1, <2>2
<1>13. Pending' = regs[p]
  <2>1. Pending' = mem'[<<Phys(cpu.stack, p), cpu.depth>>]
    BY <1>7, <1>12 DEF Pending, Top, Physical, Phys
  <2> QED  BY <1>5, <1>6, <1>9, <2>1
<1>14. /\ \A q \in Pid \ {c} : Own(q)' = Own(q) /\ OwnTop(q)' = OwnTop(q)
       /\ Own(c)' = f
  <2>1. \A q \in Pid : Own(q)' = IF q # p THEN regs'[q] ELSE Pending'
    BY <1>11 DEF Own
  <2>2. \A q \in Pid \ {c} : Own(q) = regs[q]
    BY DEF Own
  <2>3. \A q \in Pid \ {c} : Own(q)' = Own(q)
    BY <1>8, <1>13, <2>1, <2>2
  <2>4. Own(c)' = f
    BY <1>1, <1>8, <2>1
  <2> QED  BY <2>3, <2>4 DEF OwnTop
<1>15. OwnStack(c) \in Stack /\ OwnStack(c) # IntStack
       /\ \A q \in Pid : OwnStack(q) = OwnStack(c) => q = c
  BY StackFacts
<1>16. ASSUME NEW q \in Pid, q # c
       PROVE  OwnOK(q)'
  <2>1. OwnOK(q) /\ OwnStack(q) # cpu.stack /\ OwnStack(q) \in Stack
    BY <1>5, <1>15, <1>16, StackFacts
  <2>2. OwnRegsOK(q)'
    BY <1>11, <1>14, <1>16, <2>1 DEF OwnOK, OwnRegsOK
  <2>3. \A d \in 1 .. MaxDepth : mem'[<<OwnStack(q), d>>] = mem[<<OwnStack(q), d>>]
    BY <1>9, <2>1
  <2>4. OwnFramesOK(q)'
    BY <1>14, <1>16, <2>1, <2>3 DEF OwnOK, OwnFramesOK
  <2>5. FreeOK(q)'
    BY <1>7, <1>14, <1>16, <2>1, <2>3 DEF OwnOK, FreeOK
  <2> QED  BY <2>2, <2>4, <2>5 DEF OwnOK
<1>17. OwnRegsOK(c)'
  <2>1. CASE Borrowing
    <3>1. Own(c).at = "user" /\ OwnRegsOK(c)
      BY <1>3, <2>1, ProgramFacts, RegsFields DEF OwnOK
    <3>2. Own(c)' = Own(c)
      BY <1>3, <1>14, <2>1
    <3> QED  BY <1>11, <2>1, <3>1, <3>2 DEF OwnRegsOK, Handler
  <2>2. CASE ~Borrowing
    <3>1. left[c] = KernelRegs(c)
      BY <1>4, <2>2
    <3>2. f = KernelRegs(c) => f \in ProgramRegs(c)
      BY DEF ProgramRegs
    <3> QED  BY <1>3, <1>14, <2>2, <3>1, <3>2 DEF OwnRegsOK, Handler, Program
  <2> QED  BY <2>1, <2>2
<1>18. /\ OwnTop(c)' = IF Borrowing THEN 0 ELSE cpu.depth - 1
       /\ OwnTop(c) = IF Borrowing THEN 0 ELSE cpu.depth
  <2>1. CASE Borrowing
    <3>1. f.stack = Virtual /\ Virtual # OwnStack(c)
      BY <1>3, <2>1, ProgramFacts, RegsFields, StackFacts
    <3> QED  BY <1>3, <1>14, <2>1, <3>1 DEF OwnTop
  <2>2. CASE ~Borrowing
    BY <1>3, <1>4, <1>14, <2>2 DEF OwnTop
  <2> QED  BY <2>1, <2>2
<1>19. OwnFramesOK(c)' /\ FreeOK(c)'
  <2>1. OwnFramesOK(c) /\ FreeOK(c)
    BY DEF OwnOK
  <2>2. CASE Borrowing
    <3>1. cpu.stack # OwnStack(c)
      BY <2>2 DEF Borrowing
    <3>2. \A d \in 1 .. MaxDepth : mem'[<<OwnStack(c), d>>] = mem[<<OwnStack(c), d>>]
      BY <1>9, <1>15, <3>1
    <3> QED  BY <1>7, <1>18, <2>1, <2>2, <3>1, <3>2 DEF OwnFramesOK, FreeOK
  <2>3. CASE ~Borrowing
    <3>1. cpu.stack = OwnStack(c) /\ cpu.depth \in Int
      BY <1>4, <2>3
    <3>2. ASSUME NEW d \in 1 .. MaxDepth, d <= cpu.depth - 1
          PROVE  mem'[<<OwnStack(c), d>>] = OwnFrame(c, d)
      <4>1. d # cpu.depth /\ d <= cpu.depth
        BY <3>1, <3>2
      <4> QED  BY <1>9, <1>15, <1>18, <2>1, <2>3, <4>1 DEF OwnFramesOK
    <3>3. ASSUME NEW d \in 1 .. MaxDepth, d > cpu.depth
          PROVE  mem'[<<OwnStack(c), d>>] = NoFrame
      <4>1. d # cpu.depth
        BY <3>1, <3>3
      <4> QED  BY <1>9, <1>15, <1>18, <2>1, <2>3, <3>3, <4>1 DEF FreeOK
    <3> QED  BY <1>7, <1>18, <2>3, <3>1, <3>2, <3>3 DEF OwnFramesOK, FreeOK
  <2> QED  BY <2>2, <2>3
<1>20. \A q \in Pid : OwnOK(q)'
  BY <1>16, <1>17, <1>19 DEF OwnOK
<1>21. BorrowOK'
  <2>1. Base' \in 1 .. cpu'.depth
    BY <1>2, <1>7, <1>12
  <2>2. cpu'.stack # Virtual
    BY <1>5, <1>7, StackFacts
  <2>3. cpu'.stack \notin {IntStack, Virtual} =>
           /\ cpu'.of # p
           /\ cpu'.stack = OwnStack(cpu'.of)
           /\ regs'[cpu'.of].stack = OwnStack(cpu'.of)
    BY <1>1, <1>3, <1>4, <1>7, <1>8
  <2>4. \A d \in 1 .. MaxDepth : ~(Base' < d /\ d <= cpu'.depth)
    BY <1>2, <1>7, <1>12
  <2>5. cpu'.at \notin Handler
    BY <1>7 DEF Handler
  <2> QED  BY <2>1, <2>2, <2>3, <2>4, <2>5 DEF BorrowOK
<1>22. TimerOK' /\ LiveOK'
  BY <1>7 DEF TimerOK, LiveOK, FramesInv
<1> QED  BY <1>10, <1>20, <1>21, <1>22 DEF FramesInv

LEMMA TimerInv ==
    ASSUME FramesInv, SchedInv, TimerHandler
    PROVE  FramesInv'
<1> USE CpuFacts
<1>1. /\ cpu.at = "timer" /\ cpu.at \in Handler /\ InHandler
      /\ cpu' = [cpu EXCEPT !.at = "epilogue"]
      /\ UNCHANGED <<left, bstack>>
  BY DEF TimerHandler, sched_yield, Handler, InHandler
<1>2. CASE ~(tick + 1 >= SWITCH_TICK)
  <2>1. UNCHANGED <<mem, regs, gs, cr3, current_pid>>
    BY <1>2 DEF TimerHandler, sched_yield
  <2> QED  BY <1>1, <2>1, HandlerEnds DEF FramesInv, FramesTypeOK
<1>3. CASE tick + 1 >= SWITCH_TICK
  <2>1. PICK p \in Queued : Running(p) /\ current_pid' = p
    BY <1>3 DEF TimerHandler, sched_yield, next_pid, SwitchTo
  <2>2. /\ regs' = [regs EXCEPT ![current_pid] = mem[Top(cpu.stack, cpu.depth)]]
        /\ mem' = [mem EXCEPT ![Top(cpu.stack, cpu.depth)] = regs'[p]]
        /\ gs' = p /\ cr3' = p
    BY <1>3, <2>1 DEF TimerHandler, context_save, context_switch
  <2>3. CASE p # current_pid
    BY <1>1, <1>3, <2>1, <2>2, <2>3, TimerSwitch
  <2>4. CASE p = current_pid
    <3>1. /\ mem \in [Stack \X (1 .. MaxDepth) -> AllRegs]
          /\ regs \in [Pid -> AllRegs]
          /\ gs = current_pid /\ cr3 = current_pid
          /\ Top(cpu.stack, cpu.depth) \in Stack \X (1 .. MaxDepth)
      BY <1>1, HandlerFacts DEF FramesInv, FramesTypeOK
    <3>2. /\ regs'[p] = mem[Top(cpu.stack, cpu.depth)]
          /\ regs' \in [Pid -> AllRegs]
          /\ \A q \in Pid \ {current_pid} : regs'[q] = regs[q]
      BY <2>2, <2>4, <3>1
    <3>3. mem' = mem
      BY <2>2, <3>1, <3>2
    <3>4. UNCHANGED <<mem, gs, cr3, left, current_pid, bstack>>
      BY <1>1, <2>1, <2>2, <2>4, <3>1, <3>3
    <3> QED  BY <1>1, <3>2, <3>4, HandlerEnds
  <2> QED  BY <2>3, <2>4
<1> QED  BY <1>2, <1>3

-----------------------------------------------------------------------------
\* The boot starts on its own stack, and no other task has run.
LEMMA FramesInitInv == FramesInit => FramesInv
<1> SUFFICES ASSUME FramesInit
             PROVE  FramesInv
  OBVIOUS
<1>1. /\ current_pid = Boot /\ Boot \in Pid /\ gs = Boot /\ cr3 = Boot
      /\ MaxDepth \in Nat /\ MaxDepth >= 1
      /\ bstack = {}
  BY SchedAssumption, FramesAssumption DEF FramesInit, sched_init, Boot, Pid
<1>2. cpu = KernelRegs(Boot)
  BY <1>1, StackFacts, ProgramFacts DEF FramesInit
<1>3. /\ cpu.at = "kernel" /\ cpu.stack = OwnStack(Boot) /\ cpu.depth = 0
      /\ cpu \in AllRegs
  BY <1>1, <1>2, ProgramFacts, RegsFields
<1>4. /\ regs = [p \in Pid |-> IF p = Boot THEN NoFrame ELSE context_create(p)]
      /\ left = regs
      /\ mem = [slot \in Stack \X (1 .. MaxDepth) |-> NoFrame]
  BY DEF FramesInit
<1>5. \A q \in Pid \ {Boot} : regs[q] = UserRegs(q) /\ left[q] = UserRegs(q)
  BY <1>4 DEF UserRegs
<1>6. FramesTypeOK
  <2>1. NoFrame \in AllRegs /\ \A q \in Pid : context_create(q) \in AllRegs
    BY ProgramFacts DEF UserRegs
  <2>2. regs \in [Pid -> AllRegs] /\ left \in [Pid -> AllRegs]
    BY <1>4, <2>1
  <2>3. mem \in [Stack \X (1 .. MaxDepth) -> AllRegs]
    BY <1>4, <2>1
  <2> QED  BY <1>1, <1>3, <2>2, <2>3 DEF FramesTypeOK
<1>7. ~InHandler /\ ~Borrowing
  BY <1>3 DEF InHandler, Borrowing, Handler
<1>8. \A q \in Pid : Own(q) = IF q = Boot THEN cpu ELSE UserRegs(q)
  BY <1>1, <1>5, <1>7 DEF Own
<1>9. \A q \in Pid : OwnTop(q) = 0
  <2>1. ASSUME NEW q \in Pid
        PROVE  OwnTop(q) = 0
    BY <1>3, <1>8, StackFacts, ProgramFacts, RegsFields DEF OwnTop
  <2> QED  BY <2>1
<1>10. ASSUME NEW q \in Pid
       PROVE  OwnOK(q)
  <2>1. OwnRegsOK(q)
    <3>1. CASE q = Boot
      BY <1>1, <1>2, <1>7, <1>8, <3>1 DEF OwnRegsOK, ProgramRegs
    <3>2. CASE q # Boot
      <4>1. UserRegs(q).at = "user"
        BY ProgramFacts, RegsFields
      <4> QED  BY <1>1, <1>5, <1>7, <1>8, <3>2, <4>1 DEF OwnRegsOK, ProgramRegs, Handler
    <3> QED  BY <3>1, <3>2
  <2>2. OwnFramesOK(q)
    BY <1>9 DEF OwnFramesOK
  <2>3. FreeOK(q)
    BY <1>4, StackFacts DEF FreeOK
  <2> QED  BY <2>1, <2>2, <2>3 DEF OwnOK
<1>11. BorrowOK /\ TimerOK
  BY <1>3, <1>7 DEF BorrowOK, TimerOK
<1>12. LiveOK
  BY <1>3, StackFacts DEF LiveOK
<1> QED  BY <1>6, <1>10, <1>11, <1>12 DEF FramesInv

\* Every step of the processor is a step of the scheduler or none.
LEMMA FramesStepSched == [FramesNext]_vars => [SchedNext]_schedVars
BY DEF FramesNext, vars, Interrupt, TimerHandler, DeviceHandler, Iretq, PushTask, Idle, Syscall,
   Unlock, ForceYield, Exit, PopAll, Sysret, SchedNext

\* Every step keeps the account of the frames.
LEMMA FramesNextInv ==
    ASSUME FramesInv, SchedInv, Dangers = {}, [FramesNext]_vars
    PROVE  FramesInv'
<1>1. ASSUME NEW irq \in Handler, Interrupt(irq)
      PROVE  FramesInv'
  BY <1>1, InterruptInv
<1>2. CASE TimerHandler
  BY <1>2, TimerInv
<1>3. CASE DeviceHandler
  <2>1. /\ cpu.at \in Handler /\ cpu' = [cpu EXCEPT !.at = "epilogue"]
        /\ UNCHANGED <<mem, regs, gs, cr3, left, current_pid, bstack>>
    BY <1>3 DEF DeviceHandler, Handler, schedVars
  <2>2. regs' \in [Pid -> AllRegs]
    BY <2>1 DEF FramesInv, FramesTypeOK
  <2> QED  BY <2>1, <2>2, HandlerEnds
<1>4. CASE Iretq
  BY <1>4, IretqOwn, IretqBorrowed, IretqBase
<1>5. CASE PushTask \/ Idle \/ Unlock \/ ForceYield \/ Exit
  <2>1. /\ cpu.at = "kernel"
        /\ UNCHANGED <<cpu, mem, regs, gs, cr3, left, current_pid>>
        /\ bstack \subseteq bstack' \/ cpu.of = Boot
    BY <1>5 DEF PushTask, Idle, Unlock, ForceYield, Exit, InSyscall, cpuVars, schedVars,
       sched_push_task, sched_idle, sched_force_yield, syscall_exit
  <2> QED  BY <2>1, QuietInv
<1>6. CASE Syscall
  BY <1>6, SyscallInv
<1>7. CASE PopAll
  BY <1>7, PopAllInv
<1>8. CASE Sysret
  BY <1>8, SysretInv
<1>9. CASE UNCHANGED vars
  <2>1. UNCHANGED <<schedVars, cpu, mem, regs, gs, cr3, left>>
    BY <1>9 DEF vars, cpuVars
  <2>2. UNCHANGED <<current_pid, bstack, tick, length, state>>
    BY <2>1 DEF schedVars
  <2>3. Borrowing' = Borrowing /\ Base' = Base /\ Pending' = Pending
    BY <2>1, <2>2 DEF Borrowing, InHandler, Base, Pending, Top, Physical
  <2>4. FramesTypeOK' /\ LiveOK'
    BY <2>1, <2>2 DEF FramesInv, FramesTypeOK, LiveOK
  <2>5. ASSUME NEW q \in Pid
        PROVE  OwnOK(q)'
    <3>1. Own(q)' = Own(q) /\ OwnTop(q)' = OwnTop(q)
      BY <2>3, <2>1, <2>2 DEF Own, OwnTop
    <3>2. OwnOK(q)
      BY DEF FramesInv
    <3> QED  BY <2>1, <2>2, <2>3, <3>1, <3>2 DEF OwnOK, OwnRegsOK, OwnFramesOK, FreeOK
  <2>6. BorrowOK'
    <3>1. Own(current_pid)' = Own(current_pid)
      BY <2>1, <2>2, <2>3 DEF Own
    <3> QED  BY <2>1, <2>2, <2>3, <3>1 DEF FramesInv, BorrowOK, Top, Physical
  <2>7. TimerOK'
    BY <2>1, <2>2 DEF FramesInv, TimerOK, Queued, Running, Top, Physical
  <2> QED  BY <2>4, <2>5, <2>6, <2>7 DEF FramesInv
<1> QED  BY <1>1, <1>2, <1>3, <1>4, <1>5, <1>6, <1>7, <1>8, <1>9 DEF FramesNext

\* Whatever interrupts and switches do, the scheduler beneath them behaves
\* as module Sched says, and what is proved of it holds: the round robin is
\* fair and no kernel stack is freed under a task.
THEOREM FramesImplementSched == FramesSpec => SchedSafety
<1>1. FramesInit => SchedInit
  BY DEF FramesInit, SchedInit
<1> QED  BY <1>1, FramesStepSched, PTL DEF FramesSpec, SchedSafety

\* The account of every frame holds in every reachable state.
THEOREM FramesInvariance == Dangers = {} /\ FramesSpec => [](FramesInv /\ SchedInv)
<1>1. ASSUME Dangers = {}
      PROVE  FramesSpec => [](FramesInv /\ SchedInv)
  <2>1. FramesInv /\ SchedInv /\ [FramesNext]_vars => FramesInv'
    BY <1>1, FramesNextInv
  <2> QED  BY <2>1, FramesInitInv, FramesImplementSched, SchedInvariance, PTL DEF FramesSpec
<1> QED  BY <1>1

\* When the reaper has freed the kernel stack of a task, neither the
\* processor nor a task that can still run has a frame on it: a handler that
\* goes on there after the switch away from the task is through before the
\* boot task, which alone reaps, is back in its loop.
THEOREM FramesFreedUnused == Dangers = {} /\ FramesSpec => []FreedStackUnused
<1>1. FramesInv /\ SchedInv => FreedStackUnused
  <2> SUFFICES ASSUME FramesInv, SchedInv, NEW p \in Queued \ {Boot}, p \notin bstack
               PROVE  /\ cpu.stack # KernelStack(p)
                      /\ \A q \in Queued \ {p, current_pid} :
                            Running(q) => regs[q].stack # KernelStack(p)
    BY DEF FreedStackUnused
  <2>1. cpu.stack # KernelStack(p)
    BY CpuFacts DEF FramesInv, LiveOK
  <2>2. ASSUME NEW q \in Queued \ {p, current_pid}
        PROVE  regs[q].stack # KernelStack(p)
    <3>1. q \in Pid /\ p \in Pid /\ OwnRegsOK(q) /\ Own(q) = regs[q]
      BY CpuFacts DEF OwnOK, Own
    <3>2. regs[q].stack \in {Virtual, OwnStack(q)}
      BY <3>1, ProgramFacts, RegsFields DEF OwnRegsOK, ProgramRegs
    <3> QED  BY <3>1, <3>2, StackFacts
  <2> QED  BY <2>1, <2>2
<1> QED  BY <1>1, FramesInvariance, PTL

\* iretq gives a program back the registers that it was last cut with,
\* whatever tasks and handlers ran in between and on whatever stack.
THEOREM FramesResumeOwn == Dangers = {} /\ FramesSpec => ResumesOwn
<1>1. FramesInv /\ SchedInv /\ [FramesNext]_vars =>
         [Iretq => cpu'.at = "epilogue" \/ cpu' = left[current_pid]]_vars
  BY IretqOwn, IretqBorrowed, IretqBase
<1> QED  BY <1>1, FramesInvariance, PTL DEF FramesSpec, ResumesOwn

\* A system call starts on the kernel stack of its own task, and although
\* the entry always starts at the top, it overwrites nothing: no handler and
\* no task that was switched away from has a frame there.
THEOREM FramesEnterFree == Dangers = {} /\ FramesSpec => EntersOnFreeStack
<1>1. FramesInv /\ SchedInv /\ [FramesNext]_vars =>
         [Syscall => /\ cpu'.stack = KernelStack(current_pid)
                     /\ \A d \in 1 .. MaxDepth : mem[<<cpu'.stack, d>>] = NoFrame]_vars
  BY SyscallInv
<1> QED  BY <1>1, FramesInvariance, PTL DEF FramesSpec, EntersOnFreeStack
=============================================================================
