---------------------------- MODULE KernelProofs ----------------------------
(***************************************************************************)
(* The kernel as the processor runs it, interrupt by interrupt, is still   *)
(* the scheduler of module Sched: however the timer cuts the operations,   *)
(* each instruction is one of the scheduler's steps or none.  What is      *)
(* proved of the scheduler holds of it, for any length of the slices.      *)
(*                                                                         *)
(* Then, for any length of the slices and any timing of the interrupts:    *)
(* the locks are taken in one order, and the searches of pmm_alloc, which  *)
(* take no lock, exclude each other.  The code of a context is followed    *)
(* instruction by instruction once, in a lemma for each function of the    *)
(* kernel; the inductive invariant says that what a task has left is such  *)
(* code, with the locks it holds.                                          *)
(***************************************************************************)
EXTENDS Kernel, SchedProofs, SequenceTheorems

\* An instruction, or an interrupt, is one of the scheduler's steps or none.
LEMMA KernelNextSched == [Next]_vars => [SchedNext]_schedVars
<1> SUFFICES ASSUME [Next]_vars
             PROVE  [SchedNext]_schedVars
  OBVIOUS
<1>1. ASSUME UNCHANGED vars  PROVE UNCHANGED schedVars
  BY <1>1 DEF vars
<1>2. ASSUME Tick  PROVE UNCHANGED schedVars
  BY <1>2 DEF Tick
<1>3. ASSUME Acquire \/ Spin \/ Release \/ Iret
      PROVE  UNCHANGED schedVars
  BY <1>3 DEF Acquire, Spin, Release, Iret
<1>4. ASSUME Yield  PROVE SchedNext
  BY <1>4 DEF Yield, SchedNext
<1>5. ASSUME Choose \/ Scan \/ Mark \/ Idle \/ Enter \/ Sysret \/ Lookup \/ Deliver
             \/ Pop \/ Panic
      PROVE  UNCHANGED schedVars
  BY <1>5 DEF Choose, Scan, Mark, Idle, Enter, Sysret, Lookup, Deliver, Pop, Panic
<1>6. ASSUME Push  PROVE SchedNext
  BY <1>6 DEF Push, SchedNext
<1>7. ASSUME Reap  PROVE [SchedNext]_schedVars
  BY <1>7 DEF Reap, SchedNext
<1>8. ASSUME Reaped  PROVE SchedNext
  BY <1>8 DEF Reaped, SchedNext
<1>9. ASSUME Exit  PROVE SchedNext
  BY <1>9 DEF Exit, SchedNext
<1>10. ASSUME Wait  PROVE [SchedNext]_schedVars
  BY <1>10 DEF Wait, SchedNext
<1>11. ASSUME NEW p \in Pid, Task(p)  PROVE [SchedNext]_schedVars
  BY <1>3, <1>5, <1>6, <1>7, <1>8, <1>9, <1>10, <1>11 DEF Task
<1>12. ASSUME Handler  PROVE [SchedNext]_schedVars
  BY <1>3, <1>4, <1>12 DEF Handler
<1> QED  BY <1>1, <1>2, <1>11, <1>12 DEF Next

\* Every interleaving of the timer with the regions that the locks protect,
\* with the boot and with the system calls is a behaviour of the scheduler.
THEOREM KernelImplementsSched == Spec => SchedSafety
<1>1. Init => SchedInit
  BY DEF Init, SchedInit
<1> QED  BY <1>1, KernelNextSched, PTL DEF Spec, SchedSafety

\* Round robin and the reaper are right under every interleaving: a running
\* task is passed over by fewer switches than there are tasks, and no kernel
\* stack is freed that a task can still run on, although an interrupt may
\* fall between any two instructions of sched_push_task, of the reaper, of
\* syscall_exit and of the handler itself.
THEOREM KernelSchedulesSafely == Spec => [](SchedTypeOK /\ BoundedBypass /\ StackOutlivesTask)
<1>1. SchedSafety => [](SchedTypeOK /\ BoundedBypass /\ StackOutlivesTask)
  BY SchedTypes, SchedRoundRobin, SchedReapsSafely, PTL
<1> QED  BY <1>1, KernelImplementsSched, PTL

-----------------------------------------------------------------------------
(***************************************************************************)
(* The order of the locks and the exclusive searches are properties of the *)
(* code that a context has left, of the locks it holds and of some flags:  *)
(* "on" if an interrupt may come, "early" while no task but the boot is    *)
(* queued, "scan" between a search of pmm_alloc and its mark.  A position  *)
(* <<code, held, flags>> is safe if it is in a set of positions which are  *)
(* allowed and which what is executed next does not leave.                 *)
(***************************************************************************)
IsCode(c) == \E X : c \in Seq(X)

Below(h, n) == h \subseteq LockName /\ \A l \in h : Rank[l] < n

Guarded(h, f) == "on" \notin f \/ "vmm" \in h \/ "early" \in f

Allowed(c, h, f) ==
    /\ IsCode(c)
    /\ "scan" \in f => Guarded(h, f) /\ c # <<>> /\ Head(c).op \in {"lock", "mark"}
    /\ c # <<>> =>
          /\ Head(c).op = "lock" => Head(c).arg \in LockName /\ Below(h, Rank[Head(c).arg])
          /\ Head(c).op = "unlock" => Head(c).arg \in h
          /\ Head(c).op = "reap" => h = {"scheduler"}
          /\ Head(c).op \in {"idle", "lookup", "exit"} => h = {}

\* What is executed next may lead to <<d, g, k>>.  Where it may or may not
\* turn interrupts on, they are on: less is then allowed.
Leads(c, h, f, d, g, k) ==
    /\ c # <<>>
    /\ \/ /\ Head(c).op = "lock"
          /\ d = Tail(c) /\ g = h \cup {Head(c).arg} /\ k = f \ {"on"}
       \/ /\ Head(c).op = "unlock"
          /\ d = Tail(c) /\ g = h \ {Head(c).arg} /\ k = f \cup {"on"}
       \/ /\ Head(c).op = "branch"
          /\ d = Head(c).arg[1] \o Tail(c) \/ d = Head(c).arg[2] \o Tail(c)
          /\ g = h /\ k = f
       \/ /\ Head(c).op = "scan"
          /\ d = Tail(c) /\ g = h /\ k = f \cup {"scan"}
       \/ /\ Head(c).op = "mark"
          /\ d = Tail(c) /\ g = h /\ k = f \ {"scan"}
       \/ /\ Head(c).op = "push"
          /\ d = Tail(c) /\ g = h /\ k = f \ {"early"}
       \/ /\ Head(c).op = "syscall"
          /\ d = Tail(c) /\ g = h /\ k = f \ {"on"}
       \/ /\ Head(c).op \in {"sysret", "reap", "reaped", "lookup", "deliver", "pop"}
          /\ d = Tail(c) /\ g = h /\ k = f \cup {"on"}
       \/ /\ Head(c).op = "wait"
          /\ d = c \/ d = Tail(c)
          /\ g = h /\ k = f \cup {"on"}

Closed(S) ==
    \A x \in S :
        /\ x = <<x[1], x[2], x[3]>>
        /\ Allowed(x[1], x[2], x[3])
        /\ \A d, g, k : Leads(x[1], x[2], x[3], d, g, k) => <<d, g, k>> \in S

Safe(c, h, f) == \E S : <<c, h, f>> \in S /\ Closed(S)

LEMMA SafeLeads ==
    ASSUME NEW c, NEW h, NEW f, Safe(c, h, f)
    PROVE  /\ Allowed(c, h, f)
           /\ \A d, g, k : Leads(c, h, f, d, g, k) => Safe(d, g, k)
<1>1. PICK S : <<c, h, f>> \in S /\ Closed(S)
  BY DEF Safe
<1> DEFINE x == <<c, h, f>>
<1>2. x[1] = c /\ x[2] = h /\ x[3] = f
  OBVIOUS
<1>3. x \in S
  BY <1>1
<1> HIDE DEF x
<1>4. /\ Allowed(x[1], x[2], x[3])
      /\ \A d, g, k : Leads(x[1], x[2], x[3], d, g, k) => <<d, g, k>> \in S
  BY <1>1, <1>3 DEF Closed
<1>5. /\ Allowed(c, h, f)
      /\ \A d, g, k : Leads(c, h, f, d, g, k) => <<d, g, k>> \in S
  BY <1>2, <1>4
<1> QED  BY <1>1, <1>5 DEF Safe

\* A position that is allowed and leads to safe ones, or to itself, is safe.
LEMMA LeadsSafe ==
    ASSUME NEW c, NEW h, NEW f, Allowed(c, h, f),
           NEW S, NEW T, Closed(S), Closed(T),
           \A d, g, k : Leads(c, h, f, d, g, k) =>
               (d = c /\ g = h /\ k = f) \/ <<d, g, k>> \in S \/ <<d, g, k>> \in T
    PROVE  Safe(c, h, f)
<1> DEFINE x == <<c, h, f>>
           U == {x} \cup S \cup T
<1>1. x = <<x[1], x[2], x[3]>> /\ x[1] = c /\ x[2] = h /\ x[3] = f
  OBVIOUS
<1>2. \A d, g, k : Leads(c, h, f, d, g, k) => <<d, g, k>> \in U
  OBVIOUS
<1> HIDE DEF x
<1>3. Closed(U)
  <2> SUFFICES ASSUME NEW y \in U
               PROVE  /\ y = <<y[1], y[2], y[3]>>
                      /\ Allowed(y[1], y[2], y[3])
                      /\ \A d, g, k : Leads(y[1], y[2], y[3], d, g, k) => <<d, g, k>> \in U
    BY DEF Closed
  <2>1. CASE y = x
    BY <1>1, <1>2, <2>1
  <2>2. CASE y \in S
    BY <2>2 DEF Closed
  <2>3. CASE y \in T
    BY <2>3 DEF Closed
  <2> QED  BY <2>1, <2>2, <2>3
<1> QED  BY <1>3 DEF Safe, x

LEMMA SafeStep ==
    ASSUME NEW c, NEW h, NEW f, Allowed(c, h, f),
           NEW d1, NEW g1, NEW k1, Safe(d1, g1, k1),
           NEW d2, NEW g2, NEW k2, Safe(d2, g2, k2),
           \A d, g, k : Leads(c, h, f, d, g, k) =>
               \/ d = c /\ g = h /\ k = f
               \/ d = d1 /\ g = g1 /\ k = k1
               \/ d = d2 /\ g = g2 /\ k = k2
    PROVE  Safe(c, h, f)
<1>1. PICK S : <<d1, g1, k1>> \in S /\ Closed(S)
  BY DEF Safe
<1>2. PICK T : <<d2, g2, k2>> \in T /\ Closed(T)
  BY DEF Safe
<1> QED  BY <1>1, <1>2, LeadsSafe

LEMMA SafeEnd ==
    ASSUME NEW c, NEW h, NEW f, Allowed(c, h, f),
           \A d, g, k : ~Leads(c, h, f, d, g, k)
    PROVE  Safe(c, h, f)
<1>1. Closed({})
  BY DEF Closed
<1> QED  BY <1>1, LeadsSafe

\* A position is safe with interrupts off if it is with interrupts on.
LEMMA LeadsOff ==
    ASSUME NEW c, NEW h, NEW f, NEW e, e = f \ {"on"},
           NEW d, NEW g, NEW k, Leads(c, h, e, d, g, k)
    PROVE  Leads(c, h, f, d, g, k) \/ \E m : Leads(c, h, f, d, g, m) /\ k = m \ {"on"}
<1> DEFINE on == f \cup {"on"}
           sc == f \cup {"scan"}
           ma == f \ {"scan"}
           pu == f \ {"early"}
<1>1. e \ {"on"} = e /\ e \cup {"on"} = on
  OBVIOUS
<1>2. e \cup {"scan"} = sc \ {"on"} /\ e \ {"scan"} = ma \ {"on"} /\ e \ {"early"} = pu \ {"on"}
  OBVIOUS
<1> HIDE DEF on, sc, ma, pu
<1>3. CASE Head(c).op = "lock"
  <2>1. c # <<>> /\ d = Tail(c) /\ g = h \cup {Head(c).arg} /\ k = e
    BY <1>1, <1>3 DEF Leads
  <2>2. Leads(c, h, f, d, g, e)
    BY ONLY <1>3, <2>1, e = f \ {"on"} DEF Leads
  <2> QED  BY <2>1, <2>2
<1>4. CASE Head(c).op = "unlock"
  <2>1. c # <<>> /\ d = Tail(c) /\ g = h \ {Head(c).arg} /\ k = on
    BY <1>1, <1>4 DEF Leads
  <2>2. Leads(c, h, f, d, g, on)
    BY ONLY <1>4, <2>1 DEF Leads, on
  <2> QED  BY <2>1, <2>2
<1>5. CASE Head(c).op = "syscall"
  <2>1. c # <<>> /\ d = Tail(c) /\ g = h /\ k = e
    BY <1>1, <1>5 DEF Leads
  <2>2. Leads(c, h, f, d, g, e)
    BY ONLY <1>5, <2>1, e = f \ {"on"} DEF Leads
  <2> QED  BY <2>1, <2>2
<1>6. CASE Head(c).op \in {"sysret", "reap", "reaped", "lookup", "deliver", "pop"}
  <2>1. c # <<>> /\ d = Tail(c) /\ g = h /\ k = on
    BY <1>1, <1>6 DEF Leads
  <2>2. Leads(c, h, f, d, g, on)
    BY ONLY <1>6, <2>1 DEF Leads, on
  <2> QED  BY <2>1, <2>2
<1>7. CASE Head(c).op = "wait"
  <2>1. c # <<>> /\ (d = c \/ d = Tail(c)) /\ g = h /\ k = on
    BY <1>1, <1>7 DEF Leads
  <2>2. Leads(c, h, f, d, g, on)
    BY ONLY <1>7, <2>1 DEF Leads, on
  <2> QED  BY <2>1, <2>2
<1>8. CASE Head(c).op = "branch"
  <2>1. /\ c # <<>> /\ g = h /\ k = e
        /\ d = Head(c).arg[1] \o Tail(c) \/ d = Head(c).arg[2] \o Tail(c)
    BY <1>8 DEF Leads
  <2>2. Leads(c, h, f, d, g, f)
    BY ONLY <1>8, <2>1 DEF Leads
  <2> QED  BY <2>1, <2>2
<1>9. CASE Head(c).op = "scan"
  <2>1. c # <<>> /\ d = Tail(c) /\ g = h /\ k = sc \ {"on"}
    BY <1>2, <1>9 DEF Leads
  <2>2. Leads(c, h, f, d, g, sc)
    BY ONLY <1>9, <2>1 DEF Leads, sc
  <2> QED  BY <2>1, <2>2
<1>10. CASE Head(c).op = "mark"
  <2>1. c # <<>> /\ d = Tail(c) /\ g = h /\ k = ma \ {"on"}
    BY <1>2, <1>10 DEF Leads
  <2>2. Leads(c, h, f, d, g, ma)
    BY ONLY <1>10, <2>1 DEF Leads, ma
  <2> QED  BY <2>1, <2>2
<1>11. CASE Head(c).op = "push"
  <2>1. c # <<>> /\ d = Tail(c) /\ g = h /\ k = pu \ {"on"}
    BY <1>2, <1>11 DEF Leads
  <2>2. Leads(c, h, f, d, g, pu)
    BY ONLY <1>11, <2>1 DEF Leads, pu
  <2> QED  BY <2>1, <2>2
<1>12. Head(c).op \in {"lock", "unlock", "branch", "scan", "mark", "push", "syscall", "sysret",
                       "reap", "reaped", "lookup", "deliver", "pop", "wait"}
  BY ONLY Leads(c, h, e, d, g, k) DEF Leads
<1> QED  BY ONLY <1>3, <1>4, <1>5, <1>6, <1>7, <1>8, <1>9, <1>10, <1>11, <1>12

LEMMA SafeOff ==
    ASSUME NEW c, NEW h, NEW f, Safe(c, h, f)
    PROVE  Safe(c, h, f \ {"on"})
<1>1. PICK S : <<c, h, f>> \in S /\ Closed(S)
  BY DEF Safe
<1> DEFINE Off(x) == <<x[1], x[2], x[3] \ {"on"}>>
           T == S \cup {Off(x) : x \in S}
<1>2. Closed(T)
  <2> SUFFICES ASSUME NEW y \in T
               PROVE  /\ y = <<y[1], y[2], y[3]>>
                      /\ Allowed(y[1], y[2], y[3])
                      /\ \A d, g, k : Leads(y[1], y[2], y[3], d, g, k) => <<d, g, k>> \in T
    BY DEF Closed
  <2>1. CASE y \in S
    BY <1>1, <2>1 DEF Closed
  <2>2. CASE \E x \in S : y = Off(x)
    <3>1. PICK x \in S : y = Off(x)
      BY <2>2
    <3>2. y[1] = x[1] /\ y[2] = x[2] /\ y[3] = x[3] \ {"on"} /\ y = <<y[1], y[2], y[3]>>
      BY <3>1
    <3>3. /\ Allowed(x[1], x[2], x[3])
          /\ \A d, g, k : Leads(x[1], x[2], x[3], d, g, k) => <<d, g, k>> \in S
      BY <1>1, <3>1 DEF Closed
    <3>4. Allowed(y[1], y[2], y[3])
      BY <3>2, <3>3 DEF Allowed, Guarded
    <3>5. ASSUME NEW d, NEW g, NEW k, Leads(y[1], y[2], y[3], d, g, k)
          PROVE  <<d, g, k>> \in T
      <4>1. Leads(x[1], x[2], x[3] \ {"on"}, d, g, k)
        BY <3>2, <3>5
      <4>2. CASE Leads(x[1], x[2], x[3], d, g, k)
        BY <3>3, <4>2
      <4>3. CASE \E m : Leads(x[1], x[2], x[3], d, g, m) /\ k = m \ {"on"}
        <5>1. PICK m : Leads(x[1], x[2], x[3], d, g, m) /\ k = m \ {"on"}
          BY <4>3
        <5>2. <<d, g, m>> \in S
          BY <3>3, <5>1
        <5>3. Off(<<d, g, m>>) = <<d, g, k>>
          BY <5>1
        <5> QED  BY <5>2, <5>3
      <4> QED  BY <4>1, <4>2, <4>3, LeadsOff
    <3> QED  BY <3>2, <3>4, <3>5
  <2> QED  BY <2>1, <2>2
<1>3. Off(<<c, h, f>>) = <<c, h, f \ {"on"}>>
  OBVIOUS
<1>4. <<c, h, f \ {"on"}>> \in T
  BY <1>1, <1>3
<1> HIDE DEF T
<1> QED  BY <1>2, <1>4 DEF Safe

-----------------------------------------------------------------------------
\* Sequences of instructions.

LEMMA CodeConcat ==
    ASSUME NEW s, NEW t, IsCode(s), IsCode(t)
    PROVE  /\ IsCode(s \o t)
           /\ <<>> \o t = t
           /\ \A u : IsCode(u) => (s \o t) \o u = s \o (t \o u)
<1>1. PICK X : s \in Seq(X)
  BY DEF IsCode
<1>2. PICK Y : t \in Seq(Y)
  BY DEF IsCode
<1>3. s \in Seq(X \cup Y) /\ t \in Seq(X \cup Y)
  BY <1>1, <1>2, SeqMonotonic
<1>4. s \o t \in Seq(X \cup Y)
  BY <1>3, ConcatProperties
<1>5. <<>> \o t = t
  BY <1>2, ConcatEmptySeq
<1>6. ASSUME NEW u, IsCode(u)
      PROVE  (s \o t) \o u = s \o (t \o u)
  <2>1. PICK Z : u \in Seq(Z)
    BY <1>6 DEF IsCode
  <2> DEFINE W == (X \cup Y) \cup Z
  <2>2. s \in Seq(W) /\ t \in Seq(W) /\ u \in Seq(W)
    <3>1. X \cup Y \subseteq W /\ Z \subseteq W
      OBVIOUS
    <3> HIDE DEF W
    <3> QED  BY <1>3, <2>1, <3>1, SeqMonotonic
  <2> HIDE DEF W
  <2> QED  BY <2>2, ConcatAssociative
<1> QED  BY <1>4, <1>5, <1>6 DEF IsCode

LEMMA CodeOne ==
    ASSUME NEW x, NEW t, IsCode(t)
    PROVE  /\ IsCode(<<x>>)
           /\ IsCode(<<x>> \o t)
           /\ <<x>> \o t # <<>>
           /\ Head(<<x>> \o t) = x
           /\ Tail(<<x>> \o t) = t
<1>1. PICK X : t \in Seq(X)
  BY DEF IsCode
<1> DEFINE Y == X \cup {x}
           c == <<x>> \o t
<1>2. t \in Seq(Y)
  BY <1>1, SeqMonotonic
<1>3. <<x>> \in Seq(Y) /\ Len(<<x>>) = 1 /\ <<x>>[1] = x
  OBVIOUS
<1>4. Len(t) \in Nat
  BY <1>1, LenProperties
<1> HIDE DEF Y
<1>5. /\ c \in Seq(Y) /\ Len(c) = 1 + Len(t)
      /\ \A i \in 1 .. 1 + Len(t) : c[i] = IF i <= 1 THEN <<x>>[1] ELSE t[i - 1]
  <2>1. /\ c \in Seq(Y) /\ Len(c) = Len(<<x>>) + Len(t)
        /\ \A i \in 1 .. Len(<<x>>) + Len(t) :
               c[i] = IF i <= Len(<<x>>) THEN <<x>>[i] ELSE t[i - Len(<<x>>)]
    BY <1>2, <1>3, ConcatProperties
  <2> HIDE DEF c
  <2> QED  BY <1>3, <1>4, <2>1
<1> HIDE DEF c
<1>6. c # <<>>
  BY <1>4, <1>5
<1>7. c[1] = x
  BY <1>3, <1>4, <1>5
<1>8. Head(c) = x
  BY <1>5, <1>6, <1>7
<1>9. Tail(c) = t
  <2>1. Tail(c) \in Seq(Y) /\ Len(Tail(c)) = Len(t) /\ \A i \in 1 .. Len(t) : Tail(c)[i] = c[i + 1]
    BY <1>4, <1>5, <1>6, HeadTailProperties
  <2>2. \A i \in 1 .. Len(t) : Tail(c)[i] = t[i]
    BY <1>4, <1>5, <2>1
  <2> QED  BY <1>2, <2>1, <2>2, SeqEqual
<1>10. IsCode(<<x>>) /\ IsCode(c)
  BY <1>3, <1>5 DEF IsCode
<1> QED  BY <1>6, <1>8, <1>9, <1>10 DEF c

(***************************************************************************)
(* Code that, from a position before it, leads to what follows it safely.  *)
(***************************************************************************)
Runs(s, h, f, g, k) ==
    /\ IsCode(s)
    /\ \A t : Safe(t, g, k) => Safe(s \o t, h, f)

LEMMA RunsThen ==
    ASSUME NEW s, NEW t, NEW h, NEW f, NEW g, NEW k, NEW i, NEW m,
           Runs(s, h, f, g, k), Runs(t, g, k, i, m)
    PROVE  Runs(s \o t, h, f, i, m)
<1>1. IsCode(s) /\ IsCode(t)
  BY DEF Runs
<1>2. IsCode(s \o t)
  BY <1>1, CodeConcat
<1>3. ASSUME NEW u, Safe(u, i, m)  PROVE Safe((s \o t) \o u, h, f)
  <2>1. IsCode(u)
    BY <1>3, SafeLeads DEF Allowed
  <2>2. Safe(t \o u, g, k)
    BY <1>3 DEF Runs
  <2>3. Safe(s \o (t \o u), h, f)
    BY <2>2 DEF Runs
  <2>4. (s \o t) \o u = s \o (t \o u)
    BY <1>1, <2>1, CodeConcat
  <2> QED  BY <2>3, <2>4
<1> QED  BY <1>2, <1>3 DEF Runs

\* The instructions one by one: it is enough that one is allowed, and where
\* it leads.
LEMMA RunsOne ==
    ASSUME NEW x, NEW h, NEW f, NEW g, NEW k,
           \A t : IsCode(t) => Allowed(<<x>> \o t, h, f),
           \A c, d, i, m : c # <<>> /\ Head(c) = x /\ Leads(c, h, f, d, i, m) =>
               d = Tail(c) /\ i = g /\ m = k
    PROVE  Runs(<<x>>, h, f, g, k)
<1>1. IsCode(<<x>>)
  BY EmptySeq, CodeOne DEF IsCode
<1>2. ASSUME NEW t, Safe(t, g, k)  PROVE Safe(<<x>> \o t, h, f)
  <2> DEFINE c == <<x>> \o t
  <2>1. IsCode(t)
    BY <1>2, SafeLeads DEF Allowed
  <2>2. c # <<>> /\ Head(c) = x /\ Tail(c) = t
    BY <2>1, CodeOne
  <2>3. Allowed(c, h, f)
    BY <2>1
  <2> HIDE DEF c
  <2>4. ASSUME NEW d, NEW i, NEW m, Leads(c, h, f, d, i, m)
        PROVE  d = t /\ i = g /\ m = k
    <3>1. d = Tail(c) /\ i = g /\ m = k
      BY <2>2, <2>4
    <3> QED  BY <2>2, <3>1
  <2>5. Safe(c, h, f)
    BY <1>2, <2>3, <2>4, SafeStep
  <2> QED  BY <2>5 DEF c
<1> QED  BY <1>1, <1>2 DEF Runs

LEMMA RunsLock ==
    ASSUME NEW l, NEW h, NEW f, NEW g, NEW k, g = h \cup {l}, k = f \ {"on"},
           l \in LockName, Below(h, Rank[l]), "scan" \in f => Guarded(h, f)
    PROVE  Runs(Lock(l), h, f, g, k)
<1> DEFINE x == [op |-> "lock", arg |-> l]
<1>1. x.op = "lock" /\ x.arg = l
  OBVIOUS
<1>2. Lock(l) = <<x>>
  BY DEF Lock
<1> HIDE DEF x
<1>3. ASSUME NEW t, IsCode(t)  PROVE Allowed(<<x>> \o t, h, f)
  BY <1>1, <1>3, CodeOne DEF Allowed
<1>4. ASSUME NEW c, NEW d, NEW i, NEW m, Head(c) = x, Leads(c, h, f, d, i, m)
      PROVE  d = Tail(c) /\ i = g /\ m = k
  BY <1>1, <1>4 DEF Leads
<1> QED  BY <1>2, <1>3, <1>4, RunsOne

LEMMA RunsUnlock ==
    ASSUME NEW l, NEW h, NEW f, NEW g, NEW k, g = h \ {l}, k = f \cup {"on"},
           l \in h, "scan" \notin f
    PROVE  Runs(Unlock(l), h, f, g, k)
<1> DEFINE x == [op |-> "unlock", arg |-> l]
<1>1. x.op = "unlock" /\ x.arg = l
  OBVIOUS
<1>2. Unlock(l) = <<x>>
  BY DEF Unlock
<1> HIDE DEF x
<1>3. ASSUME NEW t, IsCode(t)  PROVE Allowed(<<x>> \o t, h, f)
  BY <1>1, <1>3, CodeOne DEF Allowed
<1>4. ASSUME NEW c, NEW d, NEW i, NEW m, Head(c) = x, Leads(c, h, f, d, i, m)
      PROVE  d = Tail(c) /\ i = g /\ m = k
  BY <1>1, <1>4 DEF Leads
<1> QED  BY <1>2, <1>3, <1>4, RunsOne

LEMMA RunsDo ==
    ASSUME NEW o, NEW h, NEW f, NEW k, "scan" \notin f \/ (o = "mark" /\ Guarded(h, f)),
           \/ o = "scan" /\ k = f \cup {"scan"}
           \/ o = "mark" /\ k = f \ {"scan"}
           \/ o = "push" /\ k = f \ {"early"}
           \/ o = "syscall" /\ k = f \ {"on"}
           \/ o \in {"sysret", "reaped", "deliver", "pop"} /\ k = f \cup {"on"}
           \/ o = "reap" /\ h = {"scheduler"} /\ k = f \cup {"on"}
           \/ o = "lookup" /\ h = {} /\ k = f \cup {"on"}
    PROVE  Runs(Do(o), h, f, h, k)
<1> DEFINE x == [op |-> o, arg |-> ""]
<1>1. x.op = o
  OBVIOUS
<1>2. Do(o) = <<x>>
  BY DEF Do
<1> HIDE DEF x
<1>3. ASSUME NEW t, IsCode(t)  PROVE Allowed(<<x>> \o t, h, f)
  <2> DEFINE c == <<x>> \o t
  <2>1. IsCode(c) /\ c # <<>> /\ Head(c).op = o
    BY <1>1, <1>3, CodeOne
  <2> HIDE DEF c
  <2>2. Allowed(c, h, f)
    BY <2>1 DEF Allowed
  <2> QED  BY <2>2 DEF c
<1>4. ASSUME NEW c, NEW d, NEW i, NEW m, Head(c) = x, Leads(c, h, f, d, i, m)
      PROVE  d = Tail(c) /\ i = h /\ m = k
  BY <1>1, <1>4 DEF Leads
<1> QED  BY <1>2, <1>3, <1>4, RunsOne

LEMMA RunsBranch ==
    ASSUME NEW s, NEW t, NEW h, NEW f, NEW g, NEW k, "scan" \notin f,
           Runs(s, h, f, g, k), Runs(t, h, f, g, k)
    PROVE  Runs(Branch(s, t), h, f, g, k)
<1> DEFINE x == [op |-> "branch", arg |-> <<s, t>>]
<1>1. x.op = "branch" /\ x.arg[1] = s /\ x.arg[2] = t
  OBVIOUS
<1>2. Branch(s, t) = <<x>>
  BY DEF Branch
<1> HIDE DEF x
<1>3. IsCode(<<x>>)
  BY EmptySeq, CodeOne DEF IsCode
<1>4. ASSUME NEW u, Safe(u, g, k)  PROVE Safe(<<x>> \o u, h, f)
  <2> DEFINE c == <<x>> \o u
  <2>1. IsCode(u)
    BY <1>4, SafeLeads DEF Allowed
  <2>2. IsCode(c) /\ c # <<>> /\ Head(c) = x /\ Tail(c) = u
    BY <2>1, CodeOne
  <2> HIDE DEF c
  <2>3. Allowed(c, h, f)
    BY <1>1, <2>2 DEF Allowed
  <2>4. Safe(s \o u, h, f) /\ Safe(t \o u, h, f)
    BY <1>4 DEF Runs
  <2>5. ASSUME NEW d, NEW i, NEW m, Leads(c, h, f, d, i, m)
        PROVE  (d = s \o u /\ i = h /\ m = f) \/ (d = t \o u /\ i = h /\ m = f)
    BY <1>1, <2>2, <2>5 DEF Leads
  <2> DEFINE a == s \o u
             b == t \o u
  <2>6. /\ Safe(a, h, f) /\ Safe(b, h, f)
        /\ \A d, i, m : Leads(c, h, f, d, i, m) =>
               \/ d = c /\ i = h /\ m = f
               \/ d = a /\ i = h /\ m = f
               \/ d = b /\ i = h /\ m = f
    BY <2>4, <2>5
  <2> HIDE DEF a, b
  <2>7. Safe(c, h, f)
    BY ONLY <2>3, <2>6, SafeStep
  <2> QED  BY <2>7 DEF c
<1> QED  BY <1>2, <1>3, <1>4 DEF Runs

\* Yielding may go on yielding.
LEMMA RunsWait ==
    ASSUME NEW h, NEW f, NEW k, "scan" \notin f, k = f \cup {"on"}
    PROVE  Runs(Do("wait"), h, f, h, k)
<1> DEFINE x == [op |-> "wait", arg |-> ""]
<1>1. x.op = "wait"
  OBVIOUS
<1>2. Do("wait") = <<x>>
  BY DEF Do
<1> HIDE DEF x
<1>3. IsCode(<<x>>)
  BY EmptySeq, CodeOne DEF IsCode
<1>4. ASSUME NEW u, Safe(u, h, k)  PROVE Safe(<<x>> \o u, h, f)
  <2> DEFINE c == <<x>> \o u
  <2>1. IsCode(u)
    BY <1>4, SafeLeads DEF Allowed
  <2>2. IsCode(c) /\ c # <<>> /\ Head(c) = x /\ Tail(c) = u
    BY <2>1, CodeOne
  <2> HIDE DEF c
  <2>3. Allowed(c, h, f) /\ Allowed(c, h, k)
    BY <1>1, <2>2 DEF Allowed
  <2>4. ASSUME NEW d, NEW i, NEW m, Leads(c, h, f, d, i, m) \/ Leads(c, h, k, d, i, m)
        PROVE  (d = c \/ d = u) /\ i = h /\ m = k
    <3>1. k = k \cup {"on"}
      OBVIOUS
    <3>2. ASSUME NEW e, e = f \/ e = k, Leads(c, h, e, d, i, m)
          PROVE  (d = c \/ d = u) /\ i = h /\ m = k
      <4>1. (d = c \/ d = Tail(c)) /\ i = h /\ m = e \cup {"on"}
        BY ONLY <1>1, <2>2, <3>2 DEF Leads
      <4> QED  BY <2>2, <3>1, <3>2, <4>1
    <3> QED  BY <2>4, <3>2
  <2>5. Safe(c, h, k)
    BY <1>4, <2>3, <2>4, SafeStep
  <2>6. Safe(c, h, f)
    BY <1>4, <2>3, <2>4, <2>5, SafeStep
  <2> QED  BY <2>6 DEF c
<1> QED  BY <1>2, <1>3, <1>4 DEF Runs

-----------------------------------------------------------------------------
(***************************************************************************)
(* The functions of the kernel, each from its calls: Through, whether      *)
(* interrupts are on or off when it starts; ThroughOff, when they are off. *)
(* What it returns to may find them on.                                    *)
(***************************************************************************)
Calm(e) == e \subseteq {"early"}
On(e) == e \cup {"on"}

Through(s, h, e) == Runs(s, h, On(e), h, On(e))
ThroughOff(s, h, e) == Runs(s, h, e, h, On(e))

LEMMA ThroughIsOff ==
    ASSUME NEW s, NEW h, NEW e, Calm(e), Through(s, h, e)
    PROVE  ThroughOff(s, h, e)
<1>1. On(e) \ {"on"} = e
  BY DEF On, Calm
<1>2. ASSUME NEW t, Safe(t, h, On(e))  PROVE Safe(s \o t, h, e)
  <2>1. Safe(s \o t, h, On(e))
    BY <1>2 DEF Through, Runs
  <2> QED  BY <1>1, <2>1, SafeOff
<1> QED  BY <1>2 DEF Through, ThroughOff, Runs

LEMMA ThroughThen ==
    ASSUME NEW s, NEW t, NEW h, NEW e, Through(s, h, e), Through(t, h, e)
    PROVE  Through(s \o t, h, e)
BY RunsThen DEF Through

LEMMA ThroughOffThen ==
    ASSUME NEW s, NEW t, NEW h, NEW e, ThroughOff(s, h, e), Through(t, h, e)
    PROVE  ThroughOff(s \o t, h, e)
BY RunsThen DEF Through, ThroughOff

LEMMA ThroughBranch ==
    ASSUME NEW s, NEW t, NEW h, NEW e, Calm(e), Through(s, h, e), Through(t, h, e)
    PROVE  Through(Branch(s, t), h, e)
<1>1. "scan" \notin On(e)
  BY DEF On, Calm
<1> QED  BY <1>1, RunsBranch DEF Through

LEMMA NothingThrough ==
    ASSUME NEW h, NEW e, Calm(e)
    PROVE  Through(<<>>, h, e) /\ ThroughOff(<<>>, h, e)
<1>1. IsCode(<<>>)
  BY EmptySeq DEF IsCode
<1>2. ASSUME NEW t, Safe(t, h, On(e))  PROVE Safe(<<>> \o t, h, On(e))
  <2>1. IsCode(t)
    BY <1>2, SafeLeads DEF Allowed
  <2> QED  BY <1>1, <1>2, <2>1, CodeConcat
<1>3. Through(<<>>, h, e)
  BY <1>1, <1>2 DEF Through, Runs
<1> QED  BY <1>3, ThroughIsOff

LEMMA ThroughMaybe ==
    ASSUME NEW s, NEW h, NEW e, Calm(e), Through(s, h, e)
    PROVE  Through(Maybe(s), h, e)
BY NothingThrough, ThroughBranch DEF Maybe

LEMMA ThroughOffMaybe ==
    ASSUME NEW s, NEW h, NEW e, Calm(e), ThroughOff(s, h, e)
    PROVE  ThroughOff(Maybe(s), h, e)
<1>1. "scan" \notin e
  BY DEF Calm
<1>2. ThroughOff(<<>>, h, e)
  BY NothingThrough
<1> QED  BY <1>1, <1>2, RunsBranch DEF ThroughOff, Maybe

LEMMA Ranks ==
    /\ \A l \in LockName : Rank[l] \in 1 .. 6
    /\ Rank["elfloader"] = 1 /\ Rank["scheduler"] = 2 /\ Rank["ctx"] = 3
    /\ Rank["liballoc"] = 4 /\ Rank["vmm"] = 5 /\ Rank["pmm"] = 6
BY DEF Rank, LockName

LEMMA BelowMore ==
    ASSUME NEW h, NEW l \in LockName, NEW n \in Nat, NEW m \in Nat,
           Below(h, n), n <= Rank[l], Rank[l] < m
    PROVE  Below(h \cup {l}, m) /\ Below(h, m) /\ Below(h, Rank[l]) /\ l \notin h
BY Ranks DEF Below

\* LOCK, then a body, then UNLOCK.
LEMMA Region ==
    ASSUME NEW s, NEW l \in LockName, NEW h, NEW e, Calm(e), Below(h, Rank[l]),
           NEW g, g = h \cup {l}, ThroughOff(s, g, e)
    PROVE  Through(Lock(l) \o s \o Unlock(l), h, e)
<1>1. "scan" \notin On(e) /\ On(e) \ {"on"} = e /\ On(e) \cup {"on"} = On(e)
  BY DEF On, Calm
<1>2. l \notin h
  BY Ranks DEF Below
<1>3. h = g \ {l} /\ l \in g
  BY <1>2
<1>4. Runs(Lock(l), h, On(e), g, e)
  BY <1>1, RunsLock
<1>5. Runs(Unlock(l), g, On(e), h, On(e))
  BY <1>1, <1>3, RunsUnlock
<1>6. Runs(Lock(l) \o s, h, On(e), g, On(e))
  BY <1>4, RunsThen DEF ThroughOff
<1> QED  BY <1>5, <1>6, RunsThen DEF Through

LEMMA EmptyRegion ==
    ASSUME NEW l \in LockName, NEW h, NEW e, Calm(e), Below(h, Rank[l])
    PROVE  Through(Lock(l) \o Unlock(l), h, e)
<1> DEFINE g == h \cup {l}
<1>1. "scan" \notin e /\ On(e) \ {"on"} = e /\ e \cup {"on"} = On(e) /\ "scan" \notin On(e)
  BY DEF On, Calm
<1>2. l \notin h
  BY Ranks DEF Below
<1>3. h = g \ {l} /\ l \in g
  BY <1>2
<1>4. Runs(Lock(l), h, On(e), g, e)
  BY <1>1, RunsLock
<1> HIDE DEF g
<1>5. Runs(Unlock(l), g, e, h, On(e))
  BY <1>1, <1>3, RunsUnlock
<1> QED  BY <1>4, <1>5, RunsThen DEF Through

\* pmm_alloc searches before it locks: with interrupts on it may be called
\* only by a holder of the virtual memory manager's lock, or early.
LEMMA pmm_alloc_Runs ==
    ASSUME NEW h, NEW e, Calm(e), Below(h, 6)
    PROVE  /\ ThroughOff(pmm_alloc, h, e)
           /\ "vmm" \in h \/ "early" \in e => Through(pmm_alloc, h, e)
<1> DEFINE g == h \cup {"pmm"}
           sc == e \cup {"scan"}
<1>1. "pmm" \in LockName /\ Rank["pmm"] = 6
  BY Ranks DEF LockName
<1>2. "pmm" \notin h
  BY Ranks DEF Below
<1>3. g = h \cup {"pmm"} /\ h = g \ {"pmm"} /\ "pmm" \in g
  BY <1>2
<1>4. /\ "on" \notin sc /\ sc = sc \ {"on"} /\ e = sc \ {"scan"} /\ sc = e \cup {"scan"}
      /\ "scan" \notin e /\ On(e) = e \cup {"on"} /\ "scan" \notin On(e)
  BY DEF Calm, On
<1> HIDE DEF g, sc
<1>5. Guarded(h, sc) /\ Guarded(g, sc)
  BY <1>4 DEF Guarded
<1>6. Runs(Lock("pmm"), h, sc, g, sc)
  BY <1>1, <1>3, <1>4, <1>5, RunsLock
<1>7. Runs(Do("mark"), g, sc, g, e)
  BY <1>4, <1>5, RunsDo
<1>8. Runs(Unlock("pmm"), g, e, h, On(e))
  BY <1>3, <1>4, RunsUnlock
<1>9. Runs(pmm_set_used, h, sc, h, On(e))
  <2>1. Runs(Lock("pmm") \o Do("mark"), h, sc, g, e)
    BY <1>6, <1>7, RunsThen
  <2> QED  BY <1>8, <2>1, RunsThen DEF pmm_set_used
<1>10. ThroughOff(pmm_alloc, h, e)
  <2>1. Runs(Do("scan"), h, e, h, sc)
    BY <1>4, RunsDo
  <2> QED  BY <1>9, <2>1, RunsThen DEF pmm_alloc, ThroughOff
<1>11. ASSUME "vmm" \in h \/ "early" \in e  PROVE Through(pmm_alloc, h, e)
  <2> DEFINE so == On(e) \cup {"scan"}
  <2>1. so = On(e) \cup {"scan"} /\ sc = so \ {"on"} /\ ("early" \in e => "early" \in so)
    BY <1>4 DEF On
  <2> HIDE DEF so
  <2>2. Guarded(h, so)
    BY <1>11, <2>1 DEF Guarded
  <2>3. Runs(Do("scan"), h, On(e), h, so)
    BY <1>4, <2>1, RunsDo
  <2>4. Runs(Lock("pmm"), h, so, g, sc)
    BY <1>1, <1>3, <2>1, <2>2, RunsLock
  <2>5. Runs(pmm_set_used, h, so, h, On(e))
    <3>1. Runs(Lock("pmm") \o Do("mark"), h, so, g, e)
      BY <1>7, <2>4, RunsThen
    <3> QED  BY <1>8, <3>1, RunsThen DEF pmm_set_used
  <2> QED  BY <2>3, <2>5, RunsThen DEF pmm_alloc, Through
<1> QED  BY <1>10, <1>11


LEMMA Opens ==
    ASSUME NEW s, NEW l \in LockName, NEW h, NEW e, Calm(e), Below(h, Rank[l]),
           NEW g, g = h \cup {l}, ThroughOff(s, g, e)
    PROVE  Runs(Lock(l) \o s, h, On(e), g, On(e))
<1>1. "scan" \notin On(e) /\ On(e) \ {"on"} = e
  BY DEF On, Calm
<1>2. Runs(Lock(l), h, On(e), g, e)
  BY <1>1, RunsLock
<1> QED  BY <1>2, RunsThen DEF ThroughOff

LEMMA Closes ==
    ASSUME NEW s, NEW l \in LockName, NEW h, NEW e, Calm(e), Below(h, Rank[l]),
           NEW g, g = h \cup {l}, NEW f, Runs(s, h, f, g, On(e))
    PROVE  Runs(s \o Unlock(l), h, f, h, On(e))
<1>1. "scan" \notin On(e) /\ On(e) \cup {"on"} = On(e)
  BY DEF On, Calm
<1>2. l \notin h
  BY Ranks DEF Below
<1>3. h = g \ {l} /\ l \in g
  BY <1>2
<1>4. Runs(Unlock(l), g, On(e), h, On(e))
  BY <1>1, <1>3, RunsUnlock
<1> QED  BY <1>4, RunsThen

LEMMA vmm_map_range_Runs ==
    ASSUME NEW h, NEW e, Calm(e), Below(h, 5)
    PROVE  Through(vmm_map_range, h, e)
<1> DEFINE g == h \cup {"vmm"}
<1>1. "vmm" \in LockName /\ Rank["vmm"] = 5
  BY Ranks DEF LockName
<1>2. Below(g, 6) /\ Below(h, Rank["vmm"])
  BY <1>1, BelowMore
<1>3. "vmm" \in g /\ g = h \cup {"vmm"}
  OBVIOUS
<1> HIDE DEF g
<1>4. Through(vmm_get_pml_alloc, g, e)
  BY <1>2, <1>3, pmm_alloc_Runs, ThroughMaybe DEF vmm_get_pml_alloc
<1>5. Through(vmm_map_page, h, e)
  <2> DEFINE s == Lock("vmm") \o vmm_get_pml_alloc
  <2>1. Runs(s, h, On(e), g, On(e))
    BY <1>1, <1>2, <1>3, <1>4, ThroughIsOff, Opens
  <2> HIDE DEF s
  <2>2. Runs(s \o vmm_get_pml_alloc, h, On(e), g, On(e))
    BY <1>4, <2>1, RunsThen DEF Through
  <2>3. Runs((s \o vmm_get_pml_alloc) \o vmm_get_pml_alloc, h, On(e), g, On(e))
    BY <1>4, <2>2, RunsThen DEF Through
  <2>4. Runs(((s \o vmm_get_pml_alloc) \o vmm_get_pml_alloc) \o Unlock("vmm"), h, On(e), h, On(e))
    BY <1>1, <1>2, <1>3, <2>3, Closes
  <2> QED  BY <2>4 DEF s, vmm_map_page, Through
<1>6. Through(vmm_flush, h, e)
  BY <1>1, <1>2, EmptyRegion DEF vmm_flush
<1> QED  BY <1>5, <1>6, ThroughMaybe, ThroughThen DEF vmm_map_range

LEMMA vmm_create_space_Runs ==
    ASSUME NEW h, NEW e, Calm(e), Below(h, 5)
    PROVE  Through(vmm_create_space, h, e)
<1> DEFINE g == h \cup {"vmm"}
<1>1. "vmm" \in LockName /\ Rank["vmm"] = 5
  BY Ranks DEF LockName
<1>2. Below(g, 6) /\ Below(h, Rank["vmm"])
  BY <1>1, BelowMore
<1>3. ThroughOff(pmm_alloc, g, e)
  BY <1>2, pmm_alloc_Runs
<1> QED  BY <1>1, <1>2, <1>3, Region DEF vmm_create_space

LEMMA heap_Runs ==
    ASSUME NEW h, NEW e, Calm(e), Below(h, 4)
    PROVE  Through(malloc, h, e) /\ Through(free, h, e) /\ Through(realloc, h, e)
<1> DEFINE g == h \cup {"liballoc"}
<1>1. "liballoc" \in LockName /\ Rank["liballoc"] = 4
  BY Ranks DEF LockName
<1>2. Below(g, 5) /\ Below(g, 6) /\ Below(h, Rank["liballoc"])
  BY <1>1, BelowMore
<1>3. g = h \cup {"liballoc"}
  OBVIOUS
<1> HIDE DEF g
<1>4. ThroughOff(liballoc_alloc, g, e)
  BY <1>2, pmm_alloc_Runs, vmm_map_range_Runs, ThroughOffThen DEF liballoc_alloc
<1>5. Through(malloc, h, e)
  BY <1>1, <1>2, <1>3, <1>4, ThroughOffMaybe, Region DEF malloc
<1>6. Through(liballoc_free, g, e)
  <2>1. "vmm" \in LockName /\ Rank["vmm"] = 5 /\ "pmm" \in LockName /\ Rank["pmm"] = 6
    BY Ranks DEF LockName
  <2>2. Through(vmm_unmap_page, g, e) /\ Through(pmm_free, g, e)
    BY <1>2, <2>1, EmptyRegion DEF vmm_unmap_page, pmm_free
  <2> QED  BY <2>2, ThroughThen DEF liballoc_free
<1>7. Through(free, h, e)
  BY <1>1, <1>2, <1>3, <1>6, ThroughMaybe, ThroughIsOff, Region DEF free
<1>8. Through(realloc, h, e)
  <2>1. Through(Lock("liballoc") \o Unlock("liballoc"), h, e)
    BY <1>1, <1>2, EmptyRegion
  <2>2. Through(Lock("liballoc") \o Unlock("liballoc") \o malloc, h, e)
    BY <1>5, <2>1, ThroughThen
  <2>3. Through(Lock("liballoc") \o Unlock("liballoc") \o malloc \o free, h, e)
    BY <1>7, <2>2, ThroughThen
  <2> QED  BY <1>5, <2>3, ThroughBranch DEF realloc
<1> QED  BY <1>5, <1>7, <1>8

LEMMA vec_push_Runs ==
    ASSUME NEW store, NEW h, NEW e, Calm(e), Below(h, 4),
           NEW k, Runs(Do(store), h, On(e), h, k)
    PROVE  Runs(vec_push(store), h, On(e), h, k) /\ Runs(vec_push(store), h, e, h, k)
<1>1. Through(Maybe(realloc), h, e)
  BY heap_Runs, ThroughMaybe
<1>2. ThroughOff(Maybe(realloc), h, e)
  BY <1>1, ThroughIsOff
<1> QED  BY <1>1, <1>2, RunsThen DEF vec_push, Through, ThroughOff

\* The first call queues a second task: it is early no more.
LEMMA push_task_Runs ==
    ASSUME NEW e, Calm(e)
    PROVE  Runs(push_task, {}, On(e), {}, On({}))
<1> DEFINE g == {"scheduler"}
<1>1. "scheduler" \in LockName /\ Rank["scheduler"] = 2
  BY Ranks DEF LockName
<1>2. Below({}, 2) /\ Below(g, 4)
  <2>1. Below({}, 2)
    BY DEF Below
  <2> QED  BY <1>1, <2>1, BelowMore
<1>3. g = {} \cup {"scheduler"} /\ {} = g \ {"scheduler"} /\ "scheduler" \in g
  OBVIOUS
<1> HIDE DEF g
<1>4. "scan" \notin On(e) /\ On({}) = On(e) \ {"early"} /\ On(e) \ {"on"} = e /\ Calm({})
  BY DEF On, Calm
<1>5. Runs(Lock("scheduler"), {}, On(e), g, e)
  BY <1>1, <1>2, <1>3, <1>4, RunsLock
<1>6. Runs(Do("push"), g, On(e), g, On({}))
  BY <1>4, RunsDo
<1>7. Runs(vec_push("push"), g, e, g, On({}))
  BY <1>2, <1>6, vec_push_Runs
<1>8. Runs(Lock("scheduler") \o vec_push("push"), {}, On(e), g, On({}))
  BY <1>5, <1>7, RunsThen
<1> QED  BY <1>1, <1>2, <1>3, <1>4, <1>8, Closes DEF push_task

LEMMA load_elf_module_Runs ==
    ASSUME NEW e, Calm(e), "early" \in e
    PROVE  Through(load_elf_module, {}, e)
<1> DEFINE g == {"elfloader"}
<1>1. "elfloader" \in LockName /\ Rank["elfloader"] = 1 /\ "ctx" \in LockName /\ Rank["ctx"] = 3
  BY Ranks DEF LockName
<1>2. Below({}, 1) /\ Below(g, 3) /\ Below(g, 4) /\ Below(g, 5) /\ Below(g, 6)
  <2>1. Below({}, 1)
    BY DEF Below
  <2>2. g = {} \cup {"elfloader"}
    OBVIOUS
  <2> HIDE DEF g
  <2> QED  BY <1>1, <2>1, <2>2, BelowMore
<1>3. g = {} \cup {"elfloader"}
  OBVIOUS
<1> HIDE DEF g
<1>4. Through(pmm_alloc, g, e) /\ Through(vmm_map_range, g, e) /\ Through(malloc, g, e)
  BY <1>2, pmm_alloc_Runs, vmm_map_range_Runs, heap_Runs
<1>5. Through(create_task, g, e)
  <2>1. Through(malloc \o pmm_alloc, g, e)
    BY <1>4, ThroughThen
  <2> QED  BY <1>4, <2>1, ThroughThen DEF create_task
<1>6. Through(Maybe(pmm_alloc \o vmm_map_range), g, e)
  BY <1>4, ThroughThen, ThroughMaybe
<1>7. Through(context_create, g, e)
  <2> DEFINE i == g \cup {"ctx"}
  <2>1. Below(i, 4) /\ i = g \cup {"ctx"}
    BY <1>1, <1>2, BelowMore
  <2> HIDE DEF i
  <2>2. ThroughOff(malloc, i, e)
    BY <2>1, heap_Runs, ThroughIsOff
  <2> QED  BY <1>1, <1>2, <2>1, <2>2, Region DEF context_create
<1>8. ThroughOff(vmm_create_space, g, e)
  BY <1>2, vmm_create_space_Runs, ThroughIsOff
<1> DEFINE s == Lock("elfloader") \o vmm_create_space
           m == Maybe(pmm_alloc \o vmm_map_range)
<1>9. Runs(s, {}, On(e), g, On(e))
  BY <1>1, <1>2, <1>3, <1>8, Opens
<1> HIDE DEF s, m
<1>10. Runs(s \o m, {}, On(e), g, On(e))
  BY <1>6, <1>9, RunsThen DEF Through, m
<1>11. Runs(s \o m \o create_task, {}, On(e), g, On(e))
  BY <1>5, <1>10, RunsThen DEF Through
<1>12. Runs(s \o m \o create_task \o context_create, {}, On(e), g, On(e))
  BY <1>7, <1>11, RunsThen DEF Through
<1>13. Runs(s \o m \o create_task \o context_create \o Unlock("elfloader"), {}, On(e), {}, On(e))
  BY <1>1, <1>2, <1>3, <1>12, Closes
<1> QED  BY <1>13 DEF s, m, load_elf_module, Through

\* The end of the code: nothing follows, or what would is never reached.
LEMMA RunsLast ==
    ASSUME NEW o, o \in {"idle", "exit", "panic"}, NEW f, NEW k, "scan" \notin f
    PROVE  Runs(Do(o), {}, f, {}, k)
<1> DEFINE x == [op |-> o, arg |-> ""]
<1>1. x.op = o
  OBVIOUS
<1>2. Do(o) = <<x>>
  BY DEF Do
<1> HIDE DEF x
<1>3. ASSUME NEW t, IsCode(t)  PROVE Allowed(<<x>> \o t, {}, f)
  <2> DEFINE c == <<x>> \o t
  <2>1. IsCode(c) /\ c # <<>> /\ Head(c).op = o
    BY <1>1, <1>3, CodeOne
  <2> HIDE DEF c
  <2>2. Allowed(c, {}, f)
    BY <2>1 DEF Allowed
  <2> QED  BY <2>2 DEF c
<1>4. ASSUME NEW c, NEW d, NEW i, NEW m, Head(c) = x, Leads(c, {}, f, d, i, m)
      PROVE  d = Tail(c) /\ i = {} /\ m = k
  BY <1>1, <1>4 DEF Leads
<1> QED  BY <1>2, <1>3, <1>4, RunsOne

LEMMA RunsSafe ==
    ASSUME NEW s, NEW f, NEW k, Runs(s, {}, f, {}, k), "scan" \notin k
    PROVE  Safe(s, {}, f)
<1>1. PICK X : s \in Seq(X)
  BY DEF Runs, IsCode
<1>2. s \o <<>> = s
  BY <1>1, ConcatEmptySeq
<1>3. Allowed(<<>>, {}, k)
  BY EmptySeq DEF Allowed, IsCode
<1>4. Safe(<<>>, {}, k)
  BY <1>3, SafeEnd DEF Leads
<1>5. Safe(s \o <<>>, {}, f)
  BY <1>4 DEF Runs
<1> QED  BY <1>2, <1>5


\* All the code a task starts with is safe.
LEMMA ProgramSafe ==
    /\ Safe(bootstrap, {}, {"on", "early"})
    /\ \A p \in Pid : Safe(main(p), {}, {"on"})
    /\ \A e : Calm(e) => Safe(idle, {}, On(e))
<1> DEFINE early == {"early"}
           none == {}
<1>1. /\ Calm(early) /\ Calm(none) /\ "early" \in early
      /\ On(early) = {"on", "early"} /\ On(none) = {"on"}
      /\ On(none) \ {"on"} = none /\ none \cup {"on"} = On(none)
  BY DEF Calm, On
<1>2. \A e : Calm(e) => "scan" \notin On(e) /\ "scan" \notin e /\ On(e) \cup {"on"} = On(e)
  BY DEF Calm, On
<1> HIDE DEF early, none
<1>3. \A n \in 1 .. 6 : Below({}, n)
  BY DEF Below
<1>4. Safe(bootstrap, {}, On(early))
  <2>1. Through(load_elf_module, {}, early)
    BY <1>1, load_elf_module_Runs
  <2>2. Runs(load_elf_module \o load_elf_module, {}, On(early), {}, On(early))
    BY <2>1, RunsThen DEF Through
  <2>3. Runs(push_task, {}, On(early), {}, On(none)) /\ Runs(push_task, {}, On(none), {}, On(none))
    BY <1>1, push_task_Runs DEF none
  <2>4. Runs(load_elf_module \o load_elf_module \o push_task, {}, On(early), {}, On(none))
    BY <2>2, <2>3, RunsThen
  <2>5. Runs(load_elf_module \o load_elf_module \o push_task \o push_task, {}, On(early), {}, On(none))
    BY <2>3, <2>4, RunsThen
  <2>6. Runs(Do("idle"), {}, On(none), {}, On(none))
    BY <1>1, <1>2, RunsLast
  <2>7. Runs(bootstrap, {}, On(early), {}, On(none))
    BY <2>5, <2>6, RunsThen DEF bootstrap
  <2> QED  BY <1>1, <1>2, <2>7, RunsSafe
<1>5. ASSUME NEW p \in Pid  PROVE Safe(main(p), {}, On(none))
  <2>1. Runs(Do("syscall"), {}, On(none), {}, none)
    BY <1>1, <1>2, RunsDo
  <2>2. Runs(Do("sysret"), {}, On(none), {}, On(none))
    BY <1>1, <1>2, RunsDo
  <2>3. ASSUME NEW s, ThroughOff(s, {}, none)
        PROVE  Runs(syscall(s), {}, On(none), {}, On(none))
    <3>1. Runs(Do("syscall") \o s, {}, On(none), {}, On(none))
      BY <2>1, <2>3, RunsThen DEF ThroughOff
    <3> QED  BY <2>2, <3>1, RunsThen DEF syscall
  <2>4. /\ ThroughOff(pmm_alloc, {}, none) /\ Through(malloc, {}, none)
        /\ Through(vmm_map_range, {}, none)
    BY <1>1, <1>3, pmm_alloc_Runs, heap_Runs, vmm_map_range_Runs
  <2>5. ThroughOff(create_shared_mem, {}, none)
    <3>1. ThroughOff(pmm_alloc \o malloc, {}, none)
      BY <2>4, ThroughOffThen
    <3>2. ThroughOff(pmm_alloc \o malloc \o vmm_map_range, {}, none)
      BY <2>4, <3>1, ThroughOffThen
    <3> QED  BY <2>4, <3>2, ThroughOffThen DEF create_shared_mem
  <2>6. ThroughOff(ipc_send, {}, none)
    BY <1>1, <1>2, RunsDo DEF ipc_send, ThroughOff
  <2>7. ThroughOff(ipc_rcv_sync, {}, none)
    <3>1. ThroughOff(Do("wait"), {}, none)
      BY <1>1, <1>2, RunsWait DEF ThroughOff
    <3>2. Through(Do("pop"), {}, none)
      BY <1>1, <1>2, RunsDo DEF Through
    <3>3. ThroughOff(Do("wait") \o Do("pop"), {}, none)
      BY <3>1, <3>2, ThroughOffThen
    <3>4. ThroughOff(Do("wait") \o Do("pop") \o vmm_map_range, {}, none)
      BY <2>4, <3>3, ThroughOffThen
    <3> QED  BY <2>4, <3>4, ThroughOffThen DEF ipc_rcv_sync
  <2>8. ThroughOff(Do("exit"), {}, none)
    BY <1>1, <1>2, RunsLast DEF ThroughOff
  <2>9. Runs(syscall(create_shared_mem) \o syscall(ipc_send), {}, On(none), {}, On(none))
    BY <2>3, <2>5, <2>6, RunsThen
  <2> DEFINE a == IF p = Sender THEN syscall(create_shared_mem) \o syscall(ipc_send)
                                ELSE syscall(ipc_rcv_sync)
  <2>10. Runs(a, {}, On(none), {}, On(none))
    <3>1. Runs(syscall(ipc_rcv_sync), {}, On(none), {}, On(none))
      BY <2>3, <2>7
    <3> QED  BY <2>9, <3>1
  <2> HIDE DEF a
  <2>11. Runs(syscall(Do("exit")), {}, On(none), {}, On(none))
    BY <2>3, <2>8
  <2>12. Runs(a \o syscall(Do("exit")), {}, On(none), {}, On(none))
    BY <2>10, <2>11, RunsThen
  <2> QED  BY <1>1, <1>2, <2>12, RunsSafe DEF a, main
<1>6. ASSUME NEW e, Calm(e)  PROVE Safe(idle, {}, On(e))
  <2> DEFINE g == {"scheduler"}
  <2>1. "scheduler" \in LockName /\ Below({}, Rank["scheduler"])
    BY <1>3, Ranks DEF LockName
  <2>2. /\ g = {} \cup {"scheduler"} /\ {} = g \ {"scheduler"} /\ g = {"scheduler"}
        /\ "scheduler" \in g /\ On(e) \ {"on"} = e /\ e \cup {"on"} = On(e)
    BY <1>6 DEF Calm, On
  <2> HIDE DEF g
  <2>3. Runs(Lock("scheduler"), {}, On(e), g, e)
    BY <1>2, <1>6, <2>1, <2>2, RunsLock
  <2>4. Runs(Do("reap"), g, e, g, On(e))
    BY <1>2, <1>6, <2>2, RunsDo
  <2>5. Runs(Unlock("scheduler"), g, On(e), {}, On(e))
    BY <1>2, <1>6, <2>2, RunsUnlock
  <2>6. Runs(Do("idle"), {}, On(e), {}, On(e))
    BY <1>2, <1>6, RunsLast
  <2>7. Runs(Lock("scheduler") \o Do("reap"), {}, On(e), g, On(e))
    BY <2>3, <2>4, RunsThen
  <2>8. Runs(Lock("scheduler") \o Do("reap") \o Unlock("scheduler"), {}, On(e), {}, On(e))
    BY <2>5, <2>7, RunsThen
  <2>9. Runs(idle, {}, On(e), {}, On(e))
    BY <2>6, <2>8, RunsThen DEF idle
  <2> QED  BY <1>2, <1>6, <2>9, RunsSafe
<1> QED  BY <1>1, <1>4, <1>5, <1>6

-----------------------------------------------------------------------------
(***************************************************************************)
(* The handler, from its last instruction back.                            *)
(***************************************************************************)
HandlerUnlock == Unlock("scheduler") \o Do("iret")
HandlerYield == Do("yield") \o HandlerUnlock
HandlerLock == Lock("scheduler") \o HandlerYield
VmmUnlock == Unlock("vmm") \o HandlerUnlock
VmmLock == Lock("vmm") \o VmmUnlock
CtxUnlock == Unlock("ctx") \o VmmLock
CtxLock == Lock("ctx") \o CtxUnlock

Void == ""
Instr(o, a) == [op |-> o, arg |-> a]

\* The code has the instruction x first, then d.
Starts(c, x, d) == c # <<>> /\ Head(c) = x /\ Tail(c) = d

LEMMA CodeInstr ==
    ASSUME NEW l, NEW t, IsCode(t)
    PROVE  /\ IsCode(Lock(l)) /\ IsCode(Unlock(l)) /\ IsCode(Do(l))
           /\ IsCode(Lock(l) \o t) /\ Starts(Lock(l) \o t, Instr("lock", l), t)
           /\ IsCode(Unlock(l) \o t) /\ Starts(Unlock(l) \o t, Instr("unlock", l), t)
           /\ IsCode(Do(l) \o t) /\ Starts(Do(l) \o t, Instr(l, Void), t)
<1>1. ASSUME NEW x, NEW s, s = <<x>>
      PROVE  IsCode(s) /\ IsCode(s \o t) /\ Starts(s \o t, x, t)
  BY <1>1, CodeOne DEF Starts
<1>2. IsCode(Lock(l)) /\ IsCode(Lock(l) \o t) /\ Starts(Lock(l) \o t, Instr("lock", l), t)
  <2> DEFINE x == Instr("lock", l)
             s == Lock(l)
  <2>1. s = <<x>>
    BY DEF Lock, Instr
  <2> HIDE DEF x, s
  <2>2. IsCode(s) /\ IsCode(s \o t) /\ Starts(s \o t, x, t)
    BY <1>1, <2>1
  <2> QED  BY <2>2 DEF x, s
<1>3. IsCode(Unlock(l)) /\ IsCode(Unlock(l) \o t) /\ Starts(Unlock(l) \o t, Instr("unlock", l), t)
  <2> DEFINE x == Instr("unlock", l)
             s == Unlock(l)
  <2>1. s = <<x>>
    BY DEF Unlock, Instr
  <2> HIDE DEF x, s
  <2>2. IsCode(s) /\ IsCode(s \o t) /\ Starts(s \o t, x, t)
    BY <1>1, <2>1
  <2> QED  BY <2>2 DEF x, s
<1>4. IsCode(Do(l)) /\ IsCode(Do(l) \o t) /\ Starts(Do(l) \o t, Instr(l, Void), t)
  <2> DEFINE x == Instr(l, Void)
             s == Do(l)
  <2>1. s = <<x>>
    BY DEF Do, Instr, Void
  <2> HIDE DEF x, s
  <2>2. IsCode(s) /\ IsCode(s \o t) /\ Starts(s \o t, x, t)
    BY <1>1, <2>1
  <2> QED  BY <2>2 DEF x, s
<1> QED  BY <1>2, <1>3, <1>4

LEMMA HandlerCode ==
    /\ Starts(HandlerLock, Instr("lock", "scheduler"), HandlerYield)
    /\ Starts(HandlerYield, Instr("yield", Void), HandlerUnlock)
    /\ Starts(HandlerUnlock, Instr("unlock", "scheduler"), Do("iret"))
    /\ Starts(Do("iret"), Instr("iret", Void), <<>>)
    /\ Starts(CtxLock, Instr("lock", "ctx"), CtxUnlock)
    /\ Starts(CtxUnlock, Instr("unlock", "ctx"), VmmLock)
    /\ Starts(VmmLock, Instr("lock", "vmm"), VmmUnlock)
    /\ Starts(VmmUnlock, Instr("unlock", "vmm"), HandlerUnlock)
    /\ interrupts_handler = HandlerLock
    /\ context_switch \o vmm_switch_space \o HandlerUnlock = CtxLock
    /\ <<>> \o HandlerUnlock = HandlerUnlock
<1>3. IsCode(<<>>)
  BY EmptySeq DEF IsCode
<1>4. IsCode(Do("iret")) /\ Starts(Do("iret"), Instr("iret", Void), <<>>)
  <2>1. Do("iret") \o <<>> = Do("iret")
    BY ConcatEmptySeq DEF Do
  <2>2. IsCode(Do("iret")) /\ Starts(Do("iret") \o <<>>, Instr("iret", Void), <<>>)
    BY <1>3, CodeInstr
  <2> QED  BY <2>1, <2>2
<1>5. IsCode(HandlerUnlock) /\ Starts(HandlerUnlock, Instr("unlock", "scheduler"), Do("iret"))
  BY <1>4, CodeInstr DEF HandlerUnlock
<1>6. IsCode(HandlerYield) /\ Starts(HandlerYield, Instr("yield", Void), HandlerUnlock)
  BY <1>5, CodeInstr DEF HandlerYield
<1>7. IsCode(HandlerLock) /\ Starts(HandlerLock, Instr("lock", "scheduler"), HandlerYield)
  BY <1>6, CodeInstr DEF HandlerLock
<1>8. IsCode(VmmUnlock) /\ Starts(VmmUnlock, Instr("unlock", "vmm"), HandlerUnlock)
  BY <1>5, CodeInstr DEF VmmUnlock
<1>9. IsCode(VmmLock) /\ Starts(VmmLock, Instr("lock", "vmm"), VmmUnlock)
  BY <1>8, CodeInstr DEF VmmLock
<1>10. IsCode(CtxUnlock) /\ Starts(CtxUnlock, Instr("unlock", "ctx"), VmmLock)
  BY <1>9, CodeInstr DEF CtxUnlock
<1>11. IsCode(CtxLock) /\ Starts(CtxLock, Instr("lock", "ctx"), CtxUnlock)
  BY <1>10, CodeInstr DEF CtxLock
<1>12. \A l : IsCode(Lock(l)) /\ IsCode(Unlock(l))
  BY <1>3, CodeInstr
<1>13. \A o : IsCode(Do(o))
  BY <1>3, CodeInstr
<1>14. interrupts_handler = HandlerLock
  <2> DEFINE a == Lock("scheduler")
             b == Do("yield")
             c == Unlock("scheduler")
             d == Do("iret")
  <2>1. IsCode(a) /\ IsCode(b) /\ IsCode(c) /\ IsCode(d)
    BY <1>12, <1>13
  <2> HIDE DEF a, b, c, d
  <2>2. IsCode(a \o b) /\ IsCode(c \o d)
    BY ONLY <2>1, CodeConcat, SMTT(30)
  <2>3. ((a \o b) \o c) \o d = (a \o b) \o (c \o d)
    BY ONLY <2>1, <2>2, CodeConcat, SMTT(30)
  <2>4. (a \o b) \o (c \o d) = a \o (b \o (c \o d))
    BY ONLY <2>1, <2>2, CodeConcat, SMTT(30)
  <2>5. ((a \o b) \o c) \o d = a \o (b \o (c \o d))
    BY <2>3, <2>4
  <2> QED  BY <2>5 DEF a, b, c, d, interrupts_handler, HandlerLock, HandlerYield, HandlerUnlock
<1>15. context_switch \o vmm_switch_space \o HandlerUnlock = CtxLock
  <2> DEFINE a == Lock("ctx")
             b == Unlock("ctx")
             c == Lock("vmm")
             d == Unlock("vmm")
             t == HandlerUnlock
  <2>1. IsCode(a) /\ IsCode(b) /\ IsCode(c) /\ IsCode(d) /\ IsCode(t)
    BY <1>5, <1>12
  <2> HIDE DEF a, b, c, d, t
  <2>2. IsCode(a \o b) /\ IsCode(c \o d) /\ IsCode(d \o t)
    BY ONLY <2>1, CodeConcat, SMTT(30)
  <2>3. ((a \o b) \o (c \o d)) \o t = (a \o b) \o ((c \o d) \o t)
    BY ONLY <2>1, <2>2, CodeConcat, SMTT(30)
  <2>4. (c \o d) \o t = c \o (d \o t)
    BY <2>1, CodeConcat
  <2>5. IsCode(c \o (d \o t))
    BY ONLY <2>1, <2>2, CodeConcat, SMTT(30)
  <2>6. (a \o b) \o (c \o (d \o t)) = a \o (b \o (c \o (d \o t)))
    BY ONLY <2>1, <2>5, CodeConcat, SMTT(30)
  <2>7. ((a \o b) \o (c \o d)) \o t = a \o (b \o (c \o (d \o t)))
    BY <2>3, <2>4, <2>6
  <2> QED  BY <2>7 DEF a, b, c, d, t, context_switch, vmm_switch_space, CtxLock, CtxUnlock, VmmLock, VmmUnlock
<1>16. <<>> \o HandlerUnlock = HandlerUnlock
  BY <1>3, <1>5, CodeConcat
<1> QED  BY <1>4, <1>5, <1>6, <1>7, <1>8, <1>9, <1>10, <1>11, <1>14, <1>15, <1>16


LEMMA HandlerOps ==
    /\ /\ HandlerLock # <<>> /\ Head(HandlerLock).op = "lock"
       /\ Head(HandlerLock).arg = "scheduler" /\ Tail(HandlerLock) = HandlerYield
    /\ /\ HandlerYield # <<>> /\ Head(HandlerYield).op = "yield" /\ Tail(HandlerYield) = HandlerUnlock
    /\ /\ HandlerUnlock # <<>> /\ Head(HandlerUnlock).op = "unlock"
       /\ Head(HandlerUnlock).arg = "scheduler" /\ Tail(HandlerUnlock) = Do("iret")
    /\ Do("iret") # <<>> /\ Head(Do("iret")).op = "iret"
    /\ /\ CtxLock # <<>> /\ Head(CtxLock).op = "lock"
       /\ Head(CtxLock).arg = "ctx" /\ Tail(CtxLock) = CtxUnlock
    /\ /\ CtxUnlock # <<>> /\ Head(CtxUnlock).op = "unlock"
       /\ Head(CtxUnlock).arg = "ctx" /\ Tail(CtxUnlock) = VmmLock
    /\ /\ VmmLock # <<>> /\ Head(VmmLock).op = "lock"
       /\ Head(VmmLock).arg = "vmm" /\ Tail(VmmLock) = VmmUnlock
    /\ /\ VmmUnlock # <<>> /\ Head(VmmUnlock).op = "unlock"
       /\ Head(VmmUnlock).arg = "vmm" /\ Tail(VmmUnlock) = HandlerUnlock
<1>1. \A o, a : Instr(o, a).op = o /\ Instr(o, a).arg = a
  BY DEF Instr
<1> QED  BY <1>1, HandlerCode DEF Starts

-----------------------------------------------------------------------------
(***************************************************************************)
(* The inductive invariant: what each task has left is safe with the locks *)
(* it holds; the handler holds what its place tells; and a task that was   *)
(* switched away from between a search and its mark holds the lock which   *)
(* the handler, on its way out, is bound to take.                          *)
(***************************************************************************)
Flags(p) ==
    {x \in {"on", "early", "scan"} :
        /\ x = "on" => p # current_pid \/ isr # <<>> \/ intr
        /\ x = "early" => p = Boot /\ length = 1
        /\ x = "scan" => p \in scanning}

KernelTypes ==
    /\ intr \in BOOLEAN
    /\ locks \in [LockName -> Pid \cup {Isr, Nobody}]
    /\ scanning \subseteq Pid

CodeInv ==
    /\ todo = [p \in Pid |-> todo[p]]
    /\ \A p \in Pid : Safe(todo[p], Held(p), Flags(p))

HandlerInv ==
    \/ isr = <<>> /\ Held(Isr) = {}
    \/ isr = HandlerLock /\ Held(Isr) = {}
    \/ isr = HandlerYield /\ Held(Isr) = {"scheduler"}
    \/ isr = HandlerUnlock /\ Held(Isr) = {"scheduler"}
    \/ isr = Do("iret") /\ Held(Isr) = {}
    \/ isr = CtxLock /\ Held(Isr) = {"scheduler"}
    \/ isr = CtxUnlock /\ Held(Isr) = {"scheduler", "ctx"}
    \/ isr = VmmLock /\ Held(Isr) = {"scheduler"}
    \/ isr = VmmUnlock /\ Held(Isr) = {"scheduler", "vmm"}

SearchInv ==
    /\ ScanExclusive
    /\ \A c \in scanning :
           \/ c = current_pid
           \/ locks["vmm"] = c /\ isr \in {CtxLock, CtxUnlock, VmmLock}

KernelInv == SchedInv /\ KernelTypes /\ CodeInv /\ HandlerInv /\ SearchInv

LEMMA KernelInitInv == Init => KernelInv
<1> SUFFICES ASSUME Init  PROVE KernelInv
  OBVIOUS
<1>1. SchedInv
  BY SchedInitInv DEF Init, SchedInit
<1>2. KernelTypes
  BY DEF Init, KernelTypes, Isr, Nobody
<1>3. \A p \in Pid \cup {Isr} : Held(p) = {}
  BY DEF Init, Held, Pid, Isr, Nobody
<1>4. CodeInv
  <2>1. todo = [p \in Pid |-> todo[p]]
    BY DEF Init
  <2>2. ASSUME NEW p \in Pid  PROVE Safe(todo[p], Held(p), Flags(p))
    <3>1. Flags(p) = IF p = Boot THEN {"on", "early"} ELSE {"on"}
      BY DEF Flags, Init, sched_init
    <3>2. todo[p] = IF p = Boot THEN bootstrap ELSE main(p)
      BY DEF Init
    <3> QED  BY <1>3, <3>1, <3>2, ProgramSafe
  <2> QED  BY <2>1, <2>2 DEF CodeInv
<1>5. HandlerInv
  BY <1>3 DEF Init, HandlerInv
<1>6. SearchInv
  BY DEF Init, SearchInv, ScanExclusive
<1> QED  BY <1>1, <1>2, <1>4, <1>5, <1>6 DEF KernelInv

\* A step with interrupts on before and after it, or in the handler, that
\* leaves the code of the tasks and their locks alone.
LEMMA HandlerKeeps ==
    ASSUME KernelInv, SchedInv', isr # <<>> \/ intr, isr' # <<>> \/ intr',
           intr' \in BOOLEAN, locks' \in [LockName -> Pid \cup {Isr, Nobody}],
           UNCHANGED <<todo, length, scanning>>,
           \A p \in Pid : Held(p)' = Held(p),
           HandlerInv',
           \A c \in scanning : \/ c = current_pid'
                               \/ locks'["vmm"] = c /\ isr' \in {CtxLock, CtxUnlock, VmmLock}
    PROVE  KernelInv'
<1>1. KernelTypes'
  BY DEF KernelInv, KernelTypes, Pid
<1>2. \A p \in Pid : Flags(p)' = Flags(p)
  BY DEF Flags
<1>3. CodeInv'
  BY <1>2 DEF KernelInv, CodeInv, Pid
<1>4. SearchInv'
  BY DEF KernelInv, SearchInv, ScanExclusive
<1> QED  BY <1>1, <1>3, <1>4 DEF KernelInv

LEMMA CurrentIsPid == KernelInv => current_pid \in Pid /\ length \in Nat /\ length # 0
BY SchedAssumption DEF KernelInv, SchedInv, SchedTypeOK, Queued, Pid

\* A step of the current task.
LEMMA TaskKeeps ==
    ASSUME KernelInv, SchedInv', isr = <<>>, isr' = <<>>, current_pid' = current_pid,
           intr' \in BOOLEAN, locks' \in [LockName -> Pid \cup {Isr, Nobody}],
           length' = length \/ current_pid = Boot,
           NEW d, todo' = [todo EXCEPT ![current_pid] = d],
           scanning' \subseteq {current_pid},
           \A q \in (Pid \cup {Isr}) \ {current_pid} : Held(q)' = Held(q),
           Safe(d, Held(current_pid)', Flags(current_pid)')
    PROVE  KernelInv'
<1>1. current_pid \in Pid
  BY CurrentIsPid
<1>2. isr \notin {CtxLock, CtxUnlock, VmmLock}
  BY HandlerOps
<1>3. scanning \subseteq {current_pid}
  BY <1>2 DEF KernelInv, SearchInv
<1>4. KernelTypes'
  BY <1>1 DEF KernelInv, KernelTypes, Pid
<1>5. CodeInv'
  <2>1. todo' = [p \in Pid |-> todo'[p]]
    BY DEF KernelInv, CodeInv
  <2>2. ASSUME NEW p \in Pid  PROVE Safe(todo'[p], Held(p)', Flags(p)')
    <3>1. CASE p = current_pid
      <4>1. todo'[p] = d
        BY <1>1, <3>1 DEF KernelInv, CodeInv
      <4>2. Flags(p)' = Flags(current_pid)' /\ Held(p)' = Held(current_pid)'
        BY <3>1 DEF Flags, Held
      <4> QED  BY <4>1, <4>2
    <3>2. CASE p # current_pid
      <4>1. todo'[p] = todo[p]
        BY <3>2 DEF KernelInv, CodeInv
      <4>2. Held(p)' = Held(p)
        BY <3>2
      <4>3. Flags(p)' = Flags(p)
        BY <1>3, <3>2 DEF Flags
      <4> QED  BY <4>1, <4>2, <4>3 DEF KernelInv, CodeInv
    <3> QED  BY <3>1, <3>2
  <2> QED  BY <2>1, <2>2 DEF CodeInv, Pid
<1>6. HandlerInv'
  <2>1. Isr # current_pid
    BY <1>1 DEF Isr, Pid
  <2>2. Held(Isr)' = {}
    BY <2>1, HandlerOps DEF KernelInv, HandlerInv
  <2> QED  BY <2>2 DEF HandlerInv
<1>7. SearchInv'
  BY DEF SearchInv, ScanExclusive
<1> QED  BY <1>4, <1>5, <1>6, <1>7 DEF KernelInv


LEMMA HandlerInvNext ==
    ASSUME KernelInv, SchedInv', Tick \/ Handler
    PROVE  KernelInv'
<1>1. current_pid \in Pid /\ Isr \notin Pid /\ Isr # Nobody /\ Nobody \notin Pid
  BY CurrentIsPid DEF Isr, Pid, Nobody
<1>2. LockName = {"elfloader", "scheduler", "ctx", "liballoc", "vmm", "pmm"}
  BY DEF LockName
<1>3. locks \in [LockName -> Pid \cup {Isr, Nobody}] /\ intr \in BOOLEAN
  BY DEF KernelInv, KernelTypes
<1>4. \A c \in scanning : c = current_pid
                          \/ (locks["vmm"] = c /\ isr \in {CtxLock, CtxUnlock, VmmLock})
  BY DEF KernelInv, SearchInv
<1>5. CASE Tick
  <2>1. /\ isr = <<>> /\ intr /\ isr' = HandlerLock /\ intr' = FALSE /\ isr' # <<>>
        /\ UNCHANGED <<locks, todo, length, scanning, current_pid>>
    BY <1>5, HandlerCode, HandlerOps DEF Tick, schedVars
  <2>2. \A c : Held(c)' = Held(c)
    BY <2>1 DEF Held
  <2>3. HandlerInv'
    BY <2>1, <2>2, HandlerOps DEF KernelInv, HandlerInv
  <2>4. \A c \in scanning : c = current_pid'
    BY <1>4, <2>1, HandlerOps
  <2> QED  BY <1>3, <2>1, <2>2, <2>3, <2>4, HandlerKeeps
<1>6. ASSUME isr # <<>>, Acquire
      PROVE  KernelInv'
  <2> DEFINE l == Head(isr).arg
  <2>1. /\ Head(isr).op = "lock" /\ locks[l] = Nobody /\ locks' = [locks EXCEPT ![l] = Isr]
        /\ isr' = Tail(isr) /\ intr' = FALSE
        /\ UNCHANGED <<todo, length, scanning, current_pid>>
    BY <1>6 DEF Acquire, At, Code, Context, GoOn, schedVars
  <2>2. \/ isr = HandlerLock /\ l = "scheduler" /\ isr' = HandlerYield /\ Held(Isr) = {}
        \/ isr = CtxLock /\ l = "ctx" /\ isr' = CtxUnlock /\ Held(Isr) = {"scheduler"}
        \/ isr = VmmLock /\ l = "vmm" /\ isr' = VmmUnlock /\ Held(Isr) = {"scheduler"}
    BY <1>6, <2>1, HandlerOps DEF KernelInv, HandlerInv
  <2>3. l \in LockName
    BY <1>2, <2>2
  <2> HIDE DEF l
  <2>4. locks' \in [LockName -> Pid \cup {Isr, Nobody}]
    BY <1>3, <2>1, <2>3
  <2>5. \A p \in Pid : Held(p)' = Held(p)
    BY <1>1, <1>3, <2>1, <2>3 DEF Held
  <2>6. Held(Isr)' = Held(Isr) \cup {l}
    BY <1>1, <1>3, <2>1, <2>3 DEF Held
  <2>7. HandlerInv'
    BY <2>2, <2>6 DEF HandlerInv
  <2>8. isr' # <<>>
    BY <2>2, HandlerOps
  <2>9. ASSUME NEW c \in scanning
        PROVE  \/ c = current_pid'
               \/ locks'["vmm"] = c /\ isr' \in {CtxLock, CtxUnlock, VmmLock}
    <3>1. CASE l = "vmm"
      <4>1. locks["vmm"] # c
        BY <1>1, <2>1, <3>1 DEF KernelInv, KernelTypes
      <4> QED  BY <1>4, <2>1, <4>1
    <3>2. CASE l # "vmm"
      <4>1. locks'["vmm"] = locks["vmm"]
        BY <1>2, <1>3, <2>1, <3>2
      <4>2. isr \in {CtxLock, CtxUnlock, VmmLock} => isr' \in {CtxLock, CtxUnlock, VmmLock}
        <5>1. isr = HandlerLock => isr \notin {CtxLock, CtxUnlock, VmmLock}
          <6>1. "scheduler" # "ctx" /\ "scheduler" # "vmm" /\ "lock" # "unlock"
            OBVIOUS
          <6> QED  BY ONLY <6>1, HandlerOps
        <5> QED  BY <2>2, <3>2, <5>1
      <4> QED  BY <1>4, <2>1, <4>1, <4>2
    <3> QED  BY <3>1, <3>2
  <2> QED  BY <1>6, <2>1, <2>4, <2>5, <2>7, <2>8, <2>9, HandlerKeeps
<1>7. ASSUME isr # <<>>, Spin
      PROVE  KernelInv'
  <2>1. /\ intr' = FALSE
        /\ UNCHANGED <<isr, locks, todo, length, scanning, current_pid>>
    BY <1>7 DEF Spin, schedVars
  <2>2. \A c : Held(c)' = Held(c)
    BY <2>1 DEF Held
  <2>3. HandlerInv'
    BY <2>1, <2>2 DEF KernelInv, HandlerInv
  <2> QED  BY <1>3, <1>4, <1>7, <2>1, <2>2, <2>3, HandlerKeeps
<1>8. ASSUME isr # <<>>, Release
      PROVE  KernelInv'
  <2> DEFINE l == Head(isr).arg
  <2>1. /\ Head(isr).op = "unlock" /\ locks' = [locks EXCEPT ![l] = Nobody]
        /\ isr' = Tail(isr) /\ intr' = TRUE
        /\ UNCHANGED <<todo, length, scanning, current_pid>>
    BY <1>8 DEF Release, At, Code, Context, GoOn, schedVars
  <2>2. \/ /\ isr = HandlerUnlock /\ l = "scheduler" /\ isr' = Do("iret")
           /\ Held(Isr) = {"scheduler"}
        \/ /\ isr = CtxUnlock /\ l = "ctx" /\ isr' = VmmLock
           /\ Held(Isr) = {"scheduler", "ctx"}
        \/ /\ isr = VmmUnlock /\ l = "vmm" /\ isr' = HandlerUnlock
           /\ Held(Isr) = {"scheduler", "vmm"}
    BY <1>8, <2>1, HandlerOps DEF KernelInv, HandlerInv
  <2>3. l \in LockName /\ l \in Held(Isr)
    BY <1>2, <2>2
  <2> HIDE DEF l
  <2>4. locks' \in [LockName -> Pid \cup {Isr, Nobody}] /\ locks[l] = Isr
    BY <1>3, <2>1, <2>3 DEF Held
  <2>5. \A p \in Pid : Held(p)' = Held(p)
    BY <1>1, <1>3, <2>1, <2>3, <2>4 DEF Held
  <2>6. Held(Isr)' = Held(Isr) \ {l}
    BY <1>1, <1>3, <2>1, <2>3 DEF Held
  <2>7. HandlerInv'
    BY <2>2, <2>6 DEF HandlerInv
  <2>8. ASSUME NEW c \in scanning
        PROVE  \/ c = current_pid'
               \/ locks'["vmm"] = c /\ isr' \in {CtxLock, CtxUnlock, VmmLock}
    <3>1. CASE isr = CtxUnlock
      <4>1. l = "ctx" /\ isr' = VmmLock
        <5>1. CtxUnlock # HandlerUnlock /\ CtxUnlock # VmmUnlock
          <6>1. "scheduler" # "ctx" /\ "ctx" # "vmm"
            OBVIOUS
          <6> QED  BY ONLY <6>1, HandlerOps
        <5> QED  BY <2>2, <3>1, <5>1
      <4>2. locks'["vmm"] = locks["vmm"]
        BY <1>2, <1>3, <2>1, <4>1
      <4> QED  BY <1>4, <2>1, <4>1, <4>2
    <3>2. CASE isr # CtxUnlock
      <4>1. isr \notin {CtxLock, VmmLock}
        <5>1. "lock" # "unlock"
          OBVIOUS
        <5> QED  BY ONLY <2>1, <5>1, HandlerOps
      <4> QED  BY <1>4, <2>1, <3>2, <4>1
    <3> QED  BY <3>1, <3>2
  <2> QED  BY <1>8, <2>1, <2>4, <2>5, <2>7, <2>8, HandlerKeeps
<1>9. ASSUME isr # <<>>, Iret
      PROVE  KernelInv'
  <2>1. /\ Head(isr).op = "iret" /\ intr' = TRUE /\ isr' = <<>>
        /\ UNCHANGED <<locks, todo, length, scanning, current_pid>>
    BY <1>9 DEF Iret, At, Code, GoOn, schedVars
  <2>2. \A c : Held(c)' = Held(c)
    BY <2>1 DEF Held
  <2>3. isr = Do("iret") /\ Held(Isr) = {}
    BY <1>9, <2>1, HandlerOps DEF KernelInv, HandlerInv
  <2>4. HandlerInv'
    BY <2>1, <2>2, <2>3 DEF HandlerInv
  <2>5. isr \notin {CtxLock, CtxUnlock, VmmLock}
    BY ONLY <2>1, HandlerOps
  <2>6. \A c \in scanning : c = current_pid'
    BY <1>4, <2>1, <2>5
  <2> QED  BY <1>3, <1>9, <2>1, <2>2, <2>4, <2>6, HandlerKeeps
<1>10. ASSUME isr # <<>>, Yield
       PROVE  KernelInv'
  <2> DEFINE switch == tick + 1 >= SWITCH_TICK
  <2>1. /\ Head(isr).op = "yield" /\ sched_yield
        /\ isr' = (IF switch THEN context_switch \o vmm_switch_space ELSE <<>>) \o Tail(isr)
        /\ UNCHANGED <<intr, locks, todo, length, scanning>>
    BY <1>10 DEF Yield, At, Code, GoOn, sched_yield
  <2>2. isr = HandlerYield /\ Held(Isr) = {"scheduler"}
    BY <1>10, <2>1, HandlerOps DEF KernelInv, HandlerInv
  <2>3. isr' = IF switch THEN CtxLock ELSE HandlerUnlock
    BY <2>1, <2>2, HandlerOps, HandlerCode
  <2>4. \A c : Held(c)' = Held(c)
    BY <2>1 DEF Held
  <2>5. HandlerInv'
    BY <2>2, <2>3, <2>4 DEF HandlerInv
  <2>6. isr \notin {CtxLock, CtxUnlock, VmmLock}
    BY ONLY <2>1, HandlerOps
  <2>7. ASSUME NEW c \in scanning
        PROVE  \/ c = current_pid'
               \/ locks'["vmm"] = c /\ isr' \in {CtxLock, CtxUnlock, VmmLock}
    <3>1. c = current_pid
      BY <1>4, <2>6
    <3>2. CASE switch
      <4>1. isr' = CtxLock
        BY <2>3, <3>2
      <4>2. /\ "on" \in Flags(c) /\ "scan" \in Flags(c)
            /\ "early" \in Flags(c) => c = Boot /\ length = 1
        BY <1>10, <2>7 DEF Flags
      <4>3. Guarded(Held(c), Flags(c))
        <5>1. Allowed(todo[c], Held(c), Flags(c))
          BY <1>1, <3>1, SafeLeads DEF KernelInv, CodeInv
        <5> QED  BY <4>2, <5>1 DEF Allowed
      <4>4. CASE "vmm" \in Held(c)
        BY <2>1, <4>1, <4>4 DEF Held
      <4>5. CASE c = Boot /\ length = 1
        <5>1. \E p \in Queued : current_pid' = p
          BY <2>1, <3>2 DEF sched_yield, SwitchTo
        <5>2. current_pid' = Boot
          BY <4>5, <5>1 DEF Queued, Boot
        <5> QED  BY <4>5, <5>2
      <4> QED  BY <4>2, <4>3, <4>4, <4>5 DEF Guarded
    <3>3. CASE ~switch
      <4>1. current_pid' = current_pid
        BY <2>1, <3>3 DEF sched_yield
      <4> QED  BY <3>1, <4>1
    <3> QED  BY <3>2, <3>3
  <2>8. isr' # <<>>
    BY <2>3, HandlerOps
  <2> QED  BY <1>3, <1>10, <2>1, <2>4, <2>5, <2>7, <2>8, HandlerKeeps
<1> QED  BY <1>5, <1>6, <1>7, <1>8, <1>9, <1>10 DEF Handler


\* Where interrupts may or may not be on, what is safe with them on is safe.
LEMMA SafeBoth ==
    ASSUME NEW c, NEW h, NEW f, NEW k, f = k \/ f = k \ {"on"}, Safe(c, h, k)
    PROVE  Safe(c, h, f)
BY SafeOff

\* What the current task has to execute.
LEMMA CurrentCode ==
    ASSUME KernelInv, isr = <<>>,
           NEW c, c = todo[current_pid],
           NEW h, h = Held(current_pid),
           NEW f, f = Flags(current_pid)
    PROVE  /\ Safe(c, h, f) /\ Allowed(c, h, f)
           /\ \A d, g, k : Leads(c, h, f, d, g, k) => Safe(d, g, k)
           /\ f \subseteq {"on", "early", "scan"}
           /\ "on" \in f <=> intr
           /\ "early" \in f <=> current_pid = Boot /\ length = 1
           /\ "scan" \in f <=> scanning = {current_pid}
           /\ scanning \subseteq {current_pid}
           /\ Code = c /\ Context = current_pid
           /\ \A d : GoOn(d) <=> (todo' = [todo EXCEPT ![current_pid] = d] /\ isr' = isr)
<1>1. current_pid \in Pid
  BY CurrentIsPid
<1>2. Safe(c, h, f)
  BY <1>1 DEF KernelInv, CodeInv
<1>3. Allowed(c, h, f) /\ \A d, g, k : Leads(c, h, f, d, g, k) => Safe(d, g, k)
  BY <1>2, SafeLeads
<1>4. isr \notin {CtxLock, CtxUnlock, VmmLock}
  BY HandlerOps
<1>5. scanning \subseteq {current_pid}
  BY <1>4 DEF KernelInv, SearchInv
<1>6. /\ f \subseteq {"on", "early", "scan"}
      /\ "on" \in f <=> intr
      /\ "early" \in f <=> current_pid = Boot /\ length = 1
      /\ "scan" \in f <=> scanning = {current_pid}
  BY <1>5 DEF Flags
<1>7. Code = c /\ Context = current_pid
  BY DEF Code, Context
<1>8. \A d : GoOn(d) <=> (todo' = [todo EXCEPT ![current_pid] = d] /\ isr' = isr)
  BY DEF GoOn
<1> QED  BY <1>2, <1>3, <1>5, <1>6, <1>7, <1>8

LEMMA TaskInvNext ==
    ASSUME KernelInv, SchedInv', NEW p \in Pid, Task(p)
    PROVE  KernelInv'
<1> DEFINE c == todo[current_pid]
           h == Held(current_pid)
           f == Flags(current_pid)
           f2 == Flags(current_pid)'
           h2 == Held(current_pid)'
<1>1. isr = <<>> /\ current_pid \in Pid /\ Isr \notin Pid /\ Isr # Nobody /\ Nobody \notin Pid
  BY CurrentIsPid DEF Isr, Pid, Nobody, Task
<1>2. locks \in [LockName -> Pid \cup {Isr, Nobody}] /\ intr \in BOOLEAN /\ todo = [q \in Pid |-> todo[q]]
  BY DEF KernelInv, KernelTypes, CodeInv
<1>3. /\ Safe(c, h, f) /\ Allowed(c, h, f)
      /\ \A d, g, k : Leads(c, h, f, d, g, k) => Safe(d, g, k)
      /\ f \subseteq {"on", "early", "scan"}
      /\ "on" \in f <=> intr
      /\ "early" \in f <=> current_pid = Boot /\ length = 1
      /\ "scan" \in f <=> scanning = {current_pid}
      /\ scanning \subseteq {current_pid}
      /\ Code = c /\ Context = current_pid
      /\ \A d : GoOn(d) <=> (todo' = [todo EXCEPT ![current_pid] = d] /\ isr' = isr)
  BY <1>1, CurrentCode
<1>4. /\ h = {l \in LockName : locks[l] = current_pid}
      /\ UNCHANGED current_pid => h2 = {l \in LockName : locks'[l] = current_pid}
  BY DEF Held
<1>5. UNCHANGED current_pid =>
          /\ f2 \subseteq {"on", "early", "scan"}
          /\ "on" \in f2 <=> isr' # <<>> \/ intr'
          /\ "early" \in f2 <=> current_pid = Boot /\ length' = 1
          /\ "scan" \in f2 <=> current_pid \in scanning'
  BY DEF Flags
<1>6. UNCHANGED locks => \A q : Held(q)' = Held(q)
  BY DEF Held
   \* A step that leaves the locks, the searches and the queue alone.
<1>7. ASSUME UNCHANGED <<locks, isr, length, scanning, current_pid>>, intr' \in BOOLEAN,
             NEW d, todo' = [todo EXCEPT ![current_pid] = d], Safe(d, h, f2)
      PROVE  KernelInv'
  <2>1. h2 = h
    BY <1>4, <1>7
  <2> QED  BY <1>1, <1>2, <1>3, <1>6, <1>7, <2>1, TaskKeeps
<1>8. UNCHANGED <<length, scanning, current_pid, isr>> =>
          f2 = (f \ {"on"}) \cup (IF intr' THEN {"on"} ELSE {})
  BY <1>1, <1>3, <1>5
<1>9. length \in Nat /\ length # 0
  BY CurrentIsPid
<1> HIDE DEF c, h, f, f2, h2
<1>10. CASE Acquire
  <2> DEFINE l == Head(c).arg
  <2>1. /\ c # <<>> /\ Head(c).op = "lock" /\ locks[l] = Nobody /\ intr' = FALSE
        /\ locks' = [locks EXCEPT ![l] = current_pid]
        /\ todo' = [todo EXCEPT ![current_pid] = Tail(c)]
        /\ UNCHANGED <<length, scanning, current_pid, isr>>
    BY <1>3, <1>10 DEF Acquire, At, schedVars
  <2>2. l \in LockName
    BY <1>3, <2>1 DEF Allowed
  <2>3. Safe(Tail(c), h \cup {l}, f \ {"on"})
    BY <1>3, <2>1 DEF Leads
  <2> HIDE DEF l
  <2>4. h2 = h \cup {l} /\ f2 = f \ {"on"}
    BY <1>2, <1>4, <1>8, <2>1, <2>2
  <2>5. \A q \in (Pid \cup {Isr}) \ {current_pid} : Held(q)' = Held(q)
    BY <1>1, <1>2, <2>1, <2>2 DEF Held
  <2>6. locks' \in [LockName -> Pid \cup {Isr, Nobody}]
    BY <1>1, <1>2, <2>1, <2>2
  <2>7. Safe(Tail(c), h2, f2) /\ intr' \in BOOLEAN /\ scanning' \subseteq {current_pid}
    BY <1>3, <2>1, <2>3, <2>4
  <2> QED  BY <1>1, <2>1, <2>5, <2>6, <2>7, TaskKeeps DEF f2, h2
<1>11. CASE Spin \/ Panic
  <2>1. /\ intr' = FALSE
        /\ UNCHANGED <<locks, todo, length, scanning, current_pid, isr>>
    BY <1>11 DEF Spin, Panic, schedVars
  <2>2. f2 = f \ {"on"}
    BY <1>8, <2>1
  <2>3. Safe(c, h, f2)
    BY <1>3, <2>2, SafeOff
  <2>4. todo' = [todo EXCEPT ![current_pid] = c]
    BY <1>1, <1>2, <2>1 DEF c
  <2> QED  BY <1>7, <2>1, <2>3, <2>4
<1>12. CASE Release
  <2> DEFINE l == Head(c).arg
  <2>1. /\ c # <<>> /\ Head(c).op = "unlock" /\ intr' = TRUE
        /\ locks' = [locks EXCEPT ![l] = Nobody]
        /\ todo' = [todo EXCEPT ![current_pid] = Tail(c)]
        /\ UNCHANGED <<length, scanning, current_pid, isr>>
    BY <1>3, <1>12 DEF Release, At, schedVars
  <2>2. l \in LockName /\ locks[l] = current_pid
    BY <1>3, <1>4, <2>1 DEF Allowed
  <2>3. Safe(Tail(c), h \ {l}, f \cup {"on"})
    BY <1>3, <2>1 DEF Leads
  <2> HIDE DEF l
  <2>4. h2 = h \ {l} /\ f2 = f \cup {"on"}
    BY <1>1, <1>2, <1>3, <1>4, <1>8, <2>1, <2>2
  <2>5. \A q \in (Pid \cup {Isr}) \ {current_pid} : Held(q)' = Held(q)
    BY <1>1, <1>2, <2>1, <2>2 DEF Held
  <2>6. locks' \in [LockName -> Pid \cup {Isr, Nobody}]
    BY <1>1, <1>2, <2>1, <2>2
  <2>7. Safe(Tail(c), h2, f2) /\ intr' \in BOOLEAN /\ scanning' \subseteq {current_pid}
    BY <1>3, <2>1, <2>3, <2>4
  <2> QED  BY <1>1, <2>1, <2>5, <2>6, <2>7, TaskKeeps DEF f2, h2
<1>13. CASE Choose
  <2>1. PICK k \in 1 .. 2 :
            /\ c # <<>> /\ Head(c).op = "branch"
            /\ todo' = [todo EXCEPT ![current_pid] = Head(c).arg[k] \o Tail(c)]
            /\ UNCHANGED <<locks, intr, length, scanning, current_pid, isr>>
    BY <1>3, <1>13 DEF Choose, At, schedVars
  <2>2. k = 1 \/ k = 2
    OBVIOUS
  <2>3. Safe(Head(c).arg[k] \o Tail(c), h, f)
    BY <1>3, <2>1, <2>2 DEF Leads
  <2>4. f2 = f
    BY <1>3, <1>8, <2>1
  <2> QED  BY <1>2, <1>7, <2>1, <2>3, <2>4
<1>14. CASE Scan
  <2>1. /\ c # <<>> /\ Head(c).op = "scan" /\ scanning' = scanning \cup {current_pid}
        /\ todo' = [todo EXCEPT ![current_pid] = Tail(c)]
        /\ UNCHANGED <<locks, intr, length, current_pid, isr>>
    BY <1>3, <1>14 DEF Scan, At, schedVars
  <2>2. Safe(Tail(c), h, f \cup {"scan"})
    BY <1>3, <2>1 DEF Leads
  <2>3. f2 = f \cup {"scan"} /\ h2 = h
    <3>1. h2 = h
      BY <1>4, <2>1
    <3>2. /\ f2 \subseteq {"on", "early", "scan"} /\ "scan" \in f2
          /\ "on" \in f2 <=> "on" \in f
          /\ "early" \in f2 <=> "early" \in f
      BY <1>1, <1>3, <1>5, <2>1
    <3> QED  BY <1>3, <3>1, <3>2
  <2>4. scanning' \subseteq {current_pid}
    BY <1>3, <2>1
  <2> QED  BY <1>1, <1>2, <1>6, <2>1, <2>2, <2>3, <2>4, TaskKeeps DEF f2, h2
<1>15. CASE Mark
  <2>1. /\ c # <<>> /\ Head(c).op = "mark" /\ scanning' = scanning \ {current_pid}
        /\ todo' = [todo EXCEPT ![current_pid] = Tail(c)]
        /\ UNCHANGED <<locks, intr, length, current_pid, isr>>
    BY <1>3, <1>15 DEF Mark, At, schedVars
  <2>2. Safe(Tail(c), h, f \ {"scan"})
    BY <1>3, <2>1 DEF Leads
  <2>3. f2 = f \ {"scan"} /\ h2 = h
    <3>1. h2 = h
      BY <1>4, <2>1
    <3>2. /\ f2 \subseteq {"on", "early", "scan"} /\ "scan" \notin f2
          /\ "on" \in f2 <=> "on" \in f
          /\ "early" \in f2 <=> "early" \in f
      BY <1>1, <1>3, <1>5, <2>1
    <3> QED  BY <1>3, <3>1, <3>2
  <2>4. scanning' \subseteq {current_pid}
    BY <1>3, <2>1
  <2> QED  BY <1>1, <1>2, <1>6, <2>1, <2>2, <2>3, <2>4, TaskKeeps DEF f2, h2
<1>16. CASE Push
  <2>1. /\ c # <<>> /\ Head(c).op = "push"
        /\ todo' = [todo EXCEPT ![current_pid] = Tail(c)]
        /\ current_pid = Boot /\ length' = length + 1
        /\ UNCHANGED <<locks, intr, scanning, current_pid, isr>>
    BY <1>3, <1>16 DEF Push, At, sched_push_task
  <2>2. Safe(Tail(c), h, f \ {"early"})
    BY <1>3, <2>1 DEF Leads
  <2>3. length' # 1
    BY <1>9, <2>1
  <2>4. h2 = h
    BY <1>4, <2>1
  <2>5. /\ f2 \subseteq {"on", "early", "scan"} /\ "early" \notin f2
        /\ "on" \in f2 <=> "on" \in f
        /\ "scan" \in f2 <=> "scan" \in f
    BY <1>1, <1>3, <1>5, <2>1, <2>3
  <2>6. f2 = f \ {"early"}
    BY <1>3, <2>5
  <2>7. Safe(Tail(c), h2, f2) /\ intr' \in BOOLEAN /\ scanning' \subseteq {current_pid}
    BY <1>2, <1>3, <2>1, <2>2, <2>4, <2>6
  <2> QED  BY <1>1, <1>2, <1>6, <2>1, <2>7, TaskKeeps DEF f2, h2
<1>17. CASE Idle
  <2>1. /\ c # <<>> /\ Head(c).op = "idle"
        /\ todo' = [todo EXCEPT ![current_pid] = idle]
        /\ UNCHANGED <<locks, intr, length, scanning, current_pid, isr>>
    BY <1>3, <1>17 DEF Idle, At, schedVars
  <2>2. h = {} /\ "scan" \notin f
    <3>1. Head(c).op \notin {"lock", "mark"}
      BY <2>1
    <3> QED  BY <1>3, <2>1, <3>1 DEF Allowed
  <2>3. Safe(idle, h, f2)
    <3> DEFINE e == f \ {"on"}
    <3>1. Calm(e) /\ On(e) = f \cup {"on"}
      BY <1>3, <2>2 DEF Calm, On
    <3>2. f2 = On(e) \/ f2 = On(e) \ {"on"}
      BY <1>3, <1>8, <2>1, <3>1
    <3> HIDE DEF e
    <3>3. Safe(idle, {}, On(e))
      BY <3>1, ProgramSafe
    <3> QED  BY <2>2, <3>2, <3>3, SafeBoth
  <2> QED  BY <1>2, <1>7, <2>1, <2>3
<1>18. CASE Enter
  <2>1. /\ c # <<>> /\ Head(c).op = "syscall" /\ intr' = FALSE
        /\ todo' = [todo EXCEPT ![current_pid] = Tail(c)]
        /\ UNCHANGED <<locks, length, scanning, current_pid, isr>>
    BY <1>3, <1>18 DEF Enter, At, schedVars
  <2>2. Safe(Tail(c), h, f \ {"on"})
    BY <1>3, <2>1 DEF Leads
  <2>3. f2 = f \ {"on"}
    BY <1>3, <1>8, <2>1
  <2> QED  BY <1>7, <2>1, <2>2, <2>3
   \* The instructions that are followed by the next, whatever they do to the
   \* interrupts.
<1>19. ASSUME c # <<>>, Head(c).op \in {"sysret", "reap", "reaped", "lookup", "deliver", "pop", "wait"},
              todo' = [todo EXCEPT ![current_pid] = Tail(c)], intr' = intr \/ intr' = TRUE,
              UNCHANGED <<locks, length, scanning, current_pid, isr>>
       PROVE  KernelInv'
  <2>1. Safe(Tail(c), h, f \cup {"on"})
    BY <1>3, <1>19 DEF Leads
  <2>2. intr' \in BOOLEAN
    BY <1>2, <1>19
  <2> DEFINE k == f \cup {"on"}
  <2>3. f2 = k \/ f2 = k \ {"on"}
    BY <1>3, <1>8, <1>19
  <2> HIDE DEF k
  <2>4. Safe(Tail(c), h, f2)
    BY <2>1, <2>3, SafeBoth DEF k
  <2> QED  BY <1>7, <1>19, <2>2, <2>4
<1>20. CASE Reap
  <2>1. /\ c # <<>> /\ Head(c).op = "reap"
        /\ UNCHANGED <<locks, intr, length, scanning, current_pid, isr>>
        /\ \/ todo' = [todo EXCEPT ![current_pid] = Tail(c)]
           \/ todo' = [todo EXCEPT ![current_pid] = free \o Maybe(free) \o Do("reaped") \o Tail(c)]
    BY <1>3, <1>20 DEF Reap, At, schedVars, sched_idle
  <2>2. CASE todo' = [todo EXCEPT ![current_pid] = Tail(c)]
    BY <1>19, <2>1, <2>2
  <2>3. CASE todo' = [todo EXCEPT ![current_pid] = free \o Maybe(free) \o Do("reaped") \o Tail(c)]
    <3>1. h = {"scheduler"} /\ "scan" \notin f
      <4>1. Head(c).op \notin {"lock", "mark"}
        BY <2>1
      <4> QED  BY <1>3, <2>1, <4>1 DEF Allowed
    <3> DEFINE e == f \ {"on"}
    <3>2. Calm(e) /\ On(e) = f \cup {"on"} /\ "scan" \notin On(e) /\ On(e) = On(e) \cup {"on"}
      BY <1>3, <3>1 DEF Calm, On
    <3>3. f2 = On(e) \/ f2 = On(e) \ {"on"}
      BY <1>3, <1>8, <2>1, <3>2
    <3> HIDE DEF e
    <3>4. Safe(Tail(c), h, On(e))
      BY <1>3, <2>1, <3>2 DEF Leads
    <3>5. Below(h, 4)
      <4>1. "scheduler" \in LockName
        BY DEF LockName
      <4> QED  BY <3>1, <4>1, Ranks DEF Below
    <3>6. Through(free, h, e) /\ Through(Maybe(free), h, e)
      BY <3>2, <3>5, heap_Runs, ThroughMaybe
    <3>7. Through(Do("reaped"), h, e)
      BY <3>2, RunsDo DEF Through
    <3>8. Through(free \o Maybe(free) \o Do("reaped"), h, e)
      <4>1. Through(free \o Maybe(free), h, e)
        BY <3>6, ThroughThen
      <4> QED  BY <3>7, <4>1, ThroughThen
    <3> DEFINE d == free \o Maybe(free) \o Do("reaped") \o Tail(c)
    <3>9. Safe(d, h, On(e))
      BY <3>4, <3>8 DEF Through, Runs
    <3> HIDE DEF d
    <3>10. Safe(d, h, f2)
      BY <3>3, <3>9, SafeBoth
    <3>11. todo' = [todo EXCEPT ![current_pid] = d]
      BY <2>3 DEF d
    <3> QED  BY <1>2, <1>7, <2>1, <3>10, <3>11
  <2> QED  BY <2>1, <2>2, <2>3
<1>21. CASE Reaped \/ Sysret \/ Deliver \/ Pop
  <2>1. /\ c # <<>> /\ Head(c).op \in {"reaped", "sysret", "deliver", "pop"}
        /\ todo' = [todo EXCEPT ![current_pid] = Tail(c)]
        /\ intr' = intr \/ intr' = TRUE
        /\ UNCHANGED <<locks, length, scanning, current_pid, isr>>
    BY <1>3, <1>21 DEF Reaped, Sysret, Deliver, Pop, At, schedVars, sched_idle
  <2> QED  BY <1>19, <2>1
<1>22. CASE Exit
  <2>1. /\ c # <<>> /\ Head(c).op = "exit" /\ intr' = TRUE
        /\ todo' = [todo EXCEPT ![current_pid] = <<>>]
        /\ UNCHANGED <<locks, length, scanning, current_pid, isr>>
    BY <1>3, <1>22 DEF Exit, At, syscall_exit
  <2>2. h = {} /\ "scan" \notin f
    <3>1. Head(c).op \notin {"lock", "mark"}
      BY <2>1
    <3> QED  BY <1>3, <2>1, <3>1 DEF Allowed
  <2>3. "scan" \notin f2
    BY <1>8, <2>1, <2>2
  <2>4. Safe(<<>>, h, f2)
    <3>1. Allowed(<<>>, h, f2)
      BY <2>3, EmptySeq DEF Allowed, IsCode
    <3> QED  BY <3>1, SafeEnd DEF Leads
  <2> QED  BY <1>7, <2>1, <2>4
<1>23. CASE Lookup
  <2>1. /\ c # <<>> /\ Head(c).op = "lookup"
        /\ UNCHANGED <<locks, intr, length, scanning, current_pid, isr>>
        /\ \/ todo' = [todo EXCEPT ![current_pid] = Tail(c)]
           \/ todo' = [todo EXCEPT ![current_pid] = vec_push("deliver") \o Tail(c)]
           \/ todo' = [todo EXCEPT ![current_pid] = Do("panic")]
    BY <1>3, <1>23 DEF Lookup, At, schedVars
  <2>2. CASE todo' = [todo EXCEPT ![current_pid] = Tail(c)]
    BY <1>19, <2>1, <2>2
  <2>3. h = {} /\ "scan" \notin f
    <3>1. Head(c).op \notin {"lock", "mark"}
      BY <2>1
    <3> QED  BY <1>3, <2>1, <3>1 DEF Allowed
  <2> DEFINE e == f \ {"on"}
  <2>4. Calm(e) /\ On(e) = f \cup {"on"} /\ "scan" \notin On(e) /\ On(e) = On(e) \cup {"on"}
    BY <1>3, <2>3 DEF Calm, On
  <2>5. f2 = On(e) \/ f2 = On(e) \ {"on"}
    BY <1>3, <1>8, <2>1, <2>4
  <2> HIDE DEF e
  <2>6. CASE todo' = [todo EXCEPT ![current_pid] = vec_push("deliver") \o Tail(c)]
    <3>1. Safe(Tail(c), h, On(e))
      BY <1>3, <2>1, <2>4 DEF Leads
    <3>2. Below(h, 4)
      BY <2>3 DEF Below
    <3>3. Runs(Do("deliver"), h, On(e), h, On(e))
      BY <2>4, RunsDo
    <3>4. Runs(vec_push("deliver"), h, On(e), h, On(e))
      BY <2>4, <3>2, <3>3, vec_push_Runs
    <3> DEFINE d == vec_push("deliver") \o Tail(c)
    <3>5. Safe(d, h, On(e))
      BY <3>1, <3>4 DEF Runs
    <3> HIDE DEF d
    <3>6. Safe(d, h, f2)
      BY <2>5, <3>5, SafeBoth
    <3>7. todo' = [todo EXCEPT ![current_pid] = d]
      BY <2>6 DEF d
    <3> QED  BY <1>2, <1>7, <2>1, <3>6, <3>7
  <2>7. CASE todo' = [todo EXCEPT ![current_pid] = Do("panic")]
    <3>1. Runs(Do("panic"), {}, On(e), {}, On(e))
      BY <2>4, RunsLast
    <3>2. Safe(Do("panic"), {}, On(e))
      BY <2>4, <3>1, RunsSafe
    <3>3. Safe(Do("panic"), h, f2)
      BY <2>3, <2>5, <3>2, SafeBoth
    <3> QED  BY <1>2, <1>7, <2>1, <2>7, <3>3
  <2> QED  BY <2>1, <2>2, <2>6, <2>7
<1>24. CASE Wait
  <2>1. /\ c # <<>> /\ Head(c).op = "wait"
        /\ \/ todo' = todo /\ isr' = isr /\ intr' = TRUE
           \/ todo' = [todo EXCEPT ![current_pid] = Tail(c)] /\ isr' = isr /\ intr' = intr
        /\ UNCHANGED <<locks, length, scanning, current_pid>>
    BY <1>3, <1>24 DEF Wait, At, schedVars, sched_force_yield
  <2>2. CASE todo' = [todo EXCEPT ![current_pid] = Tail(c)] /\ intr' = intr
    BY <1>19, <2>1, <2>2
  <2>3. CASE todo' = todo /\ intr' = TRUE
    <3>1. Safe(c, h, f \cup {"on"})
      BY <1>3, <2>1 DEF Leads
    <3>2. f2 = f \cup {"on"}
      BY <1>3, <1>8, <2>1, <2>3
    <3>3. todo' = [todo EXCEPT ![current_pid] = c]
      BY <1>1, <1>2, <2>3 DEF c
    <3> QED  BY <1>7, <2>1, <2>3, <3>1, <3>2, <3>3
  <2> QED  BY <2>1, <2>2, <2>3
<1> QED
  BY <1>10, <1>11, <1>12, <1>13, <1>14, <1>15, <1>16, <1>17, <1>18, <1>20, <1>21, <1>22, <1>23, <1>24
  DEF Task


LEMMA KernelNextInv == KernelInv /\ [Next]_vars => KernelInv'
<1> SUFFICES ASSUME KernelInv, [Next]_vars
             PROVE  KernelInv'
  OBVIOUS
<1>1. SchedInv'
  BY KernelNextSched, SchedNextInv DEF KernelInv
<1>2. CASE UNCHANGED vars
  <2>1. UNCHANGED <<length, current_pid, intr, locks, todo, isr, scanning>>
    BY <1>2 DEF vars, schedVars
  <2>2. \A p : Held(p)' = Held(p) /\ Flags(p)' = Flags(p)
    BY <2>1 DEF Held, Flags
  <2>3. KernelTypes' /\ CodeInv' /\ HandlerInv' /\ SearchInv'
    BY <2>1, <2>2 DEF KernelInv, KernelTypes, CodeInv, HandlerInv, SearchInv, ScanExclusive, Pid
  <2> QED  BY <1>1, <2>3 DEF KernelInv
<1>3. CASE Tick \/ Handler
  BY <1>1, <1>3, HandlerInvNext
<1>4. ASSUME NEW p \in Pid, Task(p)  PROVE KernelInv'
  BY <1>1, <1>4, TaskInvNext
<1> QED  BY <1>2, <1>3, <1>4 DEF Next

\* The invariant holds of every behaviour, whenever the timer may fire.
THEOREM KernelInvariance == Spec => []KernelInv
BY KernelInitInv, KernelNextInv, PTL DEF Spec

\* No two contexts are ever between a search of pmm_alloc and the mark that
\* follows it, although the search takes no lock: wherever the timer fires,
\* a task that it cuts there holds the lock of the virtual memory manager,
\* which the handler spins on before it lets another task run, or it is the
\* boot task, alone in the queue, or interrupts are off.
THEOREM KernelScansAlone == Spec => []ScanExclusive
<1>1. KernelInv => ScanExclusive
  BY DEF KernelInv, SearchInv
<1> QED  BY <1>1, KernelInvariance, PTL

\* No context takes a lock that comes before one it holds, whichever way its
\* branches go and whatever an interrupt finds held: no two contexts wait for
\* each other's locks, and none waits for its own.
THEOREM KernelLockOrder == Spec => []LockOrder
<1>1. ASSUME KernelInv, At("lock"), NEW l \in Held(Context)
      PROVE  Rank[l] < Rank[Head(Code).arg]
  <2>1. CASE isr = <<>>
    <3> DEFINE c == todo[current_pid]
               h == Held(current_pid)
               f == Flags(current_pid)
    <3>1. Allowed(c, h, f) /\ Code = c /\ Context = current_pid
      BY <1>1, <2>1, CurrentCode
    <3> QED  BY <1>1, <3>1 DEF At, Allowed, Below
  <2>2. CASE isr # <<>>
    <3>1. Code = isr /\ Context = Isr /\ Head(isr).op = "lock"
      BY <1>1, <2>2 DEF At, Code, Context
    <3>2. \/ isr = HandlerLock /\ Held(Isr) = {}
          \/ isr \in {CtxLock, VmmLock} /\ Held(Isr) = {"scheduler"}
      BY <1>1, <2>2, <3>1, HandlerOps DEF KernelInv, HandlerInv
    <3> QED  BY <1>1, <3>1, <3>2, HandlerOps, Ranks
  <2> QED  BY <2>1, <2>2
<1>2. KernelInv => LockOrder
  BY <1>1 DEF LockOrder
<1> QED  BY <1>2, KernelInvariance, PTL
=============================================================================
