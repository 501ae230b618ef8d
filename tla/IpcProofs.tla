----------------------------- MODULE IpcProofs -----------------------------
(***************************************************************************)
(* What is proved of message passing when no timer interrupt cuts an       *)
(* update of the vector, for any number of senders and of messages: no     *)
(* write leaves the vector's live buffer, and the vector, grown by realloc *)
(* and taken apart into its accesses to memory, implements the mailbox.    *)
(***************************************************************************)
EXTENDS Ipc, SequenceTheorems, FiniteSetTheorems, TLAPS

Slot == Message \cup {Junk}
Buffer == [slots : Seq(Slot), live : BOOLEAN]

\* The steps of vec_push in which a sender has asked realloc for a buffer.
Growing == {"malloc", "copy", "free", "data"}
Pushing == {"expand", "load", "store", "slot", "length", "capacity"} \cup Growing
Popping == {"popped", "length", "data", "copy"}

ControlTypeOK ==
    /\ pc \in [Task -> {"user", "test", "dead"} \cup Pushing \cup Popping]
    /\ \A s \in Sender : pc[s] \in {"user"} \cup Pushing
    /\ pc[Receiver] \in {"user", "test", "dead"} \cup Popping
    /\ open \in [Task -> BOOLEAN]

MemoryTypeOK ==
    /\ heap \in Seq(Buffer)
    /\ data \in 0 .. Len(heap)
    /\ length \in Nat /\ capacity \in Nat

LocalsTypeOK ==
    /\ sent \in [Sender -> 0 .. Count]
    /\ old \in [Sender -> Nat] /\ new \in [Sender -> Nat] /\ idx \in [Sender -> Nat]
    /\ ridx \in Nat /\ rdata \in Nat
    /\ state \in {"RUNNING", "DEAD", "REAPED"}

IpcTypeOK == ControlTypeOK /\ MemoryTypeOK /\ LocalsTypeOK

\* At most one task is inside a system call that has to be left alone.
Busy(t) == ~Idle(t) \/ ~open[t]
OneAtATime == \A t, u \in Task : Busy(t) /\ Busy(u) => t = u

\* capacity is the number of slots of the buffer.
Fitting ==
    /\ data = NULL => capacity = 0
    /\ data # NULL => capacity = Len(heap[data].slots)

VectorInv ==
    /\ length <= capacity
    /\ (\A s \in Sender : pc[s] # "capacity") => Fitting
    /\ (\A s \in Sender : pc[s] # "data") /\ data # NULL /\ state # "REAPED" => heap[data].live

\* What a sender knows at each step of vec_push.
PushInv(s) ==
    /\ pc[s] # "user" => state = "RUNNING" /\ sent[s] < Count
    /\ pc[s] \in Growing => old[s] = data /\ idx[s] > length /\ idx[s] >= capacity
    /\ pc[s] \in Growing \ {"malloc"} =>
          /\ new[s] \in 1 .. Len(heap) /\ new[s] # data
          /\ heap[new[s]].live
          /\ Len(heap[new[s]].slots) = idx[s]
    /\ pc[s] \in {"free", "data"} =>
          \A k \in 1 .. length : heap[new[s]].slots[k] = heap[data].slots[k]
    /\ pc[s] = "capacity" =>
          data # NULL /\ idx[s] = Len(heap[data].slots) /\ idx[s] > length /\ idx[s] >= capacity
    /\ pc[s] \in {"load", "store", "length"} => data # NULL /\ length < capacity
    /\ pc[s] \in {"store", "length"} => idx[s] = length
    /\ pc[s] = "length" => heap[data].slots[idx[s] + 1] = <<s, sent[s] + 1>>
    /\ pc[s] = "slot" => data # NULL /\ length = idx[s] + 1

\* What the receiver knows at each step of vec_pop.
PopInv ==
    /\ pc[Receiver] = "dead" <=> state # "RUNNING"
    /\ pc[Receiver] \in Popping => data # NULL
    /\ pc[Receiver] \in {"popped", "data"} => length = ridx + 1
    /\ pc[Receiver] \in {"length", "copy"} => length = ridx /\ length < capacity
    /\ pc[Receiver] \in {"data", "copy"} => rdata = data

IpcInv ==
    /\ IpcTypeOK /\ OneAtATime /\ VectorInv
    /\ \A s \in Sender : PushInv(s)
    /\ PopInv
    /\ ~fault

-----------------------------------------------------------------------------
LEMMA IpcInitInv == Init => IpcInv
<1> SUFFICES ASSUME Init
             PROVE  IpcInv
  OBVIOUS
<1> USE IpcAssumption DEF Init, Task, Receiver, NULL
<1>1. heap = <<>> /\ heap \in Seq(Buffer) /\ Len(heap) = 0
  OBVIOUS
<1>2. \A t \in Task : pc[t] = "user" /\ open[t]
  OBVIOUS
<1>3. IpcTypeOK
  BY <1>1, <1>2 DEF IpcTypeOK, ControlTypeOK, MemoryTypeOK, LocalsTypeOK
<1>4. OneAtATime
  BY <1>2 DEF OneAtATime, Busy, Idle
<1>5. VectorInv
  BY <1>2 DEF VectorInv, Fitting
<1>6. \A s \in Sender : PushInv(s)
  BY <1>2 DEF PushInv, Growing
<1>7. PopInv
  BY <1>2 DEF PopInv, Popping
<1> QED  BY <1>3, <1>4, <1>5, <1>6, <1>7 DEF IpcInv

\* While a task runs, no other is inside an update.
LEMMA Alone ==
    ASSUME IpcInv, ~Races, NEW t \in Task, CanRun(t)
    PROVE  \A u \in Task \ {t} : ~Busy(u)
BY DEF CanRun, Busy

\* A step of a sender concerns what it shares with the others and itself.
LEMMA SenderFrame ==
    ASSUME IpcInv, ~Races, NEW s \in Sender, NEW from, NEW to \in {"user"} \cup Pushing,
           Step(s, from, to),
           \/ UNCHANGED open
           \/ IntrOn(s)
           \/ IntrOff(s),
           UNCHANGED <<ridx, rdata, state>>,
           MemoryTypeOK', LocalsTypeOK',
           VectorInv', PushInv(s)', ~fault'
    PROVE  IpcInv'
<1> USE IpcAssumption
<1>1. s \in Task /\ Receiver \in Task /\ s # Receiver /\ Sender \subseteq Task
  BY DEF Task, Receiver
<1>2. IpcTypeOK /\ CanRun(s) /\ pc[s] = from /\ pc' = [pc EXCEPT ![s] = to]
  BY DEF IpcInv, Step
<1>3. \A u \in Task \ {s} : ~Busy(u)
  BY <1>1, <1>2, Alone
<1>4. /\ open' \in [Task -> BOOLEAN]
      /\ \A u \in Task \ {s} : open'[u] = open[u]
  BY <1>1, <1>2 DEF IpcTypeOK, ControlTypeOK, IntrOn, IntrOff
<1>5. pc'[s] = to /\ \A u \in Task \ {s} : pc'[u] = pc[u]
  BY <1>1, <1>2 DEF IpcTypeOK, ControlTypeOK
<1>6. ControlTypeOK'
  BY <1>1, <1>2, <1>4, <1>5 DEF IpcTypeOK, ControlTypeOK
<1>7. OneAtATime'
  BY <1>3, <1>4, <1>5 DEF OneAtATime, Busy, Idle
<1>8. ASSUME NEW u \in Sender, u # s
      PROVE  PushInv(u)'
  <2>1. pc[u] = "user"
    BY <1>1, <1>2, <1>3, <1>8 DEF Busy, Idle, IpcTypeOK, ControlTypeOK, Pushing, Growing
  <2>2. pc'[u] = "user"
    BY <1>1, <1>5, <1>8, <2>1
  <2> QED  BY <2>2 DEF PushInv, Growing
<1>9. PopInv'
  <2>1. pc[Receiver] \in {"user", "test", "dead"}
    BY <1>1, <1>3 DEF Busy, Idle
  <2>2. pc'[Receiver] = pc[Receiver]
    BY <1>1, <1>5
  <2> QED  BY <2>1, <2>2 DEF IpcInv, PopInv, Popping
<1> QED  BY <1>6, <1>7, <1>8, <1>9 DEF IpcInv, IpcTypeOK

\* What holds when a sender runs.
LEMMA SenderFacts ==
    ASSUME IpcInv, ~Races, NEW s \in Sender, NEW from, NEW to, Step(s, from, to)
    PROVE  /\ pc[s] = from /\ pc'[s] = to
           /\ \A u \in Sender \ {s} : pc[u] = "user" /\ pc'[u] = "user"
           /\ MemoryTypeOK /\ LocalsTypeOK /\ VectorInv /\ PushInv(s) /\ ~fault
<1> USE IpcAssumption
<1>1. s \in Task /\ Sender \subseteq Task
  BY DEF Task
<1>2. IpcTypeOK /\ CanRun(s) /\ pc[s] = from /\ pc' = [pc EXCEPT ![s] = to]
  BY DEF IpcInv, Step
<1>3. \A u \in Task \ {s} : ~Busy(u)
  BY <1>1, <1>2, Alone
<1>4. pc'[s] = to /\ \A u \in Task \ {s} : pc'[u] = pc[u]
  BY <1>1, <1>2 DEF IpcTypeOK, ControlTypeOK
<1>5. ASSUME NEW u \in Sender, u # s
      PROVE  pc[u] = "user" /\ pc'[u] = "user"
  BY <1>1, <1>2, <1>3, <1>4, <1>5 DEF Busy, Idle, IpcTypeOK, ControlTypeOK, Pushing, Growing
<1> QED  BY <1>2, <1>4, <1>5 DEF IpcInv, IpcTypeOK

-----------------------------------------------------------------------------
LEMMA SendCallInv ==
    ASSUME IpcInv, ~Races, NEW s \in Sender, SendCall(s)
    PROVE  IpcInv'
<1>1. PICK to \in {"user", "expand"} :
          /\ Step(s, "user", to)
          /\ to = "expand" => state = "RUNNING" /\ UNCHANGED sent
          /\ UNCHANGED open \/ IntrOff(s)
          /\ sent' = sent \/ sent' = [sent EXCEPT ![s] = @ + 1]
  BY DEF SendCall
<1>2. /\ sent[s] < Count
      /\ UNCHANGED <<vector, heap, old, new, idx, receiver, state, fault>>
  BY DEF SendCall
<1>3. /\ pc[s] = "user" /\ pc'[s] = to
      /\ \A u \in Sender \ {s} : pc[u] = "user" /\ pc'[u] = "user"
      /\ MemoryTypeOK /\ LocalsTypeOK /\ VectorInv /\ PushInv(s) /\ ~fault
  BY <1>1, SenderFacts
<1> USE IpcAssumption DEF vector, receiver
<1>4. MemoryTypeOK' /\ LocalsTypeOK'
  BY <1>1, <1>2, <1>3 DEF MemoryTypeOK, LocalsTypeOK
<1>5. VectorInv'
  BY <1>1, <1>2, <1>3 DEF VectorInv, Fitting
<1>6. PushInv(s)'
  BY <1>1, <1>2, <1>3 DEF PushInv, Growing
<1>7. to \in {"user"} \cup Pushing /\ UNCHANGED <<ridx, rdata, state>> /\ ~fault'
  BY <1>1, <1>2, <1>3 DEF Pushing
<1> QED  BY <1>1, <1>4, <1>5, <1>6, <1>7, SenderFrame

LEMMA FitsInv ==
    ASSUME IpcInv, ~Races, NEW s \in Sender, Fits(s)
    PROVE  IpcInv'
<1>1. /\ Step(s, "expand", "load")
      /\ length + 1 <= capacity
      /\ UNCHANGED <<vector, heap, open, sender, receiver, state, fault>>
  BY DEF Fits
<1>2. /\ pc[s] = "expand" /\ pc'[s] = "load"
      /\ \A u \in Sender \ {s} : pc[u] = "user" /\ pc'[u] = "user"
      /\ MemoryTypeOK /\ LocalsTypeOK /\ VectorInv /\ PushInv(s) /\ ~fault
  BY <1>1, SenderFacts
<1> USE IpcAssumption DEF vector, sender, receiver
<1>3. MemoryTypeOK' /\ LocalsTypeOK'
  BY <1>1, <1>2 DEF MemoryTypeOK, LocalsTypeOK
<1>4. VectorInv'
  BY <1>1, <1>2 DEF VectorInv, Fitting
<1>5. PushInv(s)'
  BY <1>1, <1>2 DEF PushInv, Growing, VectorInv, Fitting, MemoryTypeOK
<1> QED  BY <1>1, <1>2, <1>3, <1>4, <1>5, SenderFrame DEF Pushing

LEMMA GrowInv ==
    ASSUME IpcInv, ~Races, NEW s \in Sender, Grow(s)
    PROVE  IpcInv'
<1>1. PICK to : Step(s, "expand", to)
  BY DEF Grow
<1>2. /\ pc[s] = "expand" /\ pc'[s] = to
      /\ \A u \in Sender \ {s} : pc[u] = "user" /\ pc'[u] = "user"
      /\ MemoryTypeOK /\ LocalsTypeOK /\ VectorInv /\ PushInv(s) /\ ~fault
  BY <1>1, SenderFacts
<1>3. data = NULL \/ Live(data)
  BY <1>2 DEF VectorInv, PushInv, Live
<1>4. /\ Step(s, "expand", "malloc")
      /\ UNCHANGED open \/ IntrOn(s)
      /\ old' = [old EXCEPT ![s] = data]
      /\ idx' = [idx EXCEPT ![s] = IF capacity = 0 THEN 1 ELSE capacity * 2]
      /\ length + 1 > capacity
      /\ UNCHANGED <<vector, heap, sent, new, receiver, state, fault>>
  BY <1>3 DEF Grow
<1>5. pc'[s] = "malloc"
  BY <1>4, SenderFacts
<1> USE IpcAssumption DEF vector, receiver
<1>6. MemoryTypeOK'
  BY <1>2, <1>4 DEF MemoryTypeOK
<1>7. LocalsTypeOK'
  BY <1>2, <1>4 DEF MemoryTypeOK, LocalsTypeOK
<1>8. VectorInv'
  BY <1>2, <1>4, <1>5 DEF VectorInv, Fitting
<1>9. PushInv(s)'
  BY SMTT(30), <1>2, <1>4, <1>5 DEF PushInv, Growing, VectorInv, MemoryTypeOK, LocalsTypeOK
<1>10. "malloc" \in {"user"} \cup Pushing /\ UNCHANGED <<ridx, rdata, state>> /\ ~fault'
  BY <1>2, <1>4 DEF Pushing, Growing
<1> QED  BY <1>4, <1>6, <1>7, <1>8, <1>9, <1>10, SenderFrame

LEMMA MallocInv ==
    ASSUME IpcInv, ~Races, NEW s \in Sender, Malloc(s)
    PROVE  IpcInv'
<1> DEFINE fresh == [slots |-> [k \in 1 .. idx[s] |-> Junk], live |-> TRUE]
<1>1. /\ Step(s, "malloc", "copy")
      /\ IntrOn(s)
      /\ heap' = Append(heap, fresh)
      /\ new' = [new EXCEPT ![s] = Len(heap) + 1]
      /\ UNCHANGED <<vector, sent, old, idx, receiver, state, fault>>
  BY DEF Malloc
<1>2. /\ pc[s] = "malloc" /\ pc'[s] = "copy"
      /\ \A u \in Sender \ {s} : pc[u] = "user" /\ pc'[u] = "user"
      /\ MemoryTypeOK /\ LocalsTypeOK /\ VectorInv /\ PushInv(s) /\ ~fault
  BY <1>1, SenderFacts
<1> USE IpcAssumption DEF vector, receiver
<1>3. idx[s] \in Nat
  BY <1>2 DEF LocalsTypeOK
<1>4. fresh \in Buffer /\ Len(fresh.slots) = idx[s] /\ fresh.live
  <2>1. [k \in 1 .. idx[s] |-> Junk] \in Seq(Slot) /\ Len([k \in 1 .. idx[s] |-> Junk]) = idx[s]
    BY <1>3 DEF Slot
  <2> QED  BY <2>1 DEF Buffer
<1> HIDE DEF fresh
<1>5. /\ heap' \in Seq(Buffer) /\ Len(heap') = Len(heap) + 1 /\ Len(heap) \in Nat
      /\ \A b \in 1 .. Len(heap) : heap'[b] = heap[b]
      /\ heap'[Len(heap) + 1] = fresh
  BY <1>1, <1>2, <1>4, AppendProperties DEF MemoryTypeOK
<1>6. MemoryTypeOK'
  BY <1>1, <1>2, <1>5 DEF MemoryTypeOK
<1>7. LocalsTypeOK'
  BY <1>1, <1>2, <1>5 DEF LocalsTypeOK
<1>8. VectorInv'
  BY <1>1, <1>2, <1>5 DEF VectorInv, Fitting, MemoryTypeOK, NULL
<1>9. PushInv(s)'
  BY <1>1, <1>2, <1>4, <1>5 DEF PushInv, Growing, MemoryTypeOK, LocalsTypeOK
<1>10. "copy" \in {"user"} \cup Pushing /\ UNCHANGED <<ridx, rdata, state>> /\ ~fault'
  BY <1>1, <1>2 DEF Pushing, Growing
<1> QED  BY <1>1, <1>6, <1>7, <1>8, <1>9, <1>10, SenderFrame

LEMMA FunctionIsSeq ==
    ASSUME NEW S, NEW n \in Nat, NEW f \in [1 .. n -> S]
    PROVE  f \in Seq(S) /\ Len(f) = n
OBVIOUS

\* free() clears the flag of one buffer.
LEMMA FreedBuffer ==
    ASSUME MemoryTypeOK, NEW b \in 0 .. Len(heap), NEW g, g = Freed(b)
    PROVE  /\ g \in Seq(Buffer) /\ Len(g) = Len(heap)
           /\ \A c \in 1 .. Len(heap) : g[c].slots = heap[c].slots
           /\ \A c \in 1 .. Len(heap) : c # b => g[c] = heap[c]
<1>1. CASE b = NULL
  BY <1>1 DEF Freed, MemoryTypeOK
<1>2. CASE b # NULL
  <2> DEFINE e == [heap[b] EXCEPT !.live = FALSE]
  <2>1. heap \in Seq(Buffer) /\ b \in 1 .. Len(heap)
    BY <1>2 DEF MemoryTypeOK, NULL
  <2>2. heap[b] \in Buffer
    BY <2>1, ElementOfSeq
  <2>3. e \in Buffer /\ e.slots = heap[b].slots
    BY <2>2 DEF Buffer
  <2>4. g = [heap EXCEPT ![b] = e]
    BY <1>2 DEF Freed
  <2> HIDE DEF e
  <2>5. /\ g \in Seq(Buffer) /\ Len(g) = Len(heap)
        /\ \A c \in 1 .. Len(heap) : g[c] = IF c = b THEN e ELSE heap[c]
    BY <2>1, <2>3, <2>4, ExceptSeq
  <2> QED  BY <2>3, <2>5
<1> QED  BY <1>1, <1>2

\* realloc copies what the old buffer holds, and touches the new one only.
LEMMA CopyFacts ==
    ASSUME IpcInv, ~Races, NEW s \in Sender, Copy(s)
    PROVE  /\ old[s] = data /\ new[s] # data
           /\ new[s] \in 1 .. Len(heap)
           /\ heap' \in Seq(Buffer) /\ Len(heap') = Len(heap)
           /\ \A c \in 1 .. Len(heap) :
                 heap'[c].live = heap[c].live /\ Len(heap'[c].slots) = Len(heap[c].slots)
           /\ \A c \in 1 .. Len(heap) : c # new[s] => heap'[c] = heap[c]
           /\ \A k \in 1 .. length : heap'[new[s]].slots[k] = heap'[data].slots[k]
<1>1. /\ Step(s, "copy", "free")
      /\ UNCHANGED <<vector, open, sender, receiver, state, fault>>
  BY DEF Copy
<1>2. /\ pc[s] = "copy" /\ pc'[s] = "free"
      /\ \A u \in Sender \ {s} : pc[u] = "user" /\ pc'[u] = "user"
      /\ MemoryTypeOK /\ LocalsTypeOK /\ VectorInv /\ PushInv(s) /\ ~fault
  BY <1>1, SenderFacts
<1> USE IpcAssumption DEF vector, sender, receiver
<1>3. /\ heap \in Seq(Buffer) /\ data \in 0 .. Len(heap) /\ length \in Nat /\ capacity \in Nat
      /\ old[s] = data /\ idx[s] > length /\ idx[s] >= capacity /\ idx[s] \in Nat
      /\ new[s] \in 1 .. Len(heap) /\ new[s] # data /\ heap[new[s]].live
      /\ Len(heap[new[s]].slots) = idx[s]
      /\ length <= capacity
      /\ data = NULL => capacity = 0
      /\ data # NULL => capacity = Len(heap[data].slots)
  BY <1>2 DEF PushInv, Growing, VectorInv, Fitting, MemoryTypeOK, LocalsTypeOK
<1>4. /\ heap' \in Seq(Buffer) /\ Len(heap') = Len(heap)
      /\ \A c \in 1 .. Len(heap) :
            heap'[c].live = heap[c].live /\ Len(heap'[c].slots) = Len(heap[c].slots)
      /\ \A c \in 1 .. Len(heap) : c # new[s] => heap'[c] = heap[c]
      /\ \A k \in 1 .. length : heap'[new[s]].slots[k] = heap'[data].slots[k]
  <2>1. CASE data = NULL
    BY <1>3, <2>1 DEF Copy
  <2>2. CASE data # NULL
    <3> DEFINE to == heap[new[s]].slots
               from == heap[data].slots
               q == [k \in DOMAIN to |-> IF k \in DOMAIN from THEN from[k] ELSE to[k]]
    <3>1. to \in Seq(Slot) /\ from \in Seq(Slot)
      <4>1. heap[new[s]] \in Buffer
        BY <1>3, ElementOfSeq
      <4>2. data \in 1 .. Len(heap)
        BY <1>3, <2>2 DEF NULL
      <4>3. heap[data] \in Buffer
        BY <1>3, <4>2, ElementOfSeq
      <4> QED  BY <4>1, <4>3 DEF Buffer
    <3>2. DOMAIN to = 1 .. idx[s] /\ DOMAIN from = 1 .. capacity
      BY <1>3, <2>2, <3>1, LenProperties
    <3> DEFINE e == [heap[new[s]] EXCEPT !.slots = q]
    <3>3. heap' = [heap EXCEPT ![new[s]] = e]
      BY <1>3, <2>2 DEF Copy
    <3>4. q \in [1 .. idx[s] -> Slot]
      BY <1>3, <3>1, <3>2, ElementOfSeq
    <3>5. \A k \in 1 .. length : q[k] = from[k]
      BY <1>3, <3>2
    <3> HIDE DEF q, from, to
    <3>6. q \in Seq(Slot) /\ Len(q) = idx[s]
      BY <1>3, <3>4, FunctionIsSeq
    <3>7. e \in Buffer /\ e.slots = q /\ e.live = heap[new[s]].live
      <4>1. heap[new[s]] \in [slots : Seq(Slot), live : BOOLEAN]
        BY <1>3, ElementOfSeq DEF Buffer
      <4> QED  BY ONLY <3>6, <4>1 DEF e, Buffer
    <3> HIDE DEF e
    <3>8. /\ heap' \in Seq(Buffer) /\ Len(heap') = Len(heap)
          /\ \A c \in 1 .. Len(heap) : heap'[c] = IF c = new[s] THEN e ELSE heap[c]
      BY <1>3, <3>3, <3>7, ExceptSeq
    <3>9. heap'[new[s]] = e /\ data \in 1 .. Len(heap) /\ heap'[data] = heap[data]
      BY <1>3, <2>2, <3>8 DEF NULL
    <3>10. \A k \in 1 .. length : heap'[new[s]].slots[k] = heap'[data].slots[k]
      BY ONLY <3>5, <3>7, <3>9 DEF from
    <3>11. Len(e.slots) = Len(heap[new[s]].slots)
      BY <1>3, <3>6, <3>7
    <3> QED  BY ONLY <3>7, <3>8, <3>10, <3>11
  <2> QED  BY <2>1, <2>2
<1> QED  BY <1>3, <1>4

LEMMA CopyInv ==
    ASSUME IpcInv, ~Races, NEW s \in Sender, Copy(s)
    PROVE  IpcInv'
<1>1. /\ Step(s, "copy", "free")
      /\ UNCHANGED <<vector, open, sender, receiver, state, fault>>
  BY DEF Copy
<1>2. /\ pc[s] = "copy" /\ pc'[s] = "free"
      /\ \A u \in Sender \ {s} : pc[u] = "user" /\ pc'[u] = "user"
      /\ MemoryTypeOK /\ LocalsTypeOK /\ VectorInv /\ PushInv(s) /\ ~fault
  BY <1>1, SenderFacts
<1> USE IpcAssumption DEF vector, sender, receiver
<1>3. /\ old[s] = data /\ new[s] # data /\ new[s] \in 1 .. Len(heap)
      /\ data = NULL => capacity = 0
      /\ data # NULL => capacity = Len(heap[data].slots)
  BY <1>2, CopyFacts DEF VectorInv, Fitting
<1>4. /\ heap' \in Seq(Buffer) /\ Len(heap') = Len(heap)
      /\ \A c \in 1 .. Len(heap) :
            heap'[c].live = heap[c].live /\ Len(heap'[c].slots) = Len(heap[c].slots)
      /\ \A k \in 1 .. length : heap'[new[s]].slots[k] = heap'[data].slots[k]
  BY CopyFacts
<1>5. MemoryTypeOK' /\ LocalsTypeOK'
  BY <1>1, <1>2, <1>4 DEF MemoryTypeOK, LocalsTypeOK
<1>6. VectorInv'
  <2>1. /\ data' = data /\ length' = length /\ capacity' = capacity /\ state' = state
        /\ length <= capacity
        /\ data \in 0 .. Len(heap)
    BY <1>1, <1>2 DEF VectorInv, MemoryTypeOK
  <2>2. \A u \in Sender : pc[u] # "capacity" /\ pc[u] # "data"
    BY <1>2
  <2>3. data # NULL /\ state # "REAPED" => heap[data].live
    BY <1>2, <2>2 DEF VectorInv
  <2>4. data # NULL => /\ heap'[data].live = heap[data].live
                       /\ Len(heap'[data].slots) = Len(heap[data].slots)
    BY <1>4, <2>1 DEF NULL
  <2> QED  BY <1>3, <2>1, <2>3, <2>4 DEF VectorInv, Fitting
<1>7. PushInv(s)'
  BY <1>1, <1>2, <1>3, <1>4 DEF PushInv, Growing
<1>8. "free" \in {"user"} \cup Pushing /\ UNCHANGED <<ridx, rdata, state>> /\ ~fault'
  BY <1>1, <1>2 DEF Pushing, Growing
<1> QED  BY <1>1, <1>5, <1>6, <1>7, <1>8, SenderFrame

LEMMA FreeOldInv ==
    ASSUME IpcInv, ~Races, NEW s \in Sender, FreeOld(s)
    PROVE  IpcInv'
<1>1. /\ Step(s, "free", "data")
      /\ heap' = Freed(old[s])
      /\ UNCHANGED <<vector, open, sender, receiver, state, fault>>
  BY DEF FreeOld
<1>2. /\ pc[s] = "free" /\ pc'[s] = "data"
      /\ \A u \in Sender \ {s} : pc[u] = "user" /\ pc'[u] = "user"
      /\ MemoryTypeOK /\ LocalsTypeOK /\ VectorInv /\ PushInv(s) /\ ~fault
  BY <1>1, SenderFacts
<1> USE IpcAssumption DEF vector, sender, receiver
<1>3. /\ data \in 0 .. Len(heap) /\ old[s] = data
      /\ new[s] \in 1 .. Len(heap) /\ new[s] # data
  BY <1>2 DEF PushInv, Growing, MemoryTypeOK
<1>4. /\ heap' \in Seq(Buffer) /\ Len(heap') = Len(heap)
      /\ \A c \in 1 .. Len(heap) : heap'[c].slots = heap[c].slots
      /\ heap'[new[s]] = heap[new[s]]
  BY <1>1, <1>2, <1>3, FreedBuffer
<1>5. MemoryTypeOK' /\ LocalsTypeOK'
  BY <1>1, <1>2, <1>4 DEF MemoryTypeOK, LocalsTypeOK
<1>6. VectorInv'
  BY <1>1, <1>2, <1>3, <1>4 DEF VectorInv, Fitting, NULL
<1>7. PushInv(s)'
  BY SMTT(30), <1>1, <1>2, <1>3, <1>4 DEF PushInv, Growing, VectorInv, Fitting, MemoryTypeOK, NULL
<1>8. "data" \in {"user"} \cup Pushing /\ UNCHANGED <<ridx, rdata, state>> /\ ~fault'
  BY <1>1, <1>2 DEF Pushing, Growing
<1> QED  BY <1>1, <1>5, <1>6, <1>7, <1>8, SenderFrame

LEMMA SetDataInv ==
    ASSUME IpcInv, ~Races, NEW s \in Sender, SetData(s)
    PROVE  IpcInv'
<1>1. /\ Step(s, "data", "capacity")
      /\ data' = new[s]
      /\ UNCHANGED <<length, capacity, heap, open, sender, receiver, state, fault>>
  BY DEF SetData
<1>2. /\ pc[s] = "data" /\ pc'[s] = "capacity"
      /\ \A u \in Sender \ {s} : pc[u] = "user" /\ pc'[u] = "user"
      /\ MemoryTypeOK /\ LocalsTypeOK /\ VectorInv /\ PushInv(s) /\ ~fault
  BY <1>1, SenderFacts
<1> USE IpcAssumption DEF sender, receiver
<1>3. MemoryTypeOK' /\ LocalsTypeOK'
  BY <1>1, <1>2 DEF MemoryTypeOK, LocalsTypeOK, PushInv, Growing
<1>4. VectorInv'
  BY <1>1, <1>2 DEF VectorInv, PushInv, Growing
<1>5. PushInv(s)'
  BY <1>1, <1>2 DEF PushInv, Growing, MemoryTypeOK, NULL
<1>6. "capacity" \in {"user"} \cup Pushing /\ UNCHANGED <<ridx, rdata, state>> /\ ~fault'
  BY <1>1, <1>2 DEF Pushing
<1> QED  BY <1>1, <1>3, <1>4, <1>5, <1>6, SenderFrame

LEMMA SetCapacityInv ==
    ASSUME IpcInv, ~Races, NEW s \in Sender, SetCapacity(s)
    PROVE  IpcInv'
<1>1. /\ Step(s, "capacity", "load")
      /\ capacity' = idx[s]
      /\ UNCHANGED <<data, length, heap, open, sender, receiver, state, fault>>
  BY DEF SetCapacity
<1>2. /\ pc[s] = "capacity" /\ pc'[s] = "load"
      /\ \A u \in Sender \ {s} : pc[u] = "user" /\ pc'[u] = "user"
      /\ MemoryTypeOK /\ LocalsTypeOK /\ VectorInv /\ PushInv(s) /\ ~fault
  BY <1>1, SenderFacts
<1> USE IpcAssumption DEF sender, receiver
<1>3. MemoryTypeOK' /\ LocalsTypeOK'
  BY <1>1, <1>2 DEF MemoryTypeOK, LocalsTypeOK
<1>4. /\ data # NULL /\ idx[s] = Len(heap[data].slots) /\ idx[s] > length
      /\ idx[s] \in Nat /\ length \in Nat
  BY <1>2 DEF PushInv, MemoryTypeOK, LocalsTypeOK
<1>5. heap[data].live
  BY <1>2, <1>4 DEF VectorInv, PushInv
<1>6. VectorInv'
  BY <1>1, <1>2, <1>4, <1>5 DEF VectorInv, Fitting
<1>7. PushInv(s)'
  BY <1>1, <1>2 DEF PushInv, Growing
<1>8. "load" \in {"user"} \cup Pushing /\ UNCHANGED <<ridx, rdata, state>> /\ ~fault'
  BY <1>1, <1>2 DEF Pushing
<1> QED  BY <1>1, <1>3, <1>6, <1>7, <1>8, SenderFrame

LEMMA LoadInv ==
    ASSUME IpcInv, ~Races, NEW s \in Sender, Load(s)
    PROVE  IpcInv'
<1>1. /\ Step(s, "load", "store")
      /\ idx' = [idx EXCEPT ![s] = length]
      /\ UNCHANGED <<vector, heap, open, sent, old, new, receiver, state, fault>>
  BY DEF Load
<1>2. /\ pc[s] = "load" /\ pc'[s] = "store"
      /\ \A u \in Sender \ {s} : pc[u] = "user" /\ pc'[u] = "user"
      /\ MemoryTypeOK /\ LocalsTypeOK /\ VectorInv /\ PushInv(s) /\ ~fault
  BY <1>1, SenderFacts
<1> USE IpcAssumption DEF vector, receiver
<1>3. MemoryTypeOK' /\ LocalsTypeOK'
  BY <1>1, <1>2 DEF MemoryTypeOK, LocalsTypeOK
<1>4. VectorInv'
  BY <1>1, <1>2 DEF VectorInv, Fitting
<1>5. PushInv(s)'
  BY <1>1, <1>2 DEF PushInv, Growing, LocalsTypeOK
<1>6. "store" \in {"user"} \cup Pushing /\ UNCHANGED <<ridx, rdata, state>> /\ ~fault'
  BY <1>1, <1>2 DEF Pushing
<1> QED  BY <1>1, <1>3, <1>4, <1>5, <1>6, SenderFrame

\* A write to a slot that exists stays in the live buffer of the vector.
LEMMA WriteSlotFacts ==
    ASSUME MemoryTypeOK, LocalsTypeOK, NEW s \in Sender, WriteSlot(s), ~fault,
           data # NULL, heap[data].live, idx[s] < Len(heap[data].slots), sent[s] < Count
    PROVE  /\ ~fault'
           /\ heap' \in Seq(Buffer) /\ Len(heap') = Len(heap)
           /\ \A c \in 1 .. Len(heap) :
                 heap'[c].live = heap[c].live /\ Len(heap'[c].slots) = Len(heap[c].slots)
           /\ heap'[data].slots[idx[s] + 1] = <<s, sent[s] + 1>>
           /\ \A k \in 1 .. Len(heap[data].slots) :
                 k # idx[s] + 1 => heap'[data].slots[k] = heap[data].slots[k]
<1> USE IpcAssumption
<1>1. /\ heap \in Seq(Buffer) /\ data \in 1 .. Len(heap)
      /\ idx[s] \in Nat /\ sent[s] + 1 \in 1 .. Count
  BY DEF MemoryTypeOK, LocalsTypeOK, NULL
<1>2. heap[data] \in [slots : Seq(Slot), live : BOOLEAN]
  BY <1>1, ElementOfSeq DEF Buffer
<1> DEFINE m == <<s, sent[s] + 1>>
           from == heap[data].slots
           q == [from EXCEPT ![idx[s] + 1] = m]
           e == [heap[data] EXCEPT !.slots = q]
<1>3. Live(data)
  BY DEF Live
<1>4. heap' = [heap EXCEPT ![data] = e] /\ fault' = fault
  BY <1>3 DEF WriteSlot
<1>5. m \in Slot
  BY <1>1 DEF Slot, Message
<1>6. from \in Seq(Slot) /\ idx[s] + 1 \in 1 .. Len(from)
  BY <1>1, <1>2
<1> HIDE DEF m, from
<1>7. /\ q \in Seq(Slot) /\ Len(q) = Len(from)
      /\ \A k \in 1 .. Len(from) : q[k] = IF k = idx[s] + 1 THEN m ELSE from[k]
  BY <1>5, <1>6, ExceptSeq
<1> HIDE DEF q
<1>8. e \in Buffer /\ e.slots = q /\ e.live = heap[data].live
  BY ONLY <1>2, <1>7 DEF e, Buffer
<1> HIDE DEF e
<1>9. /\ heap' \in Seq(Buffer) /\ Len(heap') = Len(heap)
      /\ \A c \in 1 .. Len(heap) : heap'[c] = IF c = data THEN e ELSE heap[c]
  BY ONLY <1>1, <1>4, <1>8, ExceptSeq
<1>10. heap'[data].slots[idx[s] + 1] = m
  BY <1>1, <1>6, <1>7, <1>8, <1>9
<1>11. \A k \in 1 .. Len(from) : k # idx[s] + 1 => heap'[data].slots[k] = from[k]
  BY <1>1, <1>7, <1>8, <1>9
<1>12. \A c \in 1 .. Len(heap) :
          heap'[c].live = heap[c].live /\ Len(heap'[c].slots) = Len(heap[c].slots)
  BY <1>7, <1>8, <1>9 DEF from
<1> QED  BY <1>4, <1>9, <1>10, <1>11, <1>12 DEF m, from

LEMMA LengthFirstInv ==
    ASSUME IpcInv, ~Races, NEW s \in Sender, LengthFirst(s)
    PROVE  IpcInv'
<1>1. /\ Step(s, "store", "slot")
      /\ length' = idx[s] + 1
      /\ UNCHANGED <<data, capacity, heap, open, sender, receiver, state, fault>>
  BY DEF LengthFirst
<1>2. /\ pc[s] = "store" /\ pc'[s] = "slot"
      /\ \A u \in Sender \ {s} : pc[u] = "user" /\ pc'[u] = "user"
      /\ MemoryTypeOK /\ LocalsTypeOK /\ VectorInv /\ PushInv(s) /\ ~fault
  BY <1>1, SenderFacts
<1> USE IpcAssumption DEF sender, receiver
<1>3. MemoryTypeOK' /\ LocalsTypeOK'
  BY <1>1, <1>2 DEF MemoryTypeOK, LocalsTypeOK
<1>4. VectorInv'
  BY <1>1, <1>2 DEF VectorInv, Fitting, PushInv, MemoryTypeOK
<1>5. PushInv(s)'
  BY <1>1, <1>2 DEF PushInv, Growing
<1>6. "slot" \in {"user"} \cup Pushing /\ UNCHANGED <<ridx, rdata, state>> /\ ~fault'
  BY <1>1, <1>2 DEF Pushing
<1> QED  BY <1>1, <1>3, <1>4, <1>5, <1>6, SenderFrame

LEMMA SlotLastInv ==
    ASSUME IpcInv, ~Races, NEW s \in Sender, SlotLast(s)
    PROVE  IpcInv'
<1>1. /\ Step(s, "slot", "user")
      /\ WriteSlot(s)
      /\ IntrOn(s) /\ sent' = [sent EXCEPT ![s] = @ + 1]
      /\ UNCHANGED <<vector, old, new, idx, receiver, state>>
  BY DEF SlotLast, SendReturns
<1>2. /\ pc[s] = "slot" /\ pc'[s] = "user"
      /\ \A u \in Sender \ {s} : pc[u] = "user" /\ pc'[u] = "user"
      /\ MemoryTypeOK /\ LocalsTypeOK /\ VectorInv /\ PushInv(s) /\ ~fault
  BY <1>1, SenderFacts
<1>3. data # NULL /\ heap[data].live /\ idx[s] < Len(heap[data].slots) /\ sent[s] < Count
  <2>1. data # NULL /\ state = "RUNNING" /\ sent[s] < Count /\ idx[s] < capacity
    BY <1>2 DEF PushInv, VectorInv, MemoryTypeOK, LocalsTypeOK
  <2>2. \A u \in Sender : pc[u] # "data" /\ pc[u] # "capacity"
    BY <1>2
  <2> QED  BY <1>2, <2>1, <2>2 DEF VectorInv, Fitting
<1>4. /\ ~fault' /\ heap' \in Seq(Buffer) /\ Len(heap') = Len(heap)
      /\ \A c \in 1 .. Len(heap) :
            heap'[c].live = heap[c].live /\ Len(heap'[c].slots) = Len(heap[c].slots)
  BY <1>1, <1>2, <1>3, WriteSlotFacts
<1> USE IpcAssumption DEF vector, receiver
<1>5. MemoryTypeOK' /\ LocalsTypeOK'
  BY <1>1, <1>2, <1>3, <1>4 DEF MemoryTypeOK, LocalsTypeOK
<1>6. VectorInv'
  BY <1>1, <1>2, <1>4 DEF VectorInv, Fitting, MemoryTypeOK, NULL
<1>7. PushInv(s)'
  BY <1>2 DEF PushInv, Growing
<1> QED  BY <1>1, <1>4, <1>5, <1>6, <1>7, SenderFrame

LEMMA SlotFirstInv ==
    ASSUME IpcInv, ~Races, NEW s \in Sender, SlotFirst(s)
    PROVE  IpcInv'
<1>1. /\ Step(s, "store", "length")
      /\ WriteSlot(s)
      /\ UNCHANGED <<vector, open, sender, receiver, state>>
  BY DEF SlotFirst
<1>2. /\ pc[s] = "store" /\ pc'[s] = "length"
      /\ \A u \in Sender \ {s} : pc[u] = "user" /\ pc'[u] = "user"
      /\ MemoryTypeOK /\ LocalsTypeOK /\ VectorInv /\ PushInv(s) /\ ~fault
  BY <1>1, SenderFacts
<1>3. data # NULL /\ heap[data].live /\ idx[s] < Len(heap[data].slots) /\ sent[s] < Count
  <2>1. data # NULL /\ state = "RUNNING" /\ sent[s] < Count /\ idx[s] < capacity
    BY <1>2 DEF PushInv, VectorInv, MemoryTypeOK, LocalsTypeOK
  <2>2. \A u \in Sender : pc[u] # "data" /\ pc[u] # "capacity"
    BY <1>2
  <2> QED  BY <1>2, <2>1, <2>2 DEF VectorInv, Fitting
<1>4. /\ ~fault' /\ heap' \in Seq(Buffer) /\ Len(heap') = Len(heap)
      /\ \A c \in 1 .. Len(heap) :
            heap'[c].live = heap[c].live /\ Len(heap'[c].slots) = Len(heap[c].slots)
      /\ heap'[data].slots[idx[s] + 1] = <<s, sent[s] + 1>>
  BY <1>1, <1>2, <1>3, WriteSlotFacts
<1> USE IpcAssumption DEF vector, sender, receiver
<1>5. MemoryTypeOK' /\ LocalsTypeOK'
  BY <1>1, <1>2, <1>3, <1>4 DEF MemoryTypeOK, LocalsTypeOK
<1>6. VectorInv'
  <2>1. /\ data' = data /\ length' = length /\ capacity' = capacity /\ state' = state
        /\ length <= capacity
        /\ data \in 0 .. Len(heap)
    BY <1>1, <1>2 DEF VectorInv, MemoryTypeOK
  <2>2. \A u \in Sender : pc[u] # "capacity" /\ pc[u] # "data"
    BY <1>2
  <2>3. Fitting /\ (data # NULL /\ state # "REAPED" => heap[data].live)
    BY <1>2, <2>2 DEF VectorInv
  <2>4. data # NULL => /\ heap'[data].live = heap[data].live
                       /\ Len(heap'[data].slots) = Len(heap[data].slots)
    BY <1>4, <2>1 DEF NULL
  <2> QED  BY <2>1, <2>3, <2>4 DEF VectorInv, Fitting
<1>7. PushInv(s)'
  BY <1>1, <1>2, <1>4 DEF PushInv, Growing
<1>8. "length" \in {"user"} \cup Pushing
  BY DEF Pushing
<1> QED  BY <1>1, <1>4, <1>5, <1>6, <1>7, <1>8, SenderFrame

LEMMA LengthLastInv ==
    ASSUME IpcInv, ~Races, NEW s \in Sender, LengthLast(s)
    PROVE  IpcInv'
<1>1. /\ Step(s, "length", "user")
      /\ length' = idx[s] + 1
      /\ IntrOn(s) /\ sent' = [sent EXCEPT ![s] = @ + 1]
      /\ UNCHANGED <<data, capacity, heap, old, new, idx, receiver, state, fault>>
  BY DEF LengthLast, SendReturns
<1>2. /\ pc[s] = "length" /\ pc'[s] = "user"
      /\ \A u \in Sender \ {s} : pc[u] = "user" /\ pc'[u] = "user"
      /\ MemoryTypeOK /\ LocalsTypeOK /\ VectorInv /\ PushInv(s) /\ ~fault
  BY <1>1, SenderFacts
<1> USE IpcAssumption DEF receiver
<1>3. MemoryTypeOK' /\ LocalsTypeOK'
  BY SMTT(30), <1>1, <1>2 DEF MemoryTypeOK, LocalsTypeOK, PushInv
<1>4. VectorInv'
  BY <1>1, <1>2 DEF VectorInv, Fitting, PushInv, MemoryTypeOK
<1>5. PushInv(s)'
  BY <1>2 DEF PushInv, Growing
<1>6. UNCHANGED <<ridx, rdata, state>> /\ ~fault'
  BY <1>1, <1>2
<1> QED  BY <1>1, <1>3, <1>4, <1>5, <1>6, SenderFrame

-----------------------------------------------------------------------------
\* What holds when the receiver runs, or the reaper for it.
LEMMA ReceiverFacts ==
    ASSUME IpcInv, ~Races, CanRun(Receiver)
    PROVE  /\ \A s \in Sender : pc[s] = "user"
           /\ \A u \in Task \ {Receiver} : ~Busy(u)
           /\ Fitting
           /\ data # NULL /\ state # "REAPED" => heap[data].live
<1> USE IpcAssumption
<1>1. Receiver \in Task /\ \A s \in Sender : s \in Task /\ s # Receiver
  BY DEF Task, Receiver
<1>2. \A u \in Task \ {Receiver} : ~Busy(u)
  BY <1>1, Alone
<1>3. \A s \in Sender : pc[s] = "user"
  BY <1>1, <1>2 DEF Busy, Idle, IpcInv, IpcTypeOK, ControlTypeOK, Pushing, Growing
<1> QED  BY <1>2, <1>3 DEF IpcInv, VectorInv

\* A step of the receiver changes no more of the vector than its length.
LEMMA ReceiverFrame ==
    ASSUME IpcInv, ~Races, NEW from, NEW to \in {"user", "test"} \cup Popping,
           Step(Receiver, from, to),
           \/ UNCHANGED open
           \/ IntrOn(Receiver)
           \/ IntrOff(Receiver),
           UNCHANGED <<data, capacity, heap, sender, state, fault>>,
           length' \in Nat, length' <= length, ridx' \in Nat, rdata' \in Nat,
           PopInv'
    PROVE  IpcInv'
<1> USE IpcAssumption DEF sender
<1>1. Receiver \in Task /\ \A s \in Sender : s \in Task /\ s # Receiver
  BY DEF Task, Receiver
<1>2. IpcTypeOK /\ CanRun(Receiver) /\ pc' = [pc EXCEPT ![Receiver] = to] /\ VectorInv /\ ~fault
  BY DEF IpcInv, Step
<1>3. /\ \A s \in Sender : pc[s] = "user"
      /\ \A u \in Task \ {Receiver} : ~Busy(u)
  BY <1>2, ReceiverFacts
<1>4. /\ open' \in [Task -> BOOLEAN]
      /\ \A u \in Task \ {Receiver} : open'[u] = open[u]
  BY <1>1, <1>2 DEF IpcTypeOK, ControlTypeOK, IntrOn, IntrOff
<1>5. pc'[Receiver] = to /\ \A u \in Task \ {Receiver} : pc'[u] = pc[u]
  BY <1>1, <1>2 DEF IpcTypeOK, ControlTypeOK
<1>6. \A s \in Sender : pc'[s] = "user"
  BY <1>1, <1>3, <1>5
<1>7. ControlTypeOK'
  BY <1>1, <1>2, <1>4, <1>5, <1>6 DEF IpcTypeOK, ControlTypeOK
<1>8. OneAtATime'
  BY <1>3, <1>4, <1>5 DEF OneAtATime, Busy, Idle
<1>9. MemoryTypeOK' /\ LocalsTypeOK'
  BY <1>2 DEF IpcTypeOK, MemoryTypeOK, LocalsTypeOK
<1>10. VectorInv'
  BY <1>2, <1>3, <1>6 DEF VectorInv, Fitting, IpcTypeOK, MemoryTypeOK
<1>11. \A s \in Sender : PushInv(s)'
  BY <1>6 DEF PushInv, Growing
<1> QED  BY <1>2, <1>7, <1>8, <1>9, <1>10, <1>11 DEF IpcInv, IpcTypeOK

LEMMA ReceiverStepInv ==
    ASSUME IpcInv, ~Races, ReceiverStep
    PROVE  IpcInv'
<1> USE IpcAssumption DEF vector, sender, receiver
<1>1. Receiver \in Task /\ pc \in [Task -> {"user", "test", "dead"} \cup Pushing \cup Popping]
  BY DEF Task, IpcInv, IpcTypeOK, ControlTypeOK
<1>2. /\ PopInv /\ length \in Nat /\ ridx \in Nat /\ rdata \in Nat /\ data \in Nat
      /\ capacity \in Nat /\ length <= capacity
  BY DEF IpcInv, IpcTypeOK, MemoryTypeOK, LocalsTypeOK, VectorInv
<1>3. \A from, to : Step(Receiver, from, to) =>
          pc[Receiver] = from /\ pc'[Receiver] = to /\ Fitting
  BY <1>1, ReceiverFacts DEF Step
<1>4. CASE ReceiveCall
  <2>1. Step(Receiver, "user", "test") /\ IntrOff(Receiver)
        /\ UNCHANGED <<vector, heap, sender, receiver, state, fault>>
    BY <1>4 DEF ReceiveCall
  <2>2. PopInv'
    BY <1>2, <1>3, <2>1 DEF PopInv, Popping
  <2> QED  BY <1>2, <2>1, <2>2, ReceiverFrame
<1>5. CASE WaitMore
  <2>1. Step(Receiver, "test", "test") /\ IntrOn(Receiver)
        /\ UNCHANGED <<vector, heap, sender, receiver, state, fault>>
    BY <1>5 DEF WaitMore
  <2>2. PopInv'
    BY <1>2, <1>3, <2>1 DEF PopInv, Popping
  <2> QED  BY <1>2, <2>1, <2>2, ReceiverFrame
<1>6. CASE PopLoad
  <2>1. /\ Step(Receiver, "test", "popped") /\ length > 0 /\ ridx' = length - 1
        /\ UNCHANGED <<vector, heap, open, sender, rdata, received, state, fault>>
    BY <1>6 DEF PopLoad
  <2>2. data # NULL
    BY <1>2, <1>3, <2>1 DEF Fitting
  <2>3. PopInv'
    BY <1>2, <1>3, <2>1, <2>2 DEF PopInv, Popping
  <2> QED  BY <1>2, <2>1, <2>3, ReceiverFrame DEF Popping
<1>7. ASSUME NEW from \in Popping, NEW to \in Popping, PopLength(from, to),
             <<from, to>> = <<"popped", "length">> \/ <<from, to>> = <<"data", "copy">>
      PROVE  IpcInv'
  <2>1. /\ Step(Receiver, from, to) /\ length' = ridx
        /\ UNCHANGED <<data, capacity, heap, open, sender, receiver, state, fault>>
    BY <1>7 DEF PopLength
  <2>2. PopInv' /\ length' <= length
    BY <1>2, <1>3, <1>7, <2>1 DEF PopInv, Popping
  <2> QED  BY <1>2, <2>1, <2>2, ReceiverFrame
<1>8. ASSUME NEW from \in Popping, NEW to \in Popping, PopData(from, to),
             <<from, to>> = <<"popped", "data">> \/ <<from, to>> = <<"length", "copy">>
      PROVE  IpcInv'
  <2>1. /\ Step(Receiver, from, to) /\ rdata' = data
        /\ UNCHANGED <<vector, heap, open, sender, ridx, received, state, fault>>
    BY <1>8 DEF PopData
  <2>2. PopInv'
    BY <1>2, <1>3, <1>8, <2>1 DEF PopInv, Popping
  <2>3. /\ UNCHANGED <<data, capacity, heap, sender, state, fault>>
        /\ length' \in Nat /\ length' <= length /\ ridx' \in Nat /\ rdata' \in Nat
    BY <1>2, <2>1
  <2>4. to \in {"user", "test"} \cup Popping
    BY <1>8
  <2> QED  BY <2>1, <2>2, <2>3, <2>4, ReceiverFrame
<1>9. CASE PopCopy
  <2>1. Step(Receiver, "copy", "user") /\ IntrOn(Receiver)
        /\ UNCHANGED <<vector, heap, sender, ridx, rdata, state, fault>>
    BY <1>9 DEF PopCopy
  <2>2. PopInv'
    BY <1>2, <1>3, <2>1 DEF PopInv, Popping
  <2> QED  BY <1>2, <2>1, <2>2, ReceiverFrame
<1> QED  BY <1>4, <1>5, <1>6, <1>7, <1>8, <1>9 DEF ReceiverStep, Popping

LEMMA ExitInv ==
    ASSUME IpcInv, ~Races, Exit
    PROVE  IpcInv'
<1> USE IpcAssumption DEF vector, sender, receiver
<1>1. /\ CanRun(Receiver) /\ pc[Receiver] = "user" /\ pc' = [pc EXCEPT ![Receiver] = "dead"]
      /\ state' = "DEAD"
      /\ UNCHANGED <<vector, heap, open, sender, receiver, fault>>
  BY DEF Exit, Step
<1>2. /\ \A s \in Sender : pc[s] = "user"
      /\ \A u \in Task \ {Receiver} : ~Busy(u)
      /\ Fitting
      /\ data # NULL /\ state # "REAPED" => heap[data].live
  BY <1>1, ReceiverFacts
<1>3. Receiver \in Task /\ \A s \in Sender : s \in Task /\ s # Receiver
  BY DEF Task, Receiver
<1>4. IpcTypeOK /\ VectorInv /\ PopInv /\ ~fault
  BY DEF IpcInv
<1>5. pc'[Receiver] = "dead" /\ \A u \in Task \ {Receiver} : pc'[u] = pc[u]
  BY <1>1, <1>3, <1>4 DEF IpcTypeOK, ControlTypeOK
<1>6. \A s \in Sender : pc'[s] = "user"
  BY <1>2, <1>3, <1>5
<1>7. state = "RUNNING"
  BY <1>1, <1>4 DEF PopInv
<1>8. ControlTypeOK'
  BY <1>1, <1>3, <1>4, <1>5, <1>6 DEF IpcTypeOK, ControlTypeOK
<1>9. MemoryTypeOK' /\ LocalsTypeOK'
  BY <1>1, <1>4 DEF IpcTypeOK, MemoryTypeOK, LocalsTypeOK
<1>10. OneAtATime'
  BY <1>1, <1>2, <1>5 DEF OneAtATime, Busy, Idle
<1>11. VectorInv'
  BY <1>1, <1>2, <1>4, <1>7 DEF VectorInv, Fitting
<1>12. \A s \in Sender : PushInv(s)'
  BY <1>6 DEF PushInv, Growing
<1>13. PopInv'
  BY <1>1, <1>5 DEF PopInv, Popping
<1> QED  BY <1>1, <1>4, <1>8, <1>9, <1>10, <1>11, <1>12, <1>13 DEF IpcInv, IpcTypeOK

LEMMA ReapInv ==
    ASSUME IpcInv, ~Races, Reap
    PROVE  IpcInv'
<1> USE IpcAssumption DEF vector, sender, receiver
<1>1. /\ CanRun(Receiver) /\ state = "DEAD" /\ state' = "REAPED" /\ heap' = Freed(data)
      /\ UNCHANGED <<vector, pc, open, sender, receiver, fault>>
  BY DEF Reap
<1>2. (\A s \in Sender : pc[s] = "user") /\ Fitting
  BY <1>1, ReceiverFacts
<1>3. IpcTypeOK /\ VectorInv /\ PopInv /\ OneAtATime /\ ~fault
  BY DEF IpcInv
<1>4. /\ heap' \in Seq(Buffer) /\ Len(heap') = Len(heap)
      /\ \A c \in 1 .. Len(heap) : heap'[c].slots = heap[c].slots
  BY <1>1, <1>3, FreedBuffer DEF IpcTypeOK, MemoryTypeOK
<1>5. ControlTypeOK' /\ MemoryTypeOK' /\ LocalsTypeOK'
  BY <1>1, <1>3, <1>4 DEF IpcTypeOK, ControlTypeOK, MemoryTypeOK, LocalsTypeOK
<1>6. OneAtATime'
  BY <1>1, <1>3 DEF OneAtATime, Busy, Idle
<1>7. VectorInv'
  BY <1>1, <1>2, <1>3, <1>4 DEF VectorInv, Fitting, IpcTypeOK, MemoryTypeOK, NULL
<1>8. \A s \in Sender : PushInv(s)'
  BY <1>1, <1>2 DEF PushInv, Growing
<1>9. PopInv'
  BY <1>1, <1>3 DEF PopInv, Popping
<1> QED  BY <1>1, <1>3, <1>5, <1>6, <1>7, <1>8, <1>9 DEF IpcInv, IpcTypeOK

LEMMA IpcNextInv == ~Races /\ IpcInv /\ [Next]_ipcVars => IpcInv'
<1> SUFFICES ASSUME ~Races, IpcInv, [Next]_ipcVars
             PROVE  IpcInv'
  OBVIOUS
<1>1. CASE UNCHANGED ipcVars
  <2> USE <1>1 DEF ipcVars, vector, sender, receiver, IpcInv
  <2>1. IpcTypeOK'
    BY DEF IpcTypeOK, ControlTypeOK, MemoryTypeOK, LocalsTypeOK
  <2>2. OneAtATime'
    BY DEF OneAtATime, Busy, Idle
  <2>3. VectorInv'
    BY DEF VectorInv, Fitting
  <2>4. ASSUME NEW s \in Sender
        PROVE  PushInv(s)'
    <3>1. PushInv(s)
      OBVIOUS
    <3> QED  BY <3>1 DEF PushInv
  <2>5. PopInv'
    BY DEF PopInv
  <2> QED  BY <2>1, <2>2, <2>3, <2>4, <2>5
<1>2. ASSUME NEW s \in Sender, SenderStep(s)
      PROVE  IpcInv'
  BY <1>2, SendCallInv, FitsInv, GrowInv, MallocInv, CopyInv, FreeOldInv, SetDataInv,
     SetCapacityInv, LoadInv, LengthFirstInv, SlotLastInv, SlotFirstInv, LengthLastInv
  DEF SenderStep
<1> QED  BY <1>1, <1>2, ReceiverStepInv, ExitInv, ReapInv DEF Next

\* The inductive invariant holds in every state when no update is cut.
THEOREM IpcInvariance == ~Races /\ Spec => []IpcInv
<1>1. ASSUME ~Races
      PROVE  Spec => []IpcInv
  <2>1. IpcInv /\ [Next]_ipcVars => IpcInv'
    BY <1>1, IpcNextInv
  <2> QED  BY <2>1, IpcInitInv, PTL DEF Spec
<1> QED  BY <1>1

\* Without a switch in the middle of an update no message is written outside
\* the vector's live buffer, however many senders make it grow, and although
\* the receiver may end and the reaper free the buffer at any time.
THEOREM QuietWritesStay == ~Races /\ Spec => []NoWildWrite
<1>1. IpcInv => NoWildWrite
  BY DEF IpcInv, NoWildWrite
<1> QED  BY <1>1, IpcInvariance, PTL

-----------------------------------------------------------------------------
\* The first n slots of a buffer.
Kept(h, b, n) == IF b = NULL THEN <<>> ELSE [k \in 1 .. n |-> h[b].slots[k]]

LEMMA KeptSame ==
    ASSUME NEW h, NEW g, NEW b, NEW c, NEW n \in Int,
           b = NULL => n <= 0, c = NULL => n <= 0,
           b # NULL /\ c # NULL => \A k \in 1 .. n : g[c].slots[k] = h[b].slots[k]
    PROVE  Kept(g, c, n) = Kept(h, b, n)
<1>1. CASE n <= 0
  <2>1. 1 .. n = {}
    BY <1>1
  <2>2. \A q : [k \in {} |-> q[k]] = <<>>
    OBVIOUS
  <2> QED  BY <2>1, <2>2 DEF Kept
<1>2. CASE n > 0
  BY <1>2 DEF Kept
<1> QED  BY <1>1, <1>2

LEMMA KeptPlusOne ==
    ASSUME MemoryTypeOK, NEW n \in Nat, NEW m \in Slot, data # NULL, n < Len(heap[data].slots),
           NEW g,
           \A k \in 1 .. n : g[data].slots[k] = heap[data].slots[k],
           g[data].slots[n + 1] = m
    PROVE  Kept(g, data, n + 1) = Append(Kept(heap, data, n), m)
<1> DEFINE p == [k \in 1 .. n |-> heap[data].slots[k]]
           q == [k \in 1 .. n + 1 |-> g[data].slots[k]]
<1>1. heap[data] \in Buffer
  BY ElementOfSeq DEF MemoryTypeOK, NULL
<1>2. heap[data].slots \in Seq(Slot)
  BY <1>1 DEF Buffer
<1>3. \A k \in 1 .. n : heap[data].slots[k] \in Slot
  BY <1>2, ElementOfSeq
<1>4. p \in Seq(Slot) /\ Len(p) = n /\ \A k \in 1 .. n : p[k] = heap[data].slots[k]
  <2>1. p \in [1 .. n -> Slot]
    BY <1>3
  <2> QED  BY <2>1, FunctionIsSeq
<1>5. q \in Seq(Slot) /\ Len(q) = n + 1 /\ \A k \in 1 .. n + 1 : q[k] = g[data].slots[k]
  <2>1. q \in [1 .. n + 1 -> Slot]
    BY <1>3
  <2> QED  BY <2>1, FunctionIsSeq
<1> HIDE DEF p, q
<1>6. /\ Append(p, m) \in Seq(Slot) /\ Len(Append(p, m)) = n + 1
      /\ \A k \in 1 .. n : Append(p, m)[k] = p[k]
      /\ Append(p, m)[n + 1] = m
  BY <1>4, AppendProperties
<1>7. \A k \in 1 .. n + 1 : q[k] = Append(p, m)[k]
  <2> TAKE k \in 1 .. n + 1
  <2>1. CASE k = n + 1
    BY <1>5, <1>6, <2>1
  <2>2. CASE k \in 1 .. n
    BY <1>4, <1>5, <1>6, <2>2
  <2>3. k = n + 1 \/ k \in 1 .. n
    OBVIOUS
  <2> QED  BY <2>1, <2>2, <2>3
<1>8. q = Append(p, m)
  BY <1>5, <1>6, <1>7, SeqEqual
<1> QED  BY <1>8 DEF Kept, p, q

LEMMA CountedSlots ==
    ASSUME NEW s \in Sender, NEW p, \A u \in Sender \ {s} : p[u] = "user"
    PROVE  Cardinality({u \in Sender : p[u] = "slot"}) = IF p[s] = "slot" THEN 1 ELSE 0
<1>1. {u \in Sender : p[u] = "slot"} = IF p[s] = "slot" THEN {s} ELSE {}
  OBVIOUS
<1> QED  BY <1>1, FS_EmptySet, FS_Singleton

\* What is in the mailbox while a sender runs.
LEMMA SenderContents ==
    ASSUME IpcInv, ~Races, NEW s \in Sender, NEW from, NEW to, Step(s, from, to), length' \in Nat
    PROVE  /\ Contents = Kept(heap, data, IF from = "slot" THEN length - 1 ELSE length)
           /\ Contents' = Kept(heap', data', IF to = "slot" THEN length' - 1 ELSE length')
<1> USE IpcAssumption
<1>1. s \in Task /\ Receiver \in Task /\ s # Receiver
  BY DEF Task, Receiver
<1>2. IpcTypeOK /\ CanRun(s) /\ pc[s] = from /\ pc' = [pc EXCEPT ![s] = to]
  BY DEF IpcInv, Step
<1>3. /\ pc'[s] = to
      /\ \A u \in Sender \ {s} : pc[u] = "user" /\ pc'[u] = "user"
      /\ length \in Nat
  BY SenderFacts DEF MemoryTypeOK
<1>4. pc[Receiver] \notin {"length", "copy"} /\ pc'[Receiver] = pc[Receiver]
  BY <1>1, <1>2, Alone DEF Busy, Idle, IpcTypeOK, ControlTypeOK
<1>5. /\ Cardinality({u \in Sender : pc[u] = "slot"}) = IF from = "slot" THEN 1 ELSE 0
      /\ Cardinality({u \in Sender : pc'[u] = "slot"}) = IF to = "slot" THEN 1 ELSE 0
  BY <1>2, <1>3, CountedSlots
<1>6. /\ length - (IF from = "slot" THEN 1 ELSE 0) + 0 = IF from = "slot" THEN length - 1 ELSE length
      /\ length' - (IF to = "slot" THEN 1 ELSE 0) + 0 = IF to = "slot" THEN length' - 1 ELSE length'
  <2>1. \A n \in Nat : n - 0 + 0 = n /\ n - 1 + 0 = n - 1
    OBVIOUS
  <2>2. length \in Nat /\ length' \in Nat
    BY <1>3
  <2> QED  BY <2>1, <2>2, Zenon
<1>7. Contents = Kept(heap, data, IF from = "slot" THEN length - 1 ELSE length)
  BY ONLY <1>4, <1>5, <1>6 DEF Contents, Kept
<1>8. Contents' = Kept(heap', data', IF to = "slot" THEN length' - 1 ELSE length')
  BY ONLY <1>4, <1>5, <1>6 DEF Contents, Kept
<1> QED  BY <1>7, <1>8

\* A sender's step that only gets ready to write leaves the messages alone.
LEMMA QuietSenderStep ==
    ASSUME IpcInv, ~Races, NEW s \in Sender, NEW from, NEW to, Step(s, from, to),
           (from = "slot") = (to = "slot"), UNCHANGED length,
           data = NULL => length = 0, data' = NULL => length = 0,
           data # NULL /\ data' # NULL =>
               \A k \in 1 .. length : heap'[data'].slots[k] = heap[data].slots[k]
    PROVE  UNCHANGED Contents
<1>1. length \in Nat
  BY DEF IpcInv, IpcTypeOK, MemoryTypeOK
<1>2. /\ Contents = Kept(heap, data, IF from = "slot" THEN length - 1 ELSE length)
      /\ Contents' = Kept(heap', data', IF from = "slot" THEN length - 1 ELSE length)
  BY <1>1, SenderContents
<1> DEFINE n == IF from = "slot" THEN length - 1 ELSE length
<1>3. n \in Int /\ n <= length
  BY <1>1
<1>4. /\ data = NULL => n <= 0
      /\ data' = NULL => n <= 0
      /\ data # NULL /\ data' # NULL =>
            \A k \in 1 .. n : heap'[data'].slots[k] = heap[data].slots[k]
  BY <1>1, <1>3
<1> HIDE DEF n
<1>5. Kept(heap', data', n) = Kept(heap, data, n)
  BY <1>3, <1>4, KeptSame
<1> QED  BY <1>2, <1>5 DEF n

LEMMA SendStep ==
    ASSUME IpcInv, ~Races, NEW s \in Sender, NEW from, Step(s, from, "user"),
           from # "slot" => length' = length + 1,
           from = "slot" => length' = length,
           UNCHANGED data,
           data # NULL, length' <= Len(heap[data].slots), length' > 0, sent[s] < Count,
           \A k \in 1 .. length' - 1 : heap'[data].slots[k] = heap[data].slots[k],
           heap'[data].slots[length'] = <<s, sent[s] + 1>>,
           UNCHANGED <<received, state>>, state = "RUNNING"
    PROVE  \E m \in Message : Abstract!Send(m)
<1> DEFINE m == <<s, sent[s] + 1>>
           n == length' - 1
<1>1. MemoryTypeOK /\ LocalsTypeOK /\ length' \in Nat /\ n \in Nat /\ n + 1 = length'
  BY DEF IpcInv, IpcTypeOK, MemoryTypeOK
<1>2. m \in Message /\ m \in Slot
  BY <1>1, IpcAssumption DEF Message, Slot, LocalsTypeOK
<1>3. /\ Contents = Kept(heap, data, IF from = "slot" THEN length - 1 ELSE length)
      /\ Contents' = Kept(heap', data, length')
  BY <1>1, SenderContents
<1>4. n = IF from = "slot" THEN length - 1 ELSE length
  BY <1>1 DEF MemoryTypeOK
<1>5. n < Len(heap[data].slots)
  <2>1. heap[data] \in Buffer
    BY <1>1, ElementOfSeq DEF MemoryTypeOK, NULL
  <2>2. Len(heap[data].slots) \in Nat
    BY <2>1 DEF Buffer
  <2> QED  BY <1>1, <2>2
<1>6. Kept(heap', data, n + 1) = Append(Kept(heap, data, n), m)
  <2>1. heap'[data].slots[n + 1] = m /\ \A k \in 1 .. n : heap'[data].slots[k] = heap[data].slots[k]
    BY <1>1
  <2> HIDE DEF m, n
  <2> QED  BY <1>1, <1>2, <1>5, <2>1, KeptPlusOne
<1>7. Contents' = Append(Contents, m)
  BY <1>1, <1>3, <1>4, <1>6
<1> QED  BY <1>2, <1>7 DEF Abstract!Send

LEMMA SenderRefines ==
    ASSUME IpcInv, ~Races, NEW s \in Sender, SenderStep(s)
    PROVE  (\E m \in Message : Abstract!Send(m)) \/ UNCHANGED Abstract!mailboxVars
<1> USE DEF vector, sender, receiver
<1>1. /\ MemoryTypeOK /\ LocalsTypeOK /\ VectorInv /\ PushInv(s)
      /\ length \in Nat /\ capacity \in Nat
      /\ data \in 0 .. Len(heap)
  BY DEF IpcInv, IpcTypeOK, MemoryTypeOK
<1>2. ASSUME NEW from, NEW to, Step(s, from, to), from # "capacity"
      PROVE  Fitting
  BY <1>2, SenderFacts DEF VectorInv
<1>3. ASSUME Fitting
      PROVE  data = NULL => length = 0
  BY <1>1, <1>3 DEF Fitting, VectorInv
<1>4. ASSUME UNCHANGED <<Contents, received, state>>
      PROVE  UNCHANGED Abstract!mailboxVars
  BY <1>4 DEF Abstract!mailboxVars
<1>5. CASE \/ SendCall(s) \/ Fits(s) \/ Grow(s) \/ SetCapacity(s) \/ Load(s)
  <2>1. PICK from, to :
            /\ Step(s, from, to) /\ from # "slot" /\ to # "slot"
            /\ from = "capacity" => data # NULL
    <3>1. pc[s] = "capacity" => data # NULL
      BY <1>1 DEF PushInv
    <3> QED  BY <1>5, <3>1 DEF SendCall, Fits, Grow, SetCapacity, Load, Step
  <2>2. UNCHANGED <<data, length, heap, received, state>>
    BY <1>5 DEF SendCall, Fits, Grow, SetCapacity, Load
  <2>3. data = NULL => length = 0
    BY <1>2, <1>3, <2>1
  <2>4. UNCHANGED Contents
    BY <2>1, <2>2, <2>3, QuietSenderStep
  <2> QED  BY <1>4, <2>2, <2>4
<1>6. CASE Malloc(s)
  <2>1. Step(s, "malloc", "copy") /\ UNCHANGED <<data, length, received, state>>
    BY <1>6 DEF Malloc
  <2>2. \A b \in 1 .. Len(heap) : heap'[b] = heap[b]
    BY <1>1, <1>6 DEF Malloc, MemoryTypeOK
  <2>3. UNCHANGED Contents
    BY <1>1, <1>2, <1>3, <2>1, <2>2, QuietSenderStep DEF NULL
  <2> QED  BY <1>4, <2>1, <2>3
<1>7. CASE Copy(s)
  <2>1. Step(s, "copy", "free") /\ UNCHANGED <<data, length, received, state>>
    BY <1>7 DEF Copy
  <2>2. data # NULL => heap'[data] = heap[data]
    BY <1>1, <1>7, CopyFacts DEF NULL
  <2>3. UNCHANGED Contents
    BY <1>2, <1>3, <2>1, <2>2, QuietSenderStep
  <2> QED  BY <1>4, <2>1, <2>3
<1>8. CASE FreeOld(s)
  <2>1. Step(s, "free", "data") /\ UNCHANGED <<data, length, received, state>>
    BY <1>8 DEF FreeOld
  <2>2. old[s] = data
    BY <1>1, <2>1, SenderFacts DEF PushInv, Growing
  <2>3. \A b \in 1 .. Len(heap) : heap'[b].slots = heap[b].slots
    BY <1>1, <1>8, <2>2, FreedBuffer DEF FreeOld
  <2>4. UNCHANGED Contents
    BY <1>1, <1>2, <1>3, <2>1, <2>3, QuietSenderStep DEF NULL
  <2> QED  BY <1>4, <2>1, <2>4
<1>9. CASE SetData(s)
  <2>1. Step(s, "data", "capacity") /\ data' = new[s] /\ UNCHANGED <<length, heap, received, state>>
    BY <1>9 DEF SetData
  <2>2. /\ new[s] \in 1 .. Len(heap)
        /\ \A k \in 1 .. length : heap[new[s]].slots[k] = heap[data].slots[k]
    BY <1>1, <2>1, SenderFacts DEF PushInv, Growing
  <2>3. UNCHANGED Contents
    BY <1>1, <1>2, <1>3, <2>1, <2>2, QuietSenderStep DEF NULL
  <2> QED  BY <1>4, <2>1, <2>3
<1>10. CASE LengthFirst(s)
  <2>1. Step(s, "store", "slot") /\ length' = idx[s] + 1 /\ UNCHANGED <<data, heap, received, state>>
    BY <1>10 DEF LengthFirst
  <2>2. idx[s] = length
    BY <1>1, <2>1, SenderFacts DEF PushInv
  <2>3. length' \in Nat /\ length' - 1 = length
    BY <1>1, <2>1, <2>2
  <2>4. UNCHANGED Contents
    BY <2>1, <2>3, SenderContents
  <2> QED  BY <1>4, <2>1, <2>4
<1>11. CASE SlotFirst(s)
  <2>1. Step(s, "store", "length") /\ WriteSlot(s) /\ UNCHANGED <<data, length, received, state>>
    BY <1>11 DEF SlotFirst
  <2>2. data # NULL /\ heap[data].live /\ length < Len(heap[data].slots) /\ sent[s] < Count
           /\ idx[s] = length /\ ~fault
    <3>1. data # NULL /\ length < capacity /\ idx[s] = length /\ sent[s] < Count /\ state = "RUNNING"
      BY <1>1, <2>1, SenderFacts DEF PushInv
    <3>2. heap[data].live
      BY <2>1, <3>1, SenderFacts DEF VectorInv
    <3> QED  BY <1>2, <2>1, <3>1, <3>2 DEF Fitting, IpcInv
  <2>3. \A k \in 1 .. Len(heap[data].slots) :
            k # length + 1 => heap'[data].slots[k] = heap[data].slots[k]
    BY <1>1, <2>1, <2>2, WriteSlotFacts
  <2>4. \A k \in 1 .. length : k \in 1 .. Len(heap[data].slots) /\ k # length + 1
    BY <1>1, <1>2, <2>1, <2>2 DEF Fitting
  <2>5. UNCHANGED Contents
    BY <2>1, <2>2, <2>3, <2>4, QuietSenderStep
  <2> QED  BY <1>4, <2>1, <2>5
<1>12. CASE SlotLast(s)
  <2>1. Step(s, "slot", "user") /\ WriteSlot(s) /\ UNCHANGED <<data, length, received, state>>
    BY <1>12 DEF SlotLast
  <2>2. /\ data # NULL /\ length = idx[s] + 1 /\ sent[s] < Count /\ state = "RUNNING"
        /\ length <= capacity /\ capacity = Len(heap[data].slots) /\ heap[data].live /\ ~fault
    <3>1. data # NULL /\ length = idx[s] + 1 /\ sent[s] < Count /\ state = "RUNNING"
      BY <1>1, <2>1, SenderFacts DEF PushInv
    <3>2. heap[data].live
      BY <2>1, <3>1, SenderFacts DEF VectorInv
    <3> QED  BY <1>1, <1>2, <2>1, <3>1, <3>2 DEF Fitting, IpcInv, VectorInv
  <2>3. idx[s] \in Nat /\ idx[s] < Len(heap[data].slots)
    BY <1>1, <2>2 DEF LocalsTypeOK
  <2>4. /\ heap'[data].slots[idx[s] + 1] = <<s, sent[s] + 1>>
        /\ \A k \in 1 .. Len(heap[data].slots) :
              k # idx[s] + 1 => heap'[data].slots[k] = heap[data].slots[k]
    BY <1>1, <2>1, <2>2, <2>3, WriteSlotFacts
  <2>5. \A k \in 1 .. length - 1 : heap'[data].slots[k] = heap[data].slots[k]
    <3>1. \A k \in 1 .. length - 1 : k \in 1 .. Len(heap[data].slots) /\ k # idx[s] + 1
      BY <1>1, <2>2, <2>3
    <3> QED  BY <2>4, <3>1
  <2> QED  BY <1>1, <2>1, <2>2, <2>3, <2>4, <2>5, SendStep
<1>13. CASE LengthLast(s)
  <2>1. Step(s, "length", "user") /\ length' = idx[s] + 1 /\ UNCHANGED <<data, heap, received, state>>
    BY <1>13 DEF LengthLast
  <2>2. /\ data # NULL /\ length = idx[s] /\ sent[s] < Count /\ state = "RUNNING"
        /\ length < capacity /\ capacity = Len(heap[data].slots)
        /\ heap[data].slots[idx[s] + 1] = <<s, sent[s] + 1>>
    BY <1>1, <1>2, <2>1, SenderFacts DEF PushInv, Fitting
  <2>3. length' = length + 1 /\ length' <= Len(heap[data].slots) /\ length' > 0
    BY <1>1, <2>1, <2>2
  <2> QED  BY <2>1, <2>2, <2>3, SendStep
<1> QED  BY <1>5, <1>6, <1>7, <1>8, <1>9, <1>10, <1>11, <1>12, <1>13 DEF SenderStep

-----------------------------------------------------------------------------
\* What is in the mailbox while the receiver runs, or the reaper.
LEMMA ReceiverContents ==
    ASSUME IpcInv, ~Races, CanRun(Receiver), length' \in Nat,
           \A s \in Sender : pc'[s] = pc[s]
    PROVE  /\ Contents = Kept(heap, data,
                              IF pc[Receiver] \in {"length", "copy"} THEN length + 1 ELSE length)
           /\ Contents' = Kept(heap', data',
                              IF pc'[Receiver] \in {"length", "copy"} THEN length' + 1 ELSE length')
<1>1. \A s \in Sender : pc[s] = "user" /\ pc'[s] = "user"
  BY ReceiverFacts
<1>2. {s \in Sender : pc[s] = "slot"} = {} /\ {s \in Sender : pc'[s] = "slot"} = {}
  BY <1>1
<1>3. /\ Cardinality({s \in Sender : pc[s] = "slot"}) = 0
      /\ Cardinality({s \in Sender : pc'[s] = "slot"}) = 0
  BY <1>2, FS_EmptySet
<1>4. length \in Nat
  BY DEF IpcInv, IpcTypeOK, MemoryTypeOK
<1>5. \A n \in Nat : n - 0 + 0 = n /\ n - 0 + 1 = n + 1
  OBVIOUS
<1>6. Contents = Kept(heap, data,
                      IF pc[Receiver] \in {"length", "copy"} THEN length + 1 ELSE length)
  BY ONLY <1>3, <1>4, <1>5 DEF Contents, Kept
<1>7. Contents' = Kept(heap', data',
                      IF pc'[Receiver] \in {"length", "copy"} THEN length' + 1 ELSE length')
  BY ONLY <1>3, <1>5, length' \in Nat DEF Contents, Kept
<1> QED  BY <1>6, <1>7

\* The last of the kept messages is the one that vec_pop takes.
LEMMA KeptLast ==
    ASSUME MemoryTypeOK, NEW n \in Nat, data # NULL, n < Len(heap[data].slots)
    PROVE  /\ Kept(heap, data, n + 1) # <<>>
           /\ Abstract!Last(Kept(heap, data, n + 1)) = heap[data].slots[n + 1]
           /\ Abstract!Front(Kept(heap, data, n + 1)) = Kept(heap, data, n)
<1> DEFINE q == [k \in 1 .. n + 1 |-> heap[data].slots[k]]
           p == [k \in 1 .. n |-> heap[data].slots[k]]
<1>1. heap[data] \in Buffer
  BY ElementOfSeq DEF MemoryTypeOK, NULL
<1>2. heap[data].slots \in Seq(Slot)
  BY <1>1 DEF Buffer
<1>3. \A k \in 1 .. n + 1 : heap[data].slots[k] \in Slot
  BY <1>2, ElementOfSeq
<1>4. q \in Seq(Slot) /\ Len(q) = n + 1 /\ \A k \in 1 .. n + 1 : q[k] = heap[data].slots[k]
  <2>1. q \in [1 .. n + 1 -> Slot]
    BY <1>3
  <2> QED  BY <2>1, FunctionIsSeq
<1>5. p \in Seq(Slot) /\ Len(p) = n /\ \A k \in 1 .. n : p[k] = heap[data].slots[k]
  <2>1. p \in [1 .. n -> Slot]
    BY <1>3
  <2> QED  BY <2>1, FunctionIsSeq
<1> HIDE DEF p, q
<1>6. q # <<>>
  BY <1>4
<1>7. Abstract!Last(q) = heap[data].slots[n + 1]
  BY <1>4 DEF Abstract!Last
<1>8. Abstract!Front(q) = p
  <2>1. Abstract!Front(q) = SubSeq(q, 1, n)
    BY <1>4 DEF Abstract!Front
  <2>2. \A k \in 1 .. n : q[k] \in Slot
    BY <1>4, ElementOfSeq
  <2>3. /\ SubSeq(q, 1, n) \in Seq(Slot) /\ Len(SubSeq(q, 1, n)) = n
        /\ \A k \in 1 .. n : SubSeq(q, 1, n)[k] = q[k]
    BY <1>4, <2>2, SubSeqProperties
  <2>4. SubSeq(q, 1, n) = p
    BY <1>4, <1>5, <2>3, SeqEqual
  <2> QED  BY <2>1, <2>4
<1> QED  BY <1>6, <1>7, <1>8 DEF Kept, p, q

LEMMA ReceiverRefines ==
    ASSUME IpcInv, ~Races, ReceiverStep
    PROVE  Abstract!Receive \/ UNCHANGED Abstract!mailboxVars
<1> USE DEF vector, sender, receiver
<1>1. /\ MemoryTypeOK /\ PopInv /\ length \in Nat /\ ridx \in Nat /\ capacity \in Nat
      /\ pc \in [Task -> {"user", "test", "dead"} \cup Pushing \cup Popping]
  BY DEF IpcInv, IpcTypeOK, MemoryTypeOK, LocalsTypeOK, ControlTypeOK
<1>2. Receiver \in Task /\ \A s \in Sender : s \in Task /\ s # Receiver
  BY IpcAssumption DEF Task, Receiver
<1>3. ASSUME NEW from, NEW to, Step(Receiver, from, to)
      PROVE  /\ CanRun(Receiver) /\ pc[Receiver] = from /\ pc'[Receiver] = to
             /\ \A s \in Sender : pc'[s] = pc[s]
  BY <1>1, <1>2, <1>3 DEF Step
<1>4. ASSUME UNCHANGED <<Contents, received, state>>
      PROVE  UNCHANGED Abstract!mailboxVars
  BY <1>4 DEF Abstract!mailboxVars
<1>5. CASE ReceiveCall \/ WaitMore \/ PopLoad \/ PopData("length", "copy") \/ PopData("popped", "data")
  <2>1. PICK from, to :
            /\ Step(Receiver, from, to)
            /\ from \in {"length", "copy"} <=> to \in {"length", "copy"}
    BY <1>5 DEF ReceiveCall, WaitMore, PopLoad, PopData
  <2>2. UNCHANGED <<data, length, heap, received, state>>
    BY <1>5 DEF ReceiveCall, WaitMore, PopLoad, PopData
  <2>3. UNCHANGED Contents
    BY <1>1, <1>3, <2>1, <2>2, ReceiverContents
  <2> QED  BY <1>4, <2>2, <2>3
<1>6. CASE PopLength("popped", "length") \/ PopLength("data", "copy")
  <2>1. PICK from, to :
            /\ Step(Receiver, from, to)
            /\ from \in {"popped", "data"} /\ to \in {"length", "copy"}
    BY <1>6 DEF PopLength
  <2>2. length' = ridx /\ UNCHANGED <<data, heap, received, state>>
    BY <1>6 DEF PopLength
  <2>3. length = ridx + 1
    BY <1>1, <1>3, <2>1 DEF PopInv
  <2>4. pc[Receiver] \notin {"length", "copy"} /\ pc'[Receiver] \in {"length", "copy"}
    BY <1>3, <2>1
  <2>5. UNCHANGED Contents
    BY <1>1, <1>3, <2>1, <2>2, <2>3, <2>4, ReceiverContents
  <2> QED  BY <1>4, <2>2, <2>5
<1>7. CASE PopCopy
  <2>1. /\ Step(Receiver, "copy", "user")
        /\ received' = Append(received,
                               IF Live(rdata) /\ ridx < Len(heap[rdata].slots)
                               THEN heap[rdata].slots[ridx + 1] ELSE Junk)
        /\ UNCHANGED <<data, length, heap, state>>
    BY <1>7 DEF PopCopy
  <2>2. /\ pc[Receiver] = "copy" /\ pc'[Receiver] = "user" /\ CanRun(Receiver)
        /\ \A s \in Sender : pc'[s] = pc[s]
    BY <1>3, <2>1
  <2>3. data # NULL /\ length = ridx /\ length < capacity /\ rdata = data /\ state = "RUNNING"
    BY <1>1, <2>2 DEF PopInv, Popping
  <2>4. capacity = Len(heap[data].slots) /\ heap[data].live
    BY <2>2, <2>3, ReceiverFacts DEF Fitting
  <2>5. received' = Append(received, heap[data].slots[length + 1])
    BY <2>1, <2>3, <2>4 DEF Live
  <2>6. /\ Contents = Kept(heap, data, length + 1)
        /\ Contents' = Kept(heap, data, length)
    BY <1>1, <2>1, <2>2, ReceiverContents
  <2>7. /\ Contents # <<>>
        /\ Abstract!Last(Contents) = heap[data].slots[length + 1]
        /\ Abstract!Front(Contents) = Contents'
    BY <1>1, <2>3, <2>4, <2>6, KeptLast
  <2> QED  BY <2>1, <2>3, <2>5, <2>7 DEF Abstract!Receive
<1> QED  BY <1>5, <1>6, <1>7 DEF ReceiverStep

LEMMA ExitRefines ==
    ASSUME IpcInv, ~Races, Exit
    PROVE  Abstract!End
<1>1. /\ CanRun(Receiver) /\ pc[Receiver] = "user" /\ pc' = [pc EXCEPT ![Receiver] = "dead"]
      /\ state' = "DEAD"
      /\ UNCHANGED <<data, length, heap, received>>
  BY DEF Exit, Step, vector, receiver
<1>2. /\ pc \in [Task -> {"user", "test", "dead"} \cup Pushing \cup Popping]
      /\ length \in Nat /\ PopInv
  BY DEF IpcInv, IpcTypeOK, ControlTypeOK, MemoryTypeOK
<1>3. pc'[Receiver] = "dead" /\ \A s \in Sender : pc'[s] = pc[s]
  BY <1>1, <1>2, IpcAssumption DEF Task, Receiver
<1>4. UNCHANGED Contents
  BY <1>1, <1>2, <1>3, ReceiverContents
<1>5. state = "RUNNING"
  BY <1>1, <1>2 DEF PopInv
<1> QED  BY <1>1, <1>4, <1>5 DEF Abstract!End

LEMMA ReapRefines ==
    ASSUME IpcInv, ~Races, Reap
    PROVE  UNCHANGED Abstract!mailboxVars
<1>1. /\ CanRun(Receiver) /\ state = "DEAD" /\ state' = "REAPED" /\ heap' = Freed(data)
      /\ UNCHANGED <<data, length, pc, received>>
  BY DEF Reap, vector, receiver
<1>2. MemoryTypeOK /\ length \in Nat /\ length <= capacity /\ capacity \in Nat
  BY DEF IpcInv, IpcTypeOK, MemoryTypeOK, VectorInv
<1>3. \A c \in 1 .. Len(heap) : heap'[c].slots = heap[c].slots
  BY <1>1, <1>2, FreedBuffer DEF MemoryTypeOK
<1> DEFINE n == IF pc[Receiver] \in {"length", "copy"} THEN length + 1 ELSE length
<1>4. Contents = Kept(heap, data, n) /\ Contents' = Kept(heap', data, n)
  BY <1>1, <1>2, ReceiverContents
<1>5. data = NULL => n <= 0
  <2>1. Fitting /\ PopInv
    BY <1>1, ReceiverFacts DEF IpcInv
  <2> QED  BY <1>2, <2>1 DEF Fitting, PopInv, Popping
<1>6. n \in Int /\ (data # NULL => data \in 1 .. Len(heap))
  BY <1>2 DEF MemoryTypeOK, NULL
<1> HIDE DEF n
<1>7. Kept(heap', data, n) = Kept(heap, data, n)
  BY <1>3, <1>5, <1>6, KeptSame
<1> QED  BY <1>1, <1>4, <1>7 DEF Abstract!mailboxVars

LEMMA IpcInitRefines == Init => Abstract!MailboxInit
BY DEF Init, Contents, Abstract!MailboxInit

LEMMA IpcStepRefines == ~Races /\ IpcInv /\ [Next]_ipcVars => [Abstract!MailboxNext]_Abstract!mailboxVars
<1>1. UNCHANGED ipcVars => UNCHANGED Abstract!mailboxVars
  BY DEF ipcVars, vector, sender, receiver, Abstract!mailboxVars, Contents
<1> QED  BY <1>1, SenderRefines, ReceiverRefines, ExitRefines, ReapRefines DEF Next, Abstract!MailboxNext

\* Without a switch in the middle of an update, the vector is the mailbox: a
\* message sent to a receiver that runs is kept, through every realloc, until
\* it is received, once, the last one sent first.
THEOREM QuietMailbox == ~Races /\ Spec => Refines
<1>1. ASSUME ~Races
      PROVE  Spec => Refines
  <2>1. IpcInv /\ [Next]_ipcVars => [Abstract!MailboxNext]_Abstract!mailboxVars
    BY <1>1, IpcStepRefines
  <2>2. IpcInv /\ [Next]_ipcVars => IpcInv'
    BY <1>1, IpcNextInv
  <2> QED  BY <2>1, <2>2, IpcInitInv, IpcInitRefines, PTL DEF Spec, Refines, Abstract!MailboxSpec
<1> QED  BY <1>1
=============================================================================
