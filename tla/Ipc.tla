-------------------------------- MODULE Ipc --------------------------------
(***************************************************************************)
(* Message passing: syscall_ipc_send and syscall_ipc_rcv_sync              *)
(* (kernel/syscall.c) on the vector of messages of one receiver, with      *)
(* vec_push and vec_pop (navy/vec.h, vec.c) and realloc taken apart into   *)
(* their accesses to memory.                                               *)
(*                                                                         *)
(* A system call starts with interrupts off.  A sender that has to grow    *)
(* the vector goes on with interrupts on, since realloc releases the lock  *)
(* of the heap; so does a receiver that has waited.  From there on the     *)
(* timer may switch to another task in the middle of the vector's update.  *)
(***************************************************************************)
EXTENDS Integers, Sequences, SequencesExt, FiniteSets

CONSTANTS
    Sender,         \* tasks that send to the receiver
    Count,          \* messages each of them sends
    Races,          \* the timer may switch tasks inside an update
    Exits           \* the receiver may end, and be reaped

ASSUME IpcAssumption ==
    /\ Count \in Nat
    /\ Races \in BOOLEAN /\ Exits \in BOOLEAN
    /\ "receiver" \notin Sender

VARIABLES
    data, length, capacity,     \* the mailbox: a buffer's number or NULL
    heap,                       \* the buffers allocated: slots, and whether live
    pc, open,                   \* each task's next step; interrupts on
    sent,                       \* messages each sender has sent
    old, new, idx,              \* locals of vec_push and realloc in each sender
    ridx, rdata,                \* locals of vec_pop in the receiver
    received,                   \* messages the receiver has got
    state, fault                \* the receiver's state; a write to memory that
                                \* is not the vector's

vector == <<data, length, capacity>>
sender == <<sent, old, new, idx>>
receiver == <<ridx, rdata, received>>
ipcVars == <<vector, heap, pc, open, sender, receiver, state, fault>>

-----------------------------------------------------------------------------
NULL == 0
Receiver == "receiver"
Task == Sender \cup {Receiver}
Junk == <<>>                    \* what an unwritten slot holds
Message == Sender \X (1 .. Count)

Idle(t) == pc[t] = "user" \/ pc[t] = "test" \/ pc[t] = "dead"

\* A task runs when no other runs with interrupts off; without races, when
\* no other is inside an update.
CanRun(t) ==
    \A u \in Task \ {t} : (Races /\ open[u]) \/ (Idle(u) /\ open[u])

Step(t, from, to) ==
    /\ CanRun(t)
    /\ pc[t] = from
    /\ pc' = [pc EXCEPT ![t] = to]

IntrOn(t) == open' = [open EXCEPT ![t] = TRUE]
IntrOff(t) == open' = [open EXCEPT ![t] = FALSE]

Live(b) == b # NULL /\ heap[b].live
Freed(b) == IF b = NULL THEN heap ELSE [heap EXCEPT ![b].live = FALSE]

Init ==
    /\ data = NULL /\ length = 0 /\ capacity = 0
    /\ heap = <<>>
    /\ pc = [t \in Task |-> "user"]
    /\ open = [t \in Task |-> TRUE]
    /\ sent = [s \in Sender |-> 0]
    /\ old = [s \in Sender |-> NULL]
    /\ new = [s \in Sender |-> NULL]
    /\ idx = [s \in Sender |-> 0]
    /\ ridx = 0 /\ rdata = NULL
    /\ received = <<>>
    /\ state = "RUNNING"
    /\ fault = FALSE

-----------------------------------------------------------------------------
\* Plausible error in syscall_ipc_send: the state of the receiver is not
\* looked at.
SendCall_AnyState(s) ==
    /\ sent[s] < Count
    /\ Step(s, "user", "expand")
    /\ IntrOff(s)
    /\ UNCHANGED <<vector, heap, sent, old, new, idx, receiver, state, fault>>

\* The system call finds the receiver running, or returns at once.
SendCall(s) ==
    /\ sent[s] < Count
    /\ IF state = "RUNNING" THEN Step(s, "user", "expand") /\ IntrOff(s) /\ UNCHANGED sent
                            ELSE Step(s, "user", "user") /\ UNCHANGED open
                                 /\ sent' = [sent EXCEPT ![s] = @ + 1]
    /\ UNCHANGED <<vector, heap, old, new, idx, receiver, state, fault>>

\* vec_expand_: grow when the next slot does not exist.
Fits(s) ==
    /\ length + 1 <= capacity
    /\ Step(s, "expand", "load")
    /\ UNCHANGED <<vector, heap, open, sender, receiver, state, fault>>

\* realloc of the old buffer looks at its header and releases the lock; a
\* buffer freed meanwhile makes it return NULL, and the assertion fails.
Grow(s) ==
    /\ length + 1 > capacity
    /\ IF data = NULL \/ Live(data)
          THEN Step(s, "expand", "malloc") /\ (IF data = NULL THEN UNCHANGED open ELSE IntrOn(s))
               /\ UNCHANGED fault
          ELSE Step(s, "expand", "dead") /\ IntrOn(s) /\ fault' = TRUE
    /\ old' = [old EXCEPT ![s] = data]
    /\ idx' = [idx EXCEPT ![s] = IF capacity = 0 THEN 1 ELSE capacity * 2]
    /\ UNCHANGED <<vector, heap, sent, new, receiver, state>>

Malloc(s) ==
    /\ Step(s, "malloc", "copy")
    /\ IntrOn(s)
    /\ heap' = Append(heap, [slots |-> [i \in 1 .. idx[s] |-> Junk], live |-> TRUE])
    /\ new' = [new EXCEPT ![s] = Len(heap) + 1]
    /\ UNCHANGED <<vector, sent, old, idx, receiver, state, fault>>

\* Plausible error in realloc: the old contents are not copied.
Copy_Nothing(s) ==
    /\ Step(s, "copy", "free")
    /\ UNCHANGED <<vector, heap, open, sender, receiver, state, fault>>

Copy(s) ==
    /\ Step(s, "copy", "free")
    /\ heap' = IF old[s] = NULL THEN heap
               ELSE [heap EXCEPT ![new[s]].slots =
                        [i \in DOMAIN @ |-> IF i \in DOMAIN heap[old[s]].slots
                                            THEN heap[old[s]].slots[i] ELSE @[i]]]
    /\ UNCHANGED <<vector, open, sender, receiver, state, fault>>

FreeOld(s) ==
    /\ Step(s, "free", "data")
    /\ heap' = Freed(old[s])
    /\ UNCHANGED <<vector, open, sender, receiver, state, fault>>

SetData(s) ==
    /\ Step(s, "data", "capacity")
    /\ data' = new[s]
    /\ UNCHANGED <<length, capacity, heap, open, sender, receiver, state, fault>>

SetCapacity(s) ==
    /\ Step(s, "capacity", "load")
    /\ capacity' = idx[s]
    /\ UNCHANGED <<data, length, heap, open, sender, receiver, state, fault>>

\* data[length++] = *msg: the index is read, then the length and the slot
\* are written in the order that the compiler has chosen.
Load(s) ==
    /\ Step(s, "load", "store")
    /\ idx' = [idx EXCEPT ![s] = length]
    /\ UNCHANGED <<vector, heap, open, sent, old, new, receiver, state, fault>>

WriteSlot(s) ==
    IF Live(data) /\ idx[s] < Len(heap[data].slots)
       THEN /\ heap' = [heap EXCEPT ![data].slots[idx[s] + 1] = <<s, sent[s] + 1>>]
            /\ UNCHANGED fault
       ELSE fault' = TRUE /\ UNCHANGED heap

SendReturns(s) ==
    /\ sent' = [sent EXCEPT ![s] = @ + 1]
    /\ IntrOn(s)

LengthFirst(s) ==
    /\ Step(s, "store", "slot")
    /\ length' = idx[s] + 1
    /\ UNCHANGED <<data, capacity, heap, open, sender, receiver, state, fault>>

SlotLast(s) ==
    /\ Step(s, "slot", "user")
    /\ WriteSlot(s)
    /\ SendReturns(s)
    /\ UNCHANGED <<vector, old, new, idx, receiver, state>>

SlotFirst(s) ==
    /\ Step(s, "store", "length")
    /\ WriteSlot(s)
    /\ UNCHANGED <<vector, open, sender, receiver, state>>

LengthLast(s) ==
    /\ Step(s, "length", "user")
    /\ length' = idx[s] + 1
    /\ SendReturns(s)
    /\ UNCHANGED <<data, capacity, heap, old, new, idx, receiver, state, fault>>

-----------------------------------------------------------------------------
ReceiveCall ==
    /\ Step(Receiver, "user", "test")
    /\ IntrOff(Receiver)
    /\ UNCHANGED <<vector, heap, sender, receiver, state, fault>>

\* The mailbox is empty: force a switch, with interrupts on from now on.
WaitMore ==
    /\ length = 0
    /\ Step(Receiver, "test", "test")
    /\ IntrOn(Receiver)
    /\ UNCHANGED <<vector, heap, sender, receiver, state, fault>>

\* *msg = data[--length]: the length is read, then written, and the data
\* pointer read, in either order; at last the slot is copied.
PopLoad ==
    /\ length > 0
    /\ Step(Receiver, "test", "popped")
    /\ ridx' = length - 1
    /\ UNCHANGED <<vector, heap, open, sender, rdata, received, state, fault>>

PopLength(from, to) ==
    /\ Step(Receiver, from, to)
    /\ length' = ridx
    /\ UNCHANGED <<data, capacity, heap, open, sender, receiver, state, fault>>

PopData(from, to) ==
    /\ Step(Receiver, from, to)
    /\ rdata' = data
    /\ UNCHANGED <<vector, heap, open, sender, ridx, received, state, fault>>

PopCopy ==
    /\ Step(Receiver, "copy", "user")
    /\ received' = Append(received,
                          IF Live(rdata) /\ ridx < Len(heap[rdata].slots)
                          THEN heap[rdata].slots[ridx + 1] ELSE Junk)
    /\ IntrOn(Receiver)
    /\ UNCHANGED <<vector, heap, sender, ridx, rdata, state, fault>>

\* syscall_exit of the receiver.
Exit ==
    /\ Exits
    /\ Step(Receiver, "user", "dead")
    /\ state' = "DEAD"
    /\ UNCHANGED <<vector, heap, open, sender, receiver, fault>>

\* sched_idle frees the mailbox of a task that is dead, once.
Reap ==
    /\ state = "DEAD"
    /\ CanRun(Receiver)
    /\ state' = "REAPED"
    /\ heap' = Freed(data)
    /\ UNCHANGED <<vector, pc, open, sender, receiver, fault>>

SenderStep(s) ==
    \/ SendCall(s) \/ Fits(s) \/ Grow(s) \/ Malloc(s) \/ Copy(s) \/ FreeOld(s)
    \/ SetData(s) \/ SetCapacity(s) \/ Load(s)
    \/ LengthFirst(s) \/ SlotLast(s) \/ SlotFirst(s) \/ LengthLast(s)

ReceiverStep ==
    \/ ReceiveCall \/ WaitMore \/ PopLoad
    \/ PopLength("popped", "length") \/ PopData("length", "copy")
    \/ PopData("popped", "data") \/ PopLength("data", "copy")
    \/ PopCopy

Next == (\E s \in Sender : SenderStep(s)) \/ ReceiverStep \/ Exit \/ Reap

\* Every task is scheduled again and again (see NoStarvation in Sched).
Spec ==
    /\ Init /\ [][Next]_ipcVars
    /\ \A s \in Sender : SF_ipcVars(SenderStep(s))
    /\ SF_ipcVars(ReceiverStep)

-----------------------------------------------------------------------------
\* No message is written outside the live buffer of the vector: not past its
\* end, and not into a buffer that realloc or the reaper has freed.
NoWildWrite == ~fault

\* The messages of the mailbox, as far as no update is under way.
Contents ==
    LET unwritten == Cardinality({s \in Sender : pc[s] = "slot"})
        uncopied == IF pc[Receiver] \in {"length", "copy"} THEN 1 ELSE 0
    IN  IF data = NULL THEN <<>>
        ELSE [i \in 1 .. length - unwritten + uncopied |-> heap[data].slots[i]]

\* The vector's updates implement the mailbox: every message sent to a
\* running receiver is received once, the last one first.
Abstract == INSTANCE Mailbox WITH
    box <- Contents,
    alive <- state = "RUNNING"

Refines == Abstract!MailboxSpec

\* A receiver that does not end gets every message that the senders send.
AllReceived == [](state = "RUNNING") => \A m \in Message : <>(\E i \in 1 .. Len(received) : received[i] = m)

\* pkg/ipc-test: the receiver gets a message that was sent.
Genuine == \A i \in 1 .. Len(received) : received[i] \in Message
=============================================================================
