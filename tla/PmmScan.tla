------------------------------ MODULE PmmScan ------------------------------
(***************************************************************************)
(* pmm_alloc() of kernel/hw/x86_64/pmm.c, one iteration of its loop at a   *)
(* time.  One call runs at a time: the search takes no lock, and what      *)
(* keeps a second one out is the subject of module Kernel.                 *)
(***************************************************************************)
EXTENDS Pmm

VARIABLES
    pc,             \* "idle", or "scan" inside pmm_alloc
    who, size,      \* the caller and its request
    i, range,       \* the locals of pmm_alloc
    atCall          \* history: the allocator's state when the call began

scanVars == <<handover, used, last_index, holds, pc, who, size, i, range, atCall>>

-----------------------------------------------------------------------------
Enough == range.length * PAGE_SIZE >= size
Ended == i >= BitmapLength(handover)

ScanLocals ==
    /\ pc = "idle"
    /\ who \in Client
    /\ size = 0
    /\ i = 0
    /\ range = NoRange
    /\ atCall = [used |-> used, last_index |-> last_index]

ScanInit == pmm_init /\ ScanLocals

Call(c, s) ==
    /\ pc = "idle"
    /\ holds[c] = NoRange
    /\ pc' = "scan"
    /\ who' = c
    /\ size' = s
    /\ i' = last_index
    /\ range' = NoRange
    /\ atCall' = [used |-> used, last_index |-> last_index]
    /\ UNCHANGED <<handover, used, last_index, holds>>

\* Plausible error in the loop: a set bit does not end the run.
Iterate_NoReset ==
    /\ pc = "scan" /\ ~Enough /\ ~Ended
    /\ i' = i + 1
    /\ range' = IF i \in used THEN range
                ELSE [base |-> IF range.length = 0 THEN i ELSE range.base,
                      length |-> range.length + 1]
    /\ UNCHANGED <<handover, used, last_index, holds, pc, who, size, atCall>>

\* range.base keeps its value when the run ends; the next clear bit sets it.
Iterate ==
    /\ pc = "scan" /\ ~Enough /\ ~Ended
    /\ i' = i + 1
    /\ range' = IF i \in used THEN [range EXCEPT !.length = 0]
                ELSE [base |-> IF range.length = 0 THEN i ELSE range.base,
                      length |-> range.length + 1]
    /\ UNCHANGED <<handover, used, last_index, holds, pc, who, size, atCall>>

\* Plausible error in pmm_alloc: last_index is left one page too far.
Found_Late ==
    /\ pc = "scan" /\ Enough
    /\ last_index' = range.base + range.length + 1
    /\ used' = used \cup Pages(range)
    /\ holds' = [holds EXCEPT ![who] = range]
    /\ pc' = "idle"
    /\ UNCHANGED <<handover, who, size, i, range, atCall>>

\* Plausible error in pmm_set_used: the last page of a range is not marked.
Found_OneShort ==
    /\ pc = "scan" /\ Enough
    /\ last_index' = range.base + range.length
    /\ used' = used \cup (range.base .. range.base + range.length - 2)
    /\ holds' = [holds EXCEPT ![who] = range]
    /\ pc' = "idle"
    /\ UNCHANGED <<handover, who, size, i, range, atCall>>

\* The last step of a call: pmm_set_used() marks the range under the lock.
Found ==
    /\ pc = "scan" /\ Enough
    /\ last_index' = range.base + range.length
    /\ used' = used \cup Pages(range)
    /\ holds' = [holds EXCEPT ![who] = range]
    /\ pc' = "idle"
    /\ UNCHANGED <<handover, who, size, i, range, atCall>>

GivesUp == pc = "scan" /\ ~Enough /\ Ended /\ last_index = 0

ReturnNone ==
    /\ GivesUp
    /\ pc' = "idle"
    /\ UNCHANGED <<handover, used, last_index, holds, who, size, i, range, atCall>>

\* Plausible error in the retry: last_index is not reset before the call.
Retry_NoReset ==
    /\ pc = "scan" /\ ~Enough /\ Ended /\ last_index # 0
    /\ i' = last_index
    /\ range' = NoRange
    /\ UNCHANGED <<handover, used, last_index, holds, pc, who, size, atCall>>

\* The recursive call, from the start of the bitmap.
Retry ==
    /\ pc = "scan" /\ ~Enough /\ Ended /\ last_index # 0
    /\ last_index' = 0
    /\ i' = 0
    /\ range' = NoRange
    /\ UNCHANGED <<handover, used, holds, pc, who, size, atCall>>

Free(c) ==
    /\ pc = "idle"
    /\ pmm_free(c)
    /\ UNCHANGED <<pc, who, size, i, range, atCall>>

Returning == Iterate \/ Found \/ ReturnNone \/ Retry

ScanNext ==
    \/ \E c \in Client : Free(c) \/ \E s \in Sizes : Call(c, s)
    \/ Returning

\* The processor goes on with the call it is in.
ScanSpec == ScanInit /\ [][ScanNext]_scanVars /\ WF_scanVars(Returning)

-----------------------------------------------------------------------------
\* The loop, its retry and the marking together do what Pmm says pmm_alloc
\* does in one step: the lowest run that fits from last_index on, else from
\* the start, else NONE; last_index is seen to change only at the return.
Atomic == INSTANCE Pmm WITH
    used <- IF pc = "idle" THEN used ELSE atCall.used,
    last_index <- IF pc = "idle" THEN last_index ELSE atCall.last_index

Refines == Atomic!PmmSpec

\* Every call returns: the retry recurses once.
CallReturns == pc = "scan" ~> pc = "idle"

\* pmm_alloc reports that memory is exhausted only when the bitmap, whose
\* length pmm_init logs in bytes, has no run of clear bits long enough.
NoneOnlyIfExhausted ==
    GivesUp => \A b \in Bits(handover) :
                   LET run == b .. b + CeilDiv(size, PAGE_SIZE) - 1 IN
                   run \subseteq Bits(handover) => run \cap used # {}
=============================================================================
