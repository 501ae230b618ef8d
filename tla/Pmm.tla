-------------------------------- MODULE Pmm --------------------------------
(***************************************************************************)
(* The physical page allocator (kernel/hw/x86_64/pmm.c, navy/bitmap.c): a  *)
(* bitmap with a bit for each page, searched next-fit from last_index.     *)
(* Every operation is one step here, given by what it returns; module      *)
(* PmmScan runs the search loop of pmm_alloc and implements this one.      *)
(*                                                                         *)
(* Pages are the unit of addresses and ranges.  bitmap.length is a number  *)
(* of bytes that pmm_alloc takes for a number of bits, so that only the    *)
(* pages below bitmap.length are ever handed out: this is the code's, and  *)
(* the model keeps it.                                                     *)
(***************************************************************************)
EXTENDS Integers, Sequences

CONSTANTS
    Handovers,      \* memory maps the boot loader may hand over
    Client,         \* callers of pmm_alloc: each holds a range at most
    BITS,           \* bits in a byte of the bitmap
    PAGE_SIZE,      \* bytes in a page
    Sizes           \* sizes of requests, in bytes

\* The entries of the map, in pages: aligned by the loader, in the order of
\* their addresses, the usable ones disjoint from all others.
MemmapOK(h) ==
    /\ h \in Seq([base : Nat, length : Nat, usable : BOOLEAN])
    /\ h # <<>>
    /\ \A i \in 1 .. Len(h) : h[i].base + h[i].length <= h[Len(h)].base + h[Len(h)].length
    /\ \A i, j \in 1 .. Len(h) :
          i < j /\ (h[i].usable \/ h[j].usable) => h[i].base + h[i].length <= h[j].base

ASSUME PmmAssumption ==
    /\ BITS \in Nat \ {0} /\ PAGE_SIZE \in Nat \ {0} /\ Sizes \subseteq Nat
    /\ \A h \in Handovers : MemmapOK(h)

VARIABLES
    handover,       \* the memory map found at boot
    used,           \* the bits of the bitmap that are set
    last_index,     \* where the next search starts
    holds           \* the range each client has been given and not freed

pmmVars == <<handover, used, last_index, holds>>

-----------------------------------------------------------------------------
CeilDiv(a, b) == (a + b - 1) \div b

Pages(r) == r.base .. r.base + r.length - 1

NoRange == [base |-> 0, length |-> 0]

\* bitmap.length, in bytes, and the pages these take.
BitmapLength(h) == (h[Len(h)].base + h[Len(h)].length) \div BITS
BitmapPages(h) == CeilDiv(BitmapLength(h), PAGE_SIZE)

Bits(h) == 0 .. BitmapLength(h) * BITS - 1

Roomy(h, i) == h[i].usable /\ h[i].length * PAGE_SIZE >= BitmapLength(h)

\* pmm_init() puts the bitmap at the start of the first usable entry that is
\* large enough, and panics when there is none.
HoldsBitmap(h, i) == Roomy(h, i) /\ \A j \in 1 .. i - 1 : ~Roomy(h, j)

\* The pages whose bits pmm_init() clears: all usable memory but the bitmap.
FreedAtInit(h) ==
    {p \in UNION {Pages(h[i]) : i \in {j \in 1 .. Len(h) : h[j].usable}} :
        \A i \in 1 .. Len(h) :
            HoldsBitmap(h, i) => p \notin h[i].base .. h[i].base + BitmapPages(h) - 1}

\* The whole pages of the bitmap, which pmm_init() marks at last; a page that
\* the bitmap fills in part stays marked since it was never freed.
MarkedAtInit(h) ==
    {p \in Bits(h) :
        \E i \in 1 .. Len(h) :
            HoldsBitmap(h, i) /\ p \in h[i].base .. h[i].base + (BitmapLength(h) \div PAGE_SIZE) - 1}

InitialUsed(h) == (Bits(h) \ FreedAtInit(h)) \cup MarkedAtInit(h)

pmm_init ==
    /\ handover \in {h \in Handovers : \E i \in 1 .. Len(h) : HoldsBitmap(h, i)}
    /\ used = InitialUsed(handover)
    /\ last_index = 0
    /\ holds = [c \in Client |-> NoRange]

-----------------------------------------------------------------------------
\* n clear bits from b on, where a search from `from' can see them.
Fits(from, n, b) ==
    /\ b >= from
    /\ b + n <= BitmapLength(handover)
    /\ b .. b + n - 1 \cap used = {}

FirstFit(from, n, b) ==
    Fits(from, n, b) /\ \A a \in from .. b - 1 : ~Fits(from, n, a)

NoFit(from, n) == \A b \in from .. BitmapLength(handover) : ~Fits(from, n, b)

Grant(c, b, n) ==
    /\ last_index' = b + n
    /\ used' = used \cup (b .. b + n - 1)
    /\ holds' = [holds EXCEPT ![c] = [base |-> b, length |-> n]]

\* The search finds a range before it reaches the end, ...
AllocAhead(c, n) ==
    \E b \in last_index .. BitmapLength(handover) :
        FirstFit(last_index, n, b) /\ Grant(c, b, n)

\* ... or only from the start, ...
AllocAgain(c, n) ==
    /\ NoFit(last_index, n)
    /\ \E b \in 0 .. BitmapLength(handover) : FirstFit(0, n, b) /\ Grant(c, b, n)

\* ... or not at all: the result is NONE.
AllocNone(c, n) ==
    /\ NoFit(last_index, n)
    /\ NoFit(0, n)
    /\ last_index' = 0
    /\ UNCHANGED <<used, holds>>

\* A request of no byte is granted page 0 with no length, without a search.
pmm_alloc(c, size) ==
    /\ holds[c] = NoRange
    /\ LET n == CeilDiv(size, PAGE_SIZE) IN
          IF n = 0 THEN Grant(c, 0, 0)
                   ELSE AllocAhead(c, n) \/ AllocAgain(c, n) \/ AllocNone(c, n)
    /\ UNCHANGED handover

\* Plausible error in pmm_free: the loop stops one page short.
pmm_free_OneShort(c) ==
    /\ holds[c] # NoRange
    /\ used' = used \ (holds[c].base .. holds[c].base + holds[c].length - 2)
    /\ holds' = [holds EXCEPT ![c] = NoRange]
    /\ UNCHANGED <<handover, last_index>>

\* liballoc_free gives back a range as it was allocated.
pmm_free(c) ==
    /\ holds[c] # NoRange
    /\ used' = used \ Pages(holds[c])
    /\ holds' = [holds EXCEPT ![c] = NoRange]
    /\ UNCHANGED <<handover, last_index>>

PmmNext ==
    \E c \in Client : pmm_free(c) \/ \E size \in Sizes : pmm_alloc(c, size)

PmmSpec == pmm_init /\ [][PmmNext]_pmmVars

-----------------------------------------------------------------------------
\* Types: in particular a search never starts past the end of the bitmap.
PmmTypeOK ==
    /\ handover \in Handovers
    /\ used \subseteq Bits(handover)
    /\ last_index \in 0 .. BitmapLength(handover)
    /\ holds \in [Client -> [base : Nat, length : Nat]]

\* No page is given to two callers at once, in whatever order they allocate,
\* free and allocate again.
ExclusivePages ==
    \A c, d \in Client : c # d => Pages(holds[c]) \cap Pages(holds[d]) = {}

\* A caller is only given usable memory, and never a page of the bitmap:
\* writing to its pages cannot damage the allocator.
OnlyUsablePages ==
    \A c \in Client : \A p \in Pages(holds[c]) :
        /\ \E i \in 1 .. Len(handover) : handover[i].usable /\ p \in Pages(handover[i])
        /\ \A i \in 1 .. Len(handover) :
              HoldsBitmap(handover, i) =>
                  p \notin handover[i].base .. handover[i].base + BitmapPages(handover) - 1

\* No page is lost: a bit is set exactly when pmm_init left it so or a
\* caller holds the page.
NoLostPage ==
    \A p \in Bits(handover) :
        p \in used <=> p \in InitialUsed(handover) \/ \E c \in Client : p \in Pages(holds[c])
=============================================================================
