------------------------------ MODULE Liballoc ------------------------------
(***************************************************************************)
(* The kernel's heap (lib/liballoc/liballoc.c): a list of major blocks,    *)
(* got from the page allocator by liballoc_alloc, each with a list of      *)
(* minor blocks in the order of their addresses, one for each allocation.  *)
(* Each call holds the lock of the heap from start to end, so it is one    *)
(* step; realloc that moves a block is a malloc and then a free, with the  *)
(* lock released in between.                                               *)
(***************************************************************************)
EXTENDS Integers, SequencesExt

CONSTANTS
    Major,          \* sizeof(struct liballoc_major)
    Minor,          \* sizeof(struct liballoc_minor)
    PAD,            \* ALIGNMENT + ALIGN_INFO, added to each request
    PageSize,       \* l_pageSize
    PageCount,      \* l_pageCount: pages in a major block, at least
    Sizes,          \* sizes of requests
    Ids,            \* places where liballoc_alloc finds pages; when they are
                    \* all taken it panics
    NULL

ASSUME LiballocAssumption ==
    /\ Major \in Nat \ {0} /\ Minor \in Nat \ {0} /\ PAD \in Nat
    /\ PageSize \in Nat \ {0} /\ PageCount \in Nat \ {0}
    /\ Sizes \subseteq Nat /\ NULL \notin Ids

VARIABLES
    majors,         \* the list from l_memRoot: id, pages, size, usage, minors
    bestBet,        \* l_bestBet: an id or NULL
    pointers        \* history: what callers hold: id, from, length

heapVars == <<majors, bestBet, pointers>>

-----------------------------------------------------------------------------
Index(id) == CHOOSE i \in DOMAIN majors : majors[i].id = id
Left(m) == m.size - m.usage

\* What an allocation takes from a major block.
Need(req) == req + PAD + Minor

\* The k-th gap of a major block is the one after its k-th minor block.
GapStart(m, k) == IF k = 0 THEN Major ELSE m.minors[k].at + Minor + m.minors[k].size

Gap(m, k) ==
    (IF k = Len(m.minors) THEN m.size ELSE m.minors[k + 1].at) - GapStart(m, k)

\* Case 1 of malloc is passed: there is room, and one gap is large enough.
HasRoom(m, req) ==
    /\ Left(m) >= Need(req)
    /\ \E k \in 0 .. Len(m.minors) : Gap(m, k) >= Need(req)

\* Cases 2 to 4: the new minor block goes to the first such gap.
FirstGap(m, req) ==
    CHOOSE k \in 0 .. Len(m.minors) :
        Gap(m, k) >= Need(req) /\ \A j \in 0 .. k - 1 : Gap(m, j) < Need(req)

\* The room of the alignment, at most PAD, comes before the pointer.
Place(m, req) ==
    LET k == FirstGap(m, req)
        new == [at |-> GapStart(m, k), size |-> req + PAD, req |-> req]
    IN  [m EXCEPT !.minors = InsertAt(@, k + 1, new), !.usage = @ + Need(req)]

PointerIn(m, min) ==
    [id |-> m.id, from |-> min.at + Minor + PAD, length |-> min.req]

\* Plausible error in allocate_new_page: no room is kept for the headers.
NewMajor_NoHeaders(id, req) ==
    LET pages == (req + PAD + PageSize - 1) \div PageSize
        n == IF pages < PageCount THEN PageCount ELSE pages
    IN  [id |-> id, pages |-> n, size |-> n * PageSize, usage |-> Major, minors |-> <<>>]

\* allocate_new_page(): pages for the request and both headers.
NewMajor(id, req) ==
    LET pages == (Need(req) + Major + PageSize - 1) \div PageSize
        n == IF pages < PageCount THEN PageCount ELSE pages
    IN  [id |-> id, pages |-> n, size |-> n * PageSize, usage |-> Major, minors |-> <<>>]

\* The majors in the order malloc looks at them: from the best bet to the
\* end if it has enough left, and then all from the root.
SearchOrder(req) ==
    LET all == [i \in 1 .. Len(majors) |-> i] IN
    IF bestBet # NULL /\ Left(majors[Index(bestBet)]) > Need(req)
       THEN SubSeq(all, Index(bestBet), Len(majors)) \o all
       ELSE all

\* A major that malloc looks at becomes the best bet if it has more left
\* than the best bet had, and than all it has looked at before.
BestOf(seen) ==
    LET before == IF bestBet = NULL THEN 0 ELSE Left(majors[Index(bestBet)])
        Better(i) == /\ Left(seen[i]) > before
                     /\ \A j \in DOMAIN seen :
                           \/ Left(seen[j]) < Left(seen[i])
                           \/ Left(seen[j]) = Left(seen[i]) /\ i <= j
    IN  IF \E i \in DOMAIN seen : Better(i)
           THEN seen[CHOOSE i \in DOMAIN seen : Better(i)].id ELSE bestBet

Seen(order, n) == [j \in 1 .. n |-> majors[order[j]]]

\* malloc() finds room in a major block it has.
MallocFits(req) ==
    LET order == SearchOrder(req) IN
    \E n \in DOMAIN order :
        /\ HasRoom(majors[order[n]], req)
        /\ \A j \in 1 .. n - 1 : ~HasRoom(majors[order[j]], req)
        /\ LET i == order[n]
               m == Place(majors[i], req)
           IN  /\ majors' = [majors EXCEPT ![i] = m]
               /\ pointers' = pointers \cup {PointerIn(m, m.minors[FirstGap(majors[i], req) + 1])}
        /\ bestBet' = BestOf(Seen(order, n))

\* malloc() adds a major block at the end of the list.  It looks at it again,
\* as at any other, unless it has got it because the last had not enough left.
MallocGrows(req) ==
    LET order == SearchOrder(req)
        seen == Seen(order, Len(order))
    IN  /\ \A j \in DOMAIN order : ~HasRoom(majors[order[j]], req)
        /\ \E id \in Ids \ {majors[i].id : i \in DOMAIN majors} :
              LET new == NewMajor(id, req)
                  m == [new EXCEPT !.minors = <<[at |-> Major, size |-> req + PAD, req |-> req]>>,
                                   !.usage = @ + Need(req)]
              IN  /\ majors' = Append(majors, m)
                  /\ pointers' = pointers \cup {PointerIn(m, m.minors[1])}
                  /\ bestBet' = IF majors # <<>> /\ Left(Last(majors)) < Need(req)
                                   THEN BestOf(seen) ELSE BestOf(Append(seen, new))

\* Plausible error in free: l_bestBet is left on the block that is given back.
FreeMajor_KeepBet(i) ==
    /\ majors' = RemoveAt(majors, i)
    /\ UNCHANGED bestBet

\* The last minor block of a major is freed: its pages are given back.
FreeMajor(i) ==
    /\ majors' = RemoveAt(majors, i)
    /\ bestBet' = IF bestBet = majors[i].id THEN NULL ELSE bestBet

\* Plausible error in free: the header is not given back.
FreeMinor_KeepHeader(i, k) ==
    LET m == [majors[i] EXCEPT !.minors = RemoveAt(@, k),
                               !.usage = @ - majors[i].minors[k].size]
    IN  /\ majors' = [majors EXCEPT ![i] = m]
        /\ bestBet' = IF bestBet # NULL /\ Left(m) > Left(majors'[Index(bestBet)])
                         THEN m.id ELSE bestBet

\* Plausible error in free: maj->first is set although the block has a prev.
FreeMinor_DropBefore(i, k) ==
    LET m == [majors[i] EXCEPT !.minors = SubSeq(@, k + 1, Len(@)),
                               !.usage = @ - majors[i].minors[k].size - Minor]
    IN  /\ majors' = [majors EXCEPT ![i] = m]
        /\ bestBet' = bestBet

\* Any other block: it is unlinked, and its major may become the best bet.
FreeMinor(i, k) ==
    LET m == [majors[i] EXCEPT !.minors = RemoveAt(@, k),
                               !.usage = @ - majors[i].minors[k].size - Minor]
    IN  /\ majors' = [majors EXCEPT ![i] = m]
        /\ bestBet' = IF bestBet # NULL /\ Left(m) > Left(majors'[Index(bestBet)])
                         THEN m.id ELSE bestBet

free(i, k) ==
    /\ IF Len(majors[i].minors) = 1 THEN FreeMajor(i) ELSE FreeMinor(i, k)
    /\ pointers' = pointers \ {PointerIn(majors[i], majors[i].minors[k])}

\* Plausible error in realloc: a block is kept without a look at its size.
realloc_Shrinks_AnySize(i, k, req) ==
    LET m == [majors[i] EXCEPT !.minors[k].req = req] IN
    /\ majors' = [majors EXCEPT ![i] = m]
    /\ pointers' = (pointers \ {PointerIn(majors[i], majors[i].minors[k])})
                        \cup {PointerIn(m, m.minors[k])}
    /\ UNCHANGED bestBet

\* realloc() to a size that is not larger: only the size requested changes.
realloc_Shrinks(i, k, req) ==
    LET m == [majors[i] EXCEPT !.minors[k].req = req] IN
    /\ majors[i].minors[k].req >= req
    /\ majors' = [majors EXCEPT ![i] = m]
    /\ pointers' = (pointers \ {PointerIn(majors[i], majors[i].minors[k])})
                        \cup {PointerIn(m, m.minors[k])}
    /\ UNCHANGED bestBet

malloc(req) == MallocFits(req) \/ MallocGrows(req)

Init == majors = <<>> /\ bestBet = NULL /\ pointers = {}

Next ==
    \/ \E req \in Sizes : malloc(req)
    \/ \E i \in DOMAIN majors : \E k \in DOMAIN majors[i].minors :
          free(i, k) \/ \E req \in Sizes \ {0} : realloc_Shrinks(i, k, req)

Spec == Init /\ [][Next]_heapVars

-----------------------------------------------------------------------------
\* The callers' view: blocks in use never overlap, whatever is allocated,
\* freed and shrunk before.
Abstract == INSTANCE Heap WITH blocks <- pointers
Refines == Abstract!HeapSpec

\* The minor blocks of a major lie behind its header, one after the other,
\* inside its pages: no write to a block, and no header, damages another.
MinorsInOrder ==
    \A i \in DOMAIN majors : LET m == majors[i] IN
        /\ \A k \in 0 .. Len(m.minors) : Gap(m, k) >= 0
        /\ \A k \in DOMAIN m.minors :
              m.minors[k].req + PAD <= m.minors[k].size
              /\ m.minors[k].at + Minor + m.minors[k].size <= m.pages * PageSize

\* What the heap has listed is what the callers hold: no block is lost.
ListsAllPointers ==
    pointers = UNION {{PointerIn(majors[i], majors[i].minors[k]) :
                          k \in DOMAIN majors[i].minors} : i \in DOMAIN majors}

\* What the minor blocks of a major take, their headers included.
Taken(minors) ==
    LET taken[k \in 0 .. Len(minors)] ==
            IF k = 0 THEN 0 ELSE taken[k - 1] + Minor + minors[k].size
    IN  taken[Len(minors)]

\* The usage of a major is the sum of its headers and blocks: what malloc
\* takes for free is free, and what is free is found.
UsageExact == \A i \in DOMAIN majors : majors[i].usage = Major + Taken(majors[i].minors)

\* l_bestBet never points to pages that have been given back, and no pages
\* are kept that no block lies in.
BestBetListed ==
    /\ bestBet # NULL => \E i \in DOMAIN majors : majors[i].id = bestBet
    /\ \A i \in DOMAIN majors : majors[i].minors # <<>>
=============================================================================
