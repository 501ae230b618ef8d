----------------------------- MODULE BootProofs -----------------------------
(***************************************************************************)
(* What is proved of the page allocator and of the boot, for every list of *)
(* tags, any number of callers and requests of any size. No page has two   *)
(* owners, none is lost, and only usable memory outside the bitmap is      *)
(* handed out. The search of pmm_alloc, taken one bit of the bitmap at a   *)
(* time, does what module Pmm says in one step. The bitmap that it begins  *)
(* with, which pmm_init() works out in bytes from the tags, is the one of  *)
(* module Pmm. And the program that the boot loads has what its file       *)
(* holds.                                                                  *)
(***************************************************************************)
EXTENDS Boot, SequenceTheorems, WellFoundedInduction, TLAPS

-----------------------------------------------------------------------------
(* The calls of the allocator *)

\* The pages of a caller were free when pmm_init ended.
HeldWasFree ==
    \A c \in Client : Pages(holds[c]) \subseteq Bits(handover) \ InitialUsed(handover)

PmmInv == PmmTypeOK /\ HeldWasFree /\ ExclusivePages /\ NoLostPage

-----------------------------------------------------------------------------
LEMMA BitmapLengthType ==
    ASSUME NEW h \in Handovers
    PROVE  BitmapLength(h) \in Nat
<1>1. h \in Seq([base : Nat, length : Nat, usable : BOOLEAN]) /\ h # <<>>
  BY PmmAssumption DEF MemmapOK
<1>2. Len(h) \in 1 .. Len(h)
  BY <1>1
<1>3. h[Len(h)] \in [base : Nat, length : Nat, usable : BOOLEAN]
  BY <1>1, <1>2, ElementOfSeq
<1> DEFINE end == h[Len(h)].base + h[Len(h)].length
<1>4. end \in Nat
  BY <1>3
<1> HIDE DEF end
<1>5. end \div BITS \in Nat
  BY <1>4, PmmAssumption
<1> QED  BY <1>5 DEF BitmapLength, end

\* The pages that a search reaches have a bit.
LEMMA SearchedBits ==
    ASSUME NEW h \in Handovers
    PROVE  0 .. BitmapLength(h) - 1 \subseteq Bits(h)
<1>1. \A l \in Nat : \A b \in Nat \ {0} : l <= l * b
  BY SMT
<1> QED  BY <1>1, BitmapLengthType, PmmAssumption DEF Bits

LEMMA CeilDivType ==
    ASSUME NEW bytes \in Nat
    PROVE  CeilDiv(bytes, PAGE_SIZE) \in Nat
<1> DEFINE s == bytes + PAGE_SIZE - 1
<1>1. s \in Nat
  BY PmmAssumption
<1> HIDE DEF s
<1>2. s \div PAGE_SIZE \in Nat
  BY <1>1, PmmAssumption
<1> QED  BY <1>2 DEF CeilDiv, s

\* A caller that holds a range of clear bits holds pages that nobody had.
LEMMA GrantInv ==
    ASSUME PmmInv, UNCHANGED handover,
           NEW c \in Client, holds[c] = NoRange,
           NEW b \in Nat, NEW n \in Nat, b + n <= BitmapLength(handover),
           b .. b + n - 1 \cap used = {}, Grant(c, b, n)
    PROVE  PmmInv'
<1> USE DEF PmmInv, PmmTypeOK
<1> DEFINE Given == b .. b + n - 1
<1>1. handover \in Handovers /\ BitmapLength(handover) \in Nat
  BY BitmapLengthType
<1>2. Given \subseteq Bits(handover)
  BY <1>1, SearchedBits
<1>3. /\ \A d \in Client : d # c => holds'[d] = holds[d]
      /\ holds'[c] = [base |-> b, length |-> n]
      /\ used' = used \cup Given
      /\ last_index' = b + n
      /\ Bits(handover)' = Bits(handover)
      /\ InitialUsed(handover)' = InitialUsed(handover)
  BY DEF Grant
<1>4. Pages(holds'[c]) = Given
  BY <1>3 DEF Pages
<1>5. Pages(holds[c]) = {}
  BY DEF Pages, NoRange
<1>6. Given \cap InitialUsed(handover) = {}
  BY <1>2 DEF NoLostPage
<1>7. \A d \in Client : Pages(holds[d]) \cap Given = {}
  BY <1>2 DEF NoLostPage
<1> HIDE DEF Given
<1>8. PmmTypeOK'
  BY <1>1, <1>2, <1>3 DEF Grant
<1>9. HeldWasFree'
  BY <1>2, <1>3, <1>4, <1>6 DEF HeldWasFree
<1>10. ExclusivePages'
  BY <1>3, <1>4, <1>7 DEF ExclusivePages
<1>11. NoLostPage'
  <2> SUFFICES ASSUME NEW p \in Bits(handover)
               PROVE  p \in used' <=> \/ p \in InitialUsed(handover)
                                      \/ \E d \in Client : p \in Pages(holds'[d])
    BY <1>3 DEF NoLostPage
  <2>1. p \in used <=> p \in InitialUsed(handover) \/ \E d \in Client : p \in Pages(holds[d])
    BY DEF NoLostPage
  <2>2. (\E d \in Client : p \in Pages(holds'[d])) <=>
            p \in Given \/ \E d \in Client : p \in Pages(holds[d])
    BY <1>3, <1>4, <1>5
  <2> QED  BY <1>3, <2>1, <2>2
<1> QED  BY <1>8, <1>9, <1>10, <1>11

LEMMA AllocInv ==
    ASSUME PmmInv, NEW c \in Client, NEW bytes \in Sizes, pmm_alloc(c, bytes)
    PROVE  PmmInv'
<1> DEFINE n == CeilDiv(bytes, PAGE_SIZE)
<1>1. handover \in Handovers /\ BitmapLength(handover) \in Nat /\ last_index \in Nat
  BY BitmapLengthType DEF PmmInv, PmmTypeOK
<1>2. n \in Nat
  BY CeilDivType, PmmAssumption
<1>3. holds[c] = NoRange /\ UNCHANGED handover
  BY DEF pmm_alloc
<1> HIDE DEF n
<1>4. ASSUME NEW b \in Nat, NEW from \in Nat, Fits(from, n, b), Grant(c, b, n)
      PROVE  PmmInv'
  BY <1>2, <1>3, <1>4, GrantInv DEF Fits
<1>5. CASE n = 0 /\ Grant(c, 0, 0)
  <2>1. 0 .. 0 + 0 - 1 \cap used = {}
    OBVIOUS
  <2> QED  BY <1>1, <1>3, <1>5, <2>1, GrantInv
<1>6. CASE AllocAhead(c, n)
  <2>1. PICK b \in last_index .. BitmapLength(handover) :
            FirstFit(last_index, n, b) /\ Grant(c, b, n)
    BY <1>6 DEF AllocAhead
  <2> QED  BY <1>1, <1>4, <2>1 DEF FirstFit
<1>7. CASE AllocAgain(c, n)
  <2>1. PICK b \in 0 .. BitmapLength(handover) : FirstFit(0, n, b) /\ Grant(c, b, n)
    BY <1>7 DEF AllocAgain
  <2> QED  BY <1>1, <1>4, <2>1 DEF FirstFit
<1>8. CASE AllocNone(c, n)
  BY <1>1, <1>3, <1>8 DEF AllocNone, PmmInv, PmmTypeOK, HeldWasFree, ExclusivePages, NoLostPage
<1> QED  BY <1>5, <1>6, <1>7, <1>8 DEF pmm_alloc, n

LEMMA FreeInv ==
    ASSUME PmmInv, NEW c \in Client, pmm_free(c)
    PROVE  PmmInv'
<1> USE DEF PmmInv, PmmTypeOK
<1>1. /\ \A d \in Client : d # c => holds'[d] = holds[d]
      /\ holds'[c] = NoRange
      /\ used' = used \ Pages(holds[c])
      /\ UNCHANGED <<handover, last_index>>
  BY DEF pmm_free
<1>2. Pages(holds'[c]) = {}
  BY <1>1 DEF Pages, NoRange
<1>3. PmmTypeOK'
  BY <1>1 DEF pmm_free, NoRange
<1>4. HeldWasFree' /\ ExclusivePages'
  BY <1>1, <1>2 DEF HeldWasFree, ExclusivePages
<1>5. NoLostPage'
  <2> SUFFICES ASSUME NEW p \in Bits(handover)
               PROVE  p \in used' <=> \/ p \in InitialUsed(handover)
                                      \/ \E d \in Client : p \in Pages(holds'[d])
    BY <1>1 DEF NoLostPage
  <2>1. p \in used <=> p \in InitialUsed(handover) \/ \E d \in Client : p \in Pages(holds[d])
    BY DEF NoLostPage
  <2>2. CASE p \in Pages(holds[c])
    BY <1>1, <1>2, <2>2 DEF HeldWasFree, ExclusivePages
  <2>3. CASE p \notin Pages(holds[c])
    BY <1>1, <1>2, <2>1, <2>3
  <2> QED  BY <2>2, <2>3
<1> QED  BY <1>3, <1>4, <1>5

LEMMA PmmInitInv == pmm_init => PmmInv
<1> SUFFICES ASSUME pmm_init
             PROVE  PmmInv
  OBVIOUS
<1>1. handover \in Handovers /\ BitmapLength(handover) \in Nat
  BY BitmapLengthType DEF pmm_init
<1>2. \A c \in Client : holds[c] = NoRange /\ Pages(holds[c]) = {}
  BY DEF pmm_init, Pages, NoRange
<1>3. InitialUsed(handover) \subseteq Bits(handover)
  BY DEF InitialUsed, MarkedAtInit
<1>4. PmmTypeOK
  BY <1>1, <1>3 DEF pmm_init, PmmTypeOK, NoRange
<1>5. HeldWasFree /\ ExclusivePages
  BY <1>2 DEF HeldWasFree, ExclusivePages
<1>6. NoLostPage
  BY <1>2 DEF NoLostPage, pmm_init
<1> QED  BY <1>4, <1>5, <1>6 DEF PmmInv

LEMMA PmmNextInv == PmmInv /\ [PmmNext]_pmmVars => PmmInv'
<1>1. ASSUME PmmInv, UNCHANGED pmmVars
      PROVE  PmmInv'
  BY <1>1 DEF pmmVars, PmmInv, PmmTypeOK, HeldWasFree, ExclusivePages, NoLostPage
<1> QED  BY <1>1, AllocInv, FreeInv DEF PmmNext

\* What the inductive invariant is for.
LEMMA PmmInvFacts == PmmInv => PmmTypeOK /\ ExclusivePages /\ OnlyUsablePages /\ NoLostPage
BY DEF PmmInv, HeldWasFree, InitialUsed, FreedAtInit, OnlyUsablePages

\* The inductive invariant holds in every reachable state.
THEOREM PmmInvariance == PmmSpec => []PmmInv
BY PmmInitInv, PmmNextInv, PTL DEF PmmSpec

\* A search never starts past the end of the bitmap.
THEOREM PmmTypes == PmmSpec => []PmmTypeOK
BY PmmInvFacts, PmmInvariance, PTL

\* Whatever the callers allocate and free, no page is given to two of them.
THEOREM PmmNoDoubleAllocation == PmmSpec => []ExclusivePages
BY PmmInvFacts, PmmInvariance, PTL

\* No page is lost and none is free while a caller holds it.
THEOREM PmmNoLeak == PmmSpec => []NoLostPage
BY PmmInvFacts, PmmInvariance, PTL

\* On every memory map, pmm_init leaves clear only bits of usable pages that
\* the bitmap does not fill, so only these are handed out, although it marks
\* the bitmap's own pages with a length rounded down.
THEOREM PmmHandsOutUsable == PmmSpec => []OnlyUsablePages
BY PmmInvFacts, PmmInvariance, PTL

-----------------------------------------------------------------------------
(* The search and the boot *)

\* The pages that a request asks for, and the bits that the search may read.
Wanted == CeilDiv(size, PAGE_SIZE)
Limit == BitmapLength(handover)

ScanTypeOK ==
    /\ pc \in {"idle", "scan"}
    /\ who \in Client
    /\ size \in Nat
    /\ i \in Nat
    /\ range \in [base : Nat, length : Nat]

\* In the loop, range is the run of clear bits that ends at i, as long as it
\* is not long enough, and no run that starts before it is.
RunEndsHere ==
    /\ i \in last_index .. Limit
    /\ range.length <= Wanted
    /\ size = 0 => range = NoRange
    /\ range.length > 0 =>
          /\ range.base >= last_index
          /\ range.base + range.length = i
          /\ Pages(range) \cap used = {}
    /\ \A b \in last_index .. i - range.length - 1 : ~Fits(last_index, Wanted, b)

\* Nothing that the search reads has changed since the call, and when it runs
\* from the start, it has found nothing from the caller's last_index on.
AsAtCall ==
    /\ atCall.used = used
    /\ atCall.last_index \in 0 .. Limit
    /\ \/ last_index = atCall.last_index
       \/ last_index = 0 /\ NoFit(atCall.last_index, Wanted)

Searching == pc = "scan" => holds[who] = NoRange /\ size \in Sizes /\ RunEndsHere /\ AsAtCall

ScanInv == PmmInv /\ ScanTypeOK /\ Searching
-----------------------------------------------------------------------------
\* A run is long enough exactly when it has the pages that are wanted.
LEMMA CeilDivBound ==
    ASSUME NEW s \in Nat, NEW l \in Nat
    PROVE  l * PAGE_SIZE >= s <=> l >= CeilDiv(s, PAGE_SIZE)
<1> DEFINE a == s + PAGE_SIZE - 1
           q == a \div PAGE_SIZE
<1>1. a \in Nat /\ PAGE_SIZE \in Nat \ {0}
  BY PmmAssumption
<1> HIDE DEF a
<1>2. /\ q \in Nat
      /\ q * PAGE_SIZE <= a
      /\ a < (q + 1) * PAGE_SIZE
  BY <1>1, SMTT(60)
<1> HIDE DEF q
<1>3. \A x, y \in Nat : x < y => (x + 1) * PAGE_SIZE <= y * PAGE_SIZE
  BY <1>1, SMTT(60)
<1>4. ASSUME l >= q
      PROVE  l * PAGE_SIZE >= s
  <2>1. q * PAGE_SIZE <= l * PAGE_SIZE
    BY <1>1, <1>2, <1>4, SMTT(60)
  <2>2. q * PAGE_SIZE >= s
    BY <1>1, <1>2, SMTT(60) DEF a
  <2> QED  BY <1>1, <1>2, <2>1, <2>2, SMTT(60)
<1>5. ASSUME l < q
      PROVE  l * PAGE_SIZE < s
  <2>1. (l + 1) * PAGE_SIZE <= q * PAGE_SIZE
    BY <1>2, <1>3, <1>5
  <2> QED  BY <1>1, <1>2, <2>1, SMTT(60) DEF a
<1> QED  BY <1>1, <1>2, <1>4, <1>5 DEF CeilDiv, q, a

LEMMA ScanBasics ==
    ASSUME ScanInv
    PROVE  /\ handover \in Handovers
           /\ Limit \in Nat
           /\ Wanted \in Nat
           /\ last_index \in 0 .. Limit
           /\ used \subseteq Bits(handover)
           /\ Enough <=> range.length >= Wanted
<1> USE DEF ScanInv, PmmInv, PmmTypeOK, ScanTypeOK
<1>1. handover \in Handovers /\ Limit \in Nat
  BY BitmapLengthType DEF Limit
<1>2. Wanted \in Nat
  BY CeilDivType DEF Wanted
<1>3. Enough <=> range.length >= Wanted
  BY CeilDivBound DEF Wanted, Enough
<1> QED  BY <1>1, <1>2, <1>3 DEF Limit

LEMMA PmmSame == PmmInv /\ UNCHANGED pmmVars => PmmInv'
BY PmmNextInv

LEMMA ScanInitInv == ScanInit => ScanInv
BY PmmInitInv DEF ScanInit, ScanLocals, ScanInv, ScanTypeOK, Searching, NoRange

LEMMA CallInv ==
    ASSUME ScanInv, NEW c \in Client, NEW s \in Sizes, Call(c, s)
    PROVE  ScanInv'
<1>1. PmmInv'
  BY PmmSame DEF ScanInv, Call, pmmVars
<1>2. ScanTypeOK' /\ (size \in Sizes)' /\ (holds[who] = NoRange)'
  BY PmmAssumption DEF ScanInv, ScanTypeOK, PmmInv, PmmTypeOK, Call, NoRange
<1>3. /\ last_index \in 0 .. Limit
      /\ Limit' = Limit /\ Limit \in Nat
      /\ Wanted' \in Nat
  BY <1>2, ScanBasics, CeilDivType DEF Call, Limit, Wanted, ScanTypeOK
<1>4. RunEndsHere'
  BY <1>3 DEF RunEndsHere, Call, NoRange
<1>5. AsAtCall'
  BY <1>3 DEF AsAtCall, Call
<1> QED  BY <1>1, <1>2, <1>4, <1>5 DEF ScanInv, Searching

LEMMA IterateInv ==
    ASSUME ScanInv, Iterate
    PROVE  ScanInv'
<1>1. PmmInv' /\ UNCHANGED <<Limit, Wanted, last_index, used, handover, size, holds, who, pc, atCall>>
  BY PmmSame DEF ScanInv, Iterate, pmmVars, Limit, Wanted
<1>2. /\ Limit \in Nat /\ Wanted \in Nat /\ last_index \in 0 .. Limit
      /\ range \in [base : Nat, length : Nat]
      /\ i \in last_index .. Limit /\ i < Limit /\ i' = i + 1
      /\ range.length < Wanted
      /\ size # 0
  <2>1. pc = "scan" /\ RunEndsHere /\ ~Enough /\ ~Ended /\ i' = i + 1
    BY DEF Iterate, ScanInv, Searching
  <2>2. size # 0
    BY <2>1, PmmAssumption DEF RunEndsHere, Enough, NoRange
  <2> QED  BY <2>1, <2>2, ScanBasics DEF RunEndsHere, Ended, Limit, ScanInv, ScanTypeOK
<1>3. /\ RunEndsHere /\ AsAtCall /\ holds[who] = NoRange /\ size \in Sizes
      /\ range' = IF i \in used THEN [range EXCEPT !.length = 0]
                  ELSE [base |-> IF range.length = 0 THEN i ELSE range.base,
                        length |-> range.length + 1]
  BY DEF Iterate, ScanInv, Searching
<1>4. ScanTypeOK'
  BY <1>1, <1>2, <1>3 DEF ScanInv, ScanTypeOK
<1>5. RunEndsHere'
  <2>1. CASE i \in used
    <3>1. range'.length = 0 /\ range' \in [base : Nat, length : Nat]
      BY <1>2, <1>3, <2>1
    <3>2. ASSUME NEW b \in last_index .. i
          PROVE  ~Fits(last_index, Wanted, b)
      <4>1. CASE b < i - range.length
        BY <1>2, <1>3, <4>1 DEF RunEndsHere
      <4>2. CASE b >= i - range.length
        <5>1. i \in b .. b + Wanted - 1
          BY <1>2, <4>2
        <5> QED  BY <2>1, <5>1 DEF Fits
      <4> QED  BY <1>2, <4>1, <4>2
    <3> QED  BY <1>1, <1>2, <3>1, <3>2 DEF RunEndsHere, Fits, Limit
  <2>2. CASE i \notin used
    <3>1. /\ range'.length = range.length + 1
          /\ range'.base = IF range.length = 0 THEN i ELSE range.base
      BY <1>3, <2>2
    <3>2. i' - range'.length - 1 = i - range.length - 1
      BY <1>2, <3>1
    <3>3. \A b \in last_index .. i - range.length - 1 : ~Fits(last_index, Wanted, b)'
      BY <1>1, <1>3 DEF RunEndsHere, Fits
    <3>4. Pages(range)' \cap used = {}
      <4>1. ASSUME NEW p \in Pages(range)'
            PROVE  p \notin used
        <5>1. CASE range.length = 0
          BY <1>2, <2>2, <3>1, <4>1, <5>1 DEF Pages
        <5>2. CASE range.length > 0
          <6>1. p = i \/ p \in Pages(range)
            BY <1>2, <1>3, <3>1, <4>1, <5>2 DEF Pages, RunEndsHere
          <6> QED  BY <1>3, <2>2, <5>2, <6>1 DEF RunEndsHere
        <5> QED  BY <1>2, <5>1, <5>2
      <4> QED  BY <4>1
    <3>5. range'.base >= last_index /\ range'.base + range'.length = i'
      BY <1>2, <1>3, <3>1 DEF RunEndsHere
    <3> QED  BY <1>1, <1>2, <3>1, <3>2, <3>3, <3>4, <3>5 DEF RunEndsHere
  <2> QED  BY <2>1, <2>2
<1>6. AsAtCall'
  BY <1>1, <1>3 DEF AsAtCall, NoFit, Fits
<1> QED  BY <1>1, <1>3, <1>4, <1>5, <1>6 DEF ScanInv, Searching

\* The run that the search stops at is the lowest that is long enough.
LEMMA FoundFirst ==
    ASSUME ScanInv, pc = "scan", Enough, Wanted # 0
    PROVE  /\ range.length = Wanted
           /\ range.base \in last_index .. Limit
           /\ FirstFit(last_index, Wanted, range.base)
<1>1. /\ Limit \in Nat /\ Wanted \in Nat /\ last_index \in 0 .. Limit
      /\ range \in [base : Nat, length : Nat]
      /\ RunEndsHere
  BY ScanBasics DEF ScanInv, ScanTypeOK, Searching
<1>2. range.length = Wanted /\ i \in last_index .. Limit
  BY <1>1, ScanBasics DEF RunEndsHere
<1>3. /\ range.base >= last_index
      /\ range.base + Wanted = i
      /\ Pages(range) \cap used = {}
      /\ \A b \in last_index .. i - Wanted - 1 : ~Fits(last_index, Wanted, b)
  BY <1>1, <1>2 DEF RunEndsHere
<1>4. Fits(last_index, Wanted, range.base)
  BY <1>1, <1>2, <1>3 DEF Fits, Pages, Limit
<1>5. i - Wanted - 1 = range.base - 1
  BY <1>1, <1>2, <1>3
<1> QED  BY <1>1, <1>2, <1>3, <1>4, <1>5 DEF FirstFit

\* When the search reaches the end, nothing fits from where it began.
LEMMA NoFitAtEnd ==
    ASSUME ScanInv, pc = "scan", ~Enough, Ended
    PROVE  NoFit(last_index, Wanted) /\ Wanted # 0
<1>1. /\ Limit \in Nat /\ Wanted \in Nat /\ last_index \in 0 .. Limit
      /\ range \in [base : Nat, length : Nat] /\ range.length < Wanted
      /\ RunEndsHere
  BY ScanBasics DEF ScanInv, ScanTypeOK, Searching
<1>2. i = Limit
  BY <1>1 DEF RunEndsHere, Ended, Limit
<1>3. ASSUME NEW b \in last_index .. Limit
      PROVE  ~Fits(last_index, Wanted, b)
  <2>1. CASE b < i - range.length
    BY <1>1, <1>2, <2>1 DEF RunEndsHere
  <2>2. CASE b >= i - range.length
    BY <1>1, <1>2, <2>2 DEF Fits, Limit
  <2> QED  BY <1>1, <1>2, <2>1, <2>2
<1> QED  BY <1>1, <1>3 DEF NoFit, Limit

LEMMA FoundInv ==
    ASSUME ScanInv, Found
    PROVE  ScanInv'
<1>1. /\ Limit \in Nat /\ Wanted \in Nat /\ last_index \in 0 .. Limit
      /\ range \in [base : Nat, length : Nat]
      /\ PmmInv /\ ScanTypeOK /\ RunEndsHere /\ holds[who] = NoRange
      /\ who \in Client
      /\ pc = "scan" /\ Enough
  BY ScanBasics DEF Found, ScanInv, Searching, ScanTypeOK
<1>2. /\ range = [base |-> range.base, length |-> range.length]
      /\ Grant(who, range.base, range.length)
  BY <1>1 DEF Found, Grant, Pages
<1>3. /\ range.base + range.length <= BitmapLength(handover)
      /\ range.base .. range.base + range.length - 1 \cap used = {}
  <2>1. CASE Wanted = 0
    <3>1. size = 0
      BY <1>1, <2>1, CeilDivBound, PmmAssumption DEF Wanted, ScanTypeOK
    <3> QED  BY <1>1, <3>1 DEF RunEndsHere, NoRange, Limit
  <2>2. CASE Wanted # 0
    BY <1>1, <2>2, FoundFirst DEF FirstFit, Fits
  <2> QED  BY <2>1, <2>2
<1>4. PmmInv'
  BY <1>1, <1>2, <1>3, GrantInv DEF Found
<1> QED  BY <1>1, <1>4 DEF ScanInv, ScanTypeOK, Searching, Found

LEMMA ReturnNoneInv ==
    ASSUME ScanInv, ReturnNone
    PROVE  ScanInv'
BY PmmSame DEF ScanInv, ScanTypeOK, Searching, ReturnNone, pmmVars

LEMMA RetryInv ==
    ASSUME ScanInv, Retry
    PROVE  ScanInv'
<1>1. /\ pc = "scan" /\ ~Enough /\ Ended /\ pc' = pc
      /\ last_index' = 0 /\ i' = 0 /\ range' = NoRange
      /\ UNCHANGED <<Limit, Wanted, used, handover, holds, who, size, atCall>>
  BY DEF Retry, Limit, Wanted
<1>2. /\ Limit \in Nat /\ Wanted \in Nat /\ last_index # 0
      /\ PmmInv /\ AsAtCall /\ ScanTypeOK /\ holds[who] = NoRange /\ size \in Sizes
  BY <1>1, ScanBasics DEF ScanInv, Searching, Retry
<1>3. PmmInv'
  BY <1>1, <1>2 DEF PmmInv, PmmTypeOK, HeldWasFree, ExclusivePages, NoLostPage, Limit
<1>4. ScanTypeOK'
  BY <1>1, <1>2 DEF ScanTypeOK, NoRange
<1>5. RunEndsHere'
  BY <1>1, <1>2 DEF RunEndsHere, NoRange
<1>6. NoFit(atCall.last_index, Wanted)'
  BY <1>1, <1>2, NoFitAtEnd DEF AsAtCall, NoFit, Fits
<1>7. AsAtCall'
  BY <1>1, <1>2, <1>6 DEF AsAtCall
<1> QED  BY <1>1, <1>2, <1>3, <1>4, <1>5, <1>7 DEF ScanInv, Searching

LEMMA ScanFreeInv ==
    ASSUME ScanInv, NEW c \in Client, Free(c)
    PROVE  ScanInv'
BY FreeInv DEF Free, ScanInv, ScanTypeOK, Searching

LEMMA ScanNextInv == ScanInv /\ [ScanNext]_scanVars => ScanInv'
<1> SUFFICES ASSUME ScanInv, [ScanNext]_scanVars
             PROVE  ScanInv'
  OBVIOUS
<1>1. CASE UNCHANGED scanVars
  BY <1>1, PmmSame DEF scanVars, pmmVars, ScanInv, ScanTypeOK, Searching, RunEndsHere, AsAtCall,
     NoFit, Fits, Limit, Wanted
<1> QED
  BY <1>1, CallInv, IterateInv, FoundInv, ReturnNoneInv, RetryInv, ScanFreeInv
  DEF ScanNext, Returning

-----------------------------------------------------------------------------
\* A step of the search is a step of the allocator or is not seen.
LEMMA ScanStepRefines ==
    ASSUME ScanInv, ScanNext
    PROVE  [Atomic!PmmNext]_Atomic!pmmVars
<1> DEFINE usedBar == IF pc = "idle" THEN used ELSE atCall.used
           lastBar == IF pc = "idle" THEN last_index ELSE atCall.last_index
<1>1. /\ usedBar = used
      /\ Limit \in Nat /\ Wanted \in Nat /\ who \in Client
  BY ScanBasics DEF ScanInv, ScanTypeOK, Searching, AsAtCall
<1>2. ASSUME NEW c \in Client, Free(c)
      PROVE  Atomic!PmmNext
  BY <1>2 DEF Free, pmm_free, Atomic!PmmNext, Atomic!pmm_free, Atomic!Pages, Pages,
     Atomic!NoRange, NoRange
<1>3. ASSUME NEW c \in Client, NEW s \in Sizes, Call(c, s)
      PROVE  UNCHANGED Atomic!pmmVars
  BY <1>3 DEF Call, Atomic!pmmVars
<1>4. ASSUME Iterate \/ Retry
      PROVE  UNCHANGED Atomic!pmmVars
  BY <1>4 DEF Iterate, Retry, Atomic!pmmVars
<1>5. ASSUME Found
      PROVE  Atomic!PmmNext
  <2>1. /\ pc = "scan" /\ pc' = "idle" /\ Enough
        /\ size \in Sizes /\ holds[who] = NoRange /\ UNCHANGED handover
        /\ RunEndsHere /\ AsAtCall /\ range \in [base : Nat, length : Nat]
    BY <1>5 DEF Found, ScanInv, Searching, ScanTypeOK
  <2>2. ASSUME NEW b, NEW n, range.base = b, range.length = n
        PROVE  Atomic!Grant(who, b, n)
    <3>1. range = [base |-> b, length |-> n]
      BY <2>1, <2>2
    <3> QED  BY <1>1, <1>5, <2>1, <2>2, <3>1 DEF Found, Atomic!Grant, Pages
  <2>3. CASE Wanted = 0
    <3>1. range = NoRange
      BY <2>1, <2>3, CeilDivBound, PmmAssumption DEF Wanted, RunEndsHere
    <3>2. Atomic!Grant(who, 0, 0)
      BY <2>2, <3>1 DEF NoRange
    <3> QED  BY <1>1, <2>1, <2>3, <3>2
         DEF Atomic!PmmNext, Atomic!pmm_alloc, Wanted, Atomic!CeilDiv, CeilDiv, Atomic!NoRange, NoRange
  <2>4. CASE Wanted # 0
    <3> DEFINE b == range.base
    <3>1. range.length = Wanted /\ b \in last_index .. Limit /\ FirstFit(last_index, Wanted, b)
      BY <2>1, <2>4, FoundFirst
    <3>2. Atomic!Grant(who, b, Wanted)
      BY <2>2, <3>1
    <3>3. \A from, a : Atomic!Fits(from, Wanted, a) <=> Fits(from, Wanted, a)
      BY <1>1 DEF Atomic!Fits, Fits, Atomic!BitmapLength, BitmapLength
    <3>4. Atomic!FirstFit(last_index, Wanted, b)
      BY <3>1, <3>3 DEF Atomic!FirstFit, FirstFit
    <3>5. Atomic!BitmapLength(handover) = Limit
      BY DEF Atomic!BitmapLength, BitmapLength, Limit
    <3>6. Atomic!AllocAhead(who, Wanted) \/ Atomic!AllocAgain(who, Wanted)
      <4>1. CASE last_index = atCall.last_index
        BY <2>1, <3>1, <3>2, <3>4, <3>5, <4>1 DEF Atomic!AllocAhead
      <4>2. CASE last_index = 0 /\ NoFit(atCall.last_index, Wanted)
        <5>1. Atomic!NoFit(lastBar, Wanted)
          BY <2>1, <3>3, <3>5, <4>2 DEF Atomic!NoFit, NoFit, Limit
        <5> QED  BY <2>1, <3>1, <3>2, <3>4, <3>5, <4>2, <5>1 DEF Atomic!AllocAgain
      <4> QED  BY <2>1, <4>1, <4>2 DEF AsAtCall
    <3> QED  BY <1>1, <2>1, <2>4, <3>6
         DEF Atomic!PmmNext, Atomic!pmm_alloc, Wanted, Atomic!CeilDiv, CeilDiv, Atomic!NoRange, NoRange
  <2> QED  BY <2>3, <2>4
<1>6. ASSUME ReturnNone
      PROVE  Atomic!PmmNext
  <2>1. /\ pc = "scan" /\ pc' = "idle" /\ ~Enough /\ Ended /\ last_index = 0
        /\ UNCHANGED <<handover, used, last_index, holds>>
        /\ size \in Sizes /\ holds[who] = NoRange /\ AsAtCall
    BY <1>6 DEF ReturnNone, GivesUp, ScanInv, Searching
  <2>2. NoFit(0, Wanted) /\ NoFit(atCall.last_index, Wanted) /\ Wanted # 0
    BY <2>1, NoFitAtEnd DEF AsAtCall
  <2>3. Atomic!NoFit(0, Wanted) /\ Atomic!NoFit(lastBar, Wanted)
    BY <1>1, <2>1, <2>2 DEF Atomic!NoFit, NoFit, Atomic!Fits, Fits, Atomic!BitmapLength, BitmapLength
  <2>4. Atomic!AllocNone(who, Wanted)
    BY <1>1, <2>1, <2>3 DEF Atomic!AllocNone
  <2> QED  BY <1>1, <2>1, <2>2, <2>4
       DEF Atomic!PmmNext, Atomic!pmm_alloc, Wanted, Atomic!CeilDiv, CeilDiv, Atomic!NoRange, NoRange
<1> QED  BY <1>2, <1>3, <1>4, <1>5, <1>6 DEF ScanNext, Returning

LEMMA ScanInitRefines == ScanInit => Atomic!pmm_init
BY DEF ScanInit, ScanLocals, pmm_init, Atomic!pmm_init, HoldsBitmap, Atomic!HoldsBitmap, Roomy,
   Atomic!Roomy, BitmapLength, Atomic!BitmapLength, InitialUsed, Atomic!InitialUsed, Bits, Atomic!Bits,
   FreedAtInit, Atomic!FreedAtInit, MarkedAtInit, Atomic!MarkedAtInit, BitmapPages, Atomic!BitmapPages,
   Pages, Atomic!Pages, CeilDiv, Atomic!CeilDiv, NoRange, Atomic!NoRange

-----------------------------------------------------------------------------
\* The inductive invariant of the search holds in every reachable state.
THEOREM ScanInvariance == ScanSpec => []ScanInv
BY ScanInitInv, ScanNextInv, PTL DEF ScanSpec

\* Iterating over the bitmap, starting again once from its start and marking
\* what was found is what module Pmm says that pmm_alloc does at once, for
\* every memory map and every sequence of requests and frees.
THEOREM ScanImplementsPmm == ScanSpec => Refines
<1>1. ScanInv /\ [ScanNext]_scanVars => [Atomic!PmmNext]_Atomic!pmmVars
  <2>1. UNCHANGED scanVars => UNCHANGED Atomic!pmmVars
    BY DEF scanVars, Atomic!pmmVars
  <2> QED  BY <2>1, ScanStepRefines
<1> QED  BY <1>1, ScanInitRefines, ScanInvariance, PTL DEF ScanSpec, Refines, Atomic!PmmSpec

\* Taken one bit at a time the search still gives no page to two callers,
\* loses none and hands out usable memory only.
THEOREM ScanKeepsPages ==
    ScanSpec => [](PmmTypeOK /\ ExclusivePages /\ OnlyUsablePages /\ NoLostPage)
<1>1. ScanInv => PmmTypeOK /\ ExclusivePages /\ OnlyUsablePages /\ NoLostPage
  BY PmmInvFacts DEF ScanInv
<1> QED  BY <1>1, ScanInvariance, PTL

-----------------------------------------------------------------------------
\* A set of natural numbers that is not empty has a least one, ...
LEMMA LeastNumber ==
    ASSUME NEW T, T \subseteq Nat, T # {}
    PROVE  \E k \in T : \A j \in T : k <= j
<1>1. PICK k \in T : \A j \in T : ~ (<<j, k>> \in OpToRel(<, Nat))
  BY NatLessThanWellFounded, WFMin
<1>2. \A j \in T : ~ (j < k)
  BY <1>1 DEF OpToRel
<1> QED  BY <1>2

\* ... which is its Min, ...
LEMMA MinIs ==
    ASSUME NEW T, T \subseteq Nat, T # {}
    PROVE  Min(T) \in T /\ \A j \in T : Min(T) <= j
<1>1. PICK k \in T : \A j \in T : k <= j
  BY LeastNumber
<1> QED  BY <1>1 DEF Min

\* ... and if it is bounded a greatest one, which is its Max.
LEMMA MaxIs ==
    ASSUME NEW n \in Nat, NEW T, T \subseteq 1 .. n, T # {}
    PROVE  Max(T) \in T /\ \A j \in T : j <= Max(T)
<1> DEFINE U == {n - j : j \in T}
<1>1. PICK u \in U : \A x \in U : u <= x
  <2>1. U \subseteq Nat /\ U # {}
    <3>1. \A j \in T : n - j \in Nat
      OBVIOUS
    <3>2. PICK j \in T : TRUE
      OBVIOUS
    <3> QED  BY <3>1, <3>2
  <2> HIDE DEF U
  <2> QED  BY <2>1, LeastNumber
<1>2. PICK k \in T : u = n - k
  OBVIOUS
<1>3. \A j \in T : k >= j
  <2> SUFFICES ASSUME NEW j \in T
               PROVE  k >= j
    OBVIOUS
  <2>1. u <= n - j
    BY <1>1
  <2> QED  BY <1>2, <2>1
<1> QED  BY <1>3 DEF Max

\* The tags of a kind among the first k, and what the parser has made of
\* those: each is overwritten by the next of its kind.
Until(list, id, k) == {j \in 1 .. k : list[j].id = id}
Parsed(list, k) ==
    [memmaps |-> IF Until(list, "memmap", k) = {} THEN <<>>
                 ELSE stivale2_parse_mmap(list[Max(Until(list, "memmap", k))]),
     modules |-> IF Until(list, "modules", k) = {} THEN [lengths |-> <<>>, string |-> <<>>]
                 ELSE stivale2_parse_module(list[Max(Until(list, "modules", k))])]

LEMMA UntilNext ==
    ASSUME NEW list, NEW id, NEW k \in Nat \ {0}
    PROVE  /\ list[k].id = id => Until(list, id, k) # {} /\ Max(Until(list, id, k)) = k
           /\ list[k].id # id => Until(list, id, k) = Until(list, id, k - 1)
<1>1. ASSUME list[k].id = id
      PROVE  Until(list, id, k) # {} /\ Max(Until(list, id, k)) = k
  <2> DEFINE T == Until(list, id, k)
  <2>1. T \subseteq 1 .. k /\ k \in T
    BY <1>1 DEF Until
  <2> HIDE DEF T
  <2>2. Max(T) \in 1 .. k /\ k <= Max(T)
    BY <2>1, MaxIs
  <2> QED  BY <2>1, <2>2 DEF T
<1>2. ASSUME list[k].id # id
      PROVE  Until(list, id, k) = Until(list, id, k - 1)
  <2>1. 1 .. k = (1 .. k - 1) \cup {k}
    OBVIOUS
  <2> QED  BY <1>2, <2>1 DEF Until
<1> QED  BY <1>1, <1>2

\* A Handover has the last map and the last modules of the list.
LEMMA HeaderParsed ==
    ASSUME NEW list \in Seq(Tag)
    PROVE  stivale2_parse_header(list) = Parsed(list, Len(list))
<1> DEFINE n == Len(list)
           Next(h, k) ==
                IF list[k].id = "memmap" THEN [h EXCEPT !.memmaps = stivale2_parse_mmap(list[k])]
                ELSE IF list[k].id = "modules"
                   THEN [h EXCEPT !.modules = stivale2_parse_module(list[k])]
                ELSE h
           G(h) == [k \in 0 .. n |->
                      IF k = 0 THEN [memmaps |-> <<>>, modules |-> [lengths |-> <<>>, string |-> <<>>]]
                      ELSE Next(h[k - 1], k)]
           p == [k \in 0 .. n |-> Parsed(list, k)]
           after == CHOOSE h : h = G(h)
<1>1. n \in Nat
  OBVIOUS
<1>2. Parsed(list, 0) = [memmaps |-> <<>>, modules |-> [lengths |-> <<>>, string |-> <<>>]]
  <2>1. \A id : Until(list, id, 0) = {}
    BY DEF Until
  <2> QED  BY <2>1 DEF Parsed
<1>3. ASSUME NEW k \in 1 .. n
      PROVE  Parsed(list, k) = Next(Parsed(list, k - 1), k)
  <2> DEFINE a == Until(list, "memmap", k)
             b == Until(list, "modules", k)
             c == Until(list, "memmap", k - 1)
             d == Until(list, "modules", k - 1)
  <2>1. /\ list[k].id = "memmap" => a # {} /\ Max(a) = k
        /\ list[k].id # "memmap" => a = c
        /\ list[k].id = "modules" => b # {} /\ Max(b) = k
        /\ list[k].id # "modules" => b = d
    <3>1. k \in Nat \ {0}
      OBVIOUS
    <3> QED  BY <3>1, UntilNext
  <2>2. /\ Parsed(list, k).memmaps =
              IF a = {} THEN <<>> ELSE stivale2_parse_mmap(list[Max(a)])
        /\ Parsed(list, k).modules =
              IF b = {} THEN [lengths |-> <<>>, string |-> <<>>]
              ELSE stivale2_parse_module(list[Max(b)])
    BY DEF Parsed
  <2>3. /\ Parsed(list, k - 1).memmaps =
              IF c = {} THEN <<>> ELSE stivale2_parse_mmap(list[Max(c)])
        /\ Parsed(list, k - 1).modules =
              IF d = {} THEN [lengths |-> <<>>, string |-> <<>>]
              ELSE stivale2_parse_module(list[Max(d)])
    BY DEF Parsed
  <2>4. \A x \in {k - 1, k} : Parsed(list, x) =
            [memmaps |-> Parsed(list, x).memmaps, modules |-> Parsed(list, x).modules]
    BY DEF Parsed
  <2> HIDE DEF a, b, c, d
  <2>5. CASE list[k].id = "memmap"
    BY <2>1, <2>2, <2>3, <2>4, <2>5
  <2>6. CASE list[k].id = "modules"
    BY <2>1, <2>2, <2>3, <2>4, <2>6
  <2>7. CASE list[k].id \notin {"memmap", "modules"}
    BY <2>1, <2>2, <2>3, <2>4, <2>7
  <2> QED  BY <2>5, <2>6, <2>7
<1> HIDE DEF n, Next
<1>4. p = G(p)
  <2>1. ASSUME NEW k \in 0 .. n
        PROVE  p[k] = IF k = 0 THEN [memmaps |-> <<>>, modules |-> [lengths |-> <<>>, string |-> <<>>]]
                      ELSE Next(p[k - 1], k)
    <3>1. CASE k = 0
      BY <1>2, <3>1
    <3>2. CASE k # 0
      <4>1. k \in 1 .. n /\ k - 1 \in 0 .. n
        BY <1>1, <3>2
      <4> QED  BY <1>3, <3>2, <4>1
    <3> QED  BY <3>1, <3>2
  <2> QED  BY <2>1, Zenon
<1>5. after = G(after)
  <2>1. \E h : h = G(h)
    BY <1>4
  <2> HIDE DEF G, p
  <2> QED  BY <2>1
<1> HIDE DEF after
<1>6. \A k \in 0 .. n : after[k] = p[k]
  <2> DEFINE T == {k \in 0 .. n : after[k] # p[k]}
  <2>1. SUFFICES ASSUME T # {}
                 PROVE  FALSE
    OBVIOUS
  <2>2. PICK k \in T : \A j \in T : k <= j
    <3>1. T \subseteq Nat
      OBVIOUS
    <3> HIDE DEF T
    <3> QED  BY <2>1, <3>1, LeastNumber
  <2>3. k \in 0 .. n /\ after[k] # p[k]
    BY <2>2
  <2>4. k # 0 => k - 1 \in 0 .. n /\ after[k - 1] = p[k - 1]
    <3>1. ASSUME k # 0
          PROVE  k - 1 \in 0 .. n /\ ~ (k <= k - 1)
      BY <1>1, <2>3, <3>1
    <3> QED  BY <2>2, <3>1
  <2>5. after[k] = G(after)[k] /\ p[k] = G(p)[k]
    <3> HIDE DEF G, p
    <3> QED  BY <1>4, <1>5
  <2>6. G(after)[k] = G(p)[k]
    <3> HIDE DEF p
    <3> QED  BY <2>3, <2>4
  <2> QED  BY <2>3, <2>5, <2>6
<1>7. stivale2_parse_header(list) = after[n]
  BY Zenon DEF stivale2_parse_header, after, n, Next
<1> QED  BY <1>1, <1>6, <1>7 DEF n

-----------------------------------------------------------------------------
\* Division of numbers that are multiples of the size of a page.
LEMMA WholePages ==
    ASSUME NEW a \in Nat, a >= 1, NEW x \in Nat
    PROVE  /\ (x * a) \div a = x
           /\ (x * a) % a = 0
           /\ ((x * a + a - 1) \div a) * a = x * a
<1>1. (x * a) \div a = x /\ (x * a) % a = 0
  BY Z3
<1>2. (x * a + a - 1) \div a = x
  BY Z3
<1> QED  BY <1>1, <1>2

LEMMA MultipleOf ==
    ASSUME NEW a \in Nat, a >= 1, NEW x \in Nat, x % a = 0
    PROVE  x \div a \in Nat /\ x = (x \div a) * a
BY Z3

LEMMA DivisionTwice ==
    ASSUME NEW v \in Nat, NEW a \in Nat, a >= 1, NEW b \in Nat, b >= 1
    PROVE  (v \div a) \div b = v \div (a * b)
BY Z3

LEMMA SumOfPages ==
    ASSUME NEW a \in Nat, a >= 1, NEW x \in Nat, NEW y \in Nat
    PROVE  (x * a + y * a) \div a = x + y
<1>1. x * a + y * a = (x + y) * a
  BY Z3
<1>2. x + y \in Nat
  OBVIOUS
<1> QED  BY <1>1, <1>2, WholePages

LEMMA DivisionType ==
    ASSUME NEW v \in Nat, NEW a \in Nat, a >= 1
    PROVE  v \div a \in Nat /\ (v \div a) * a <= v
BY Z3

LEMMA TimesAtMost ==
    ASSUME NEW a \in Nat, a >= 1, NEW x \in Int, NEW y \in Int
    PROVE  x * a <= y * a <=> x <= y
BY Z3

\* A map in bytes and the same in pages.
Entry == [base : Nat, length : Nat, type : STRING]

LEMMA SameMap ==
    ASSUME NEW e \in Seq(Entry), FitForBitmap(e),
           NEW h, h = InPages(e), NEW n, n = BitmapBytes(e)
    PROVE  /\ n \in Nat /\ BitmapLength(h) = n
           /\ Len(h) = Len(e) /\ e # <<>>
           /\ \A k \in 1 .. Len(e) : h[k].usable <=> e[k].type = "USABLE"
           /\ \A k \in 1 .. Len(e) : e[k].type = "USABLE" =>
                 /\ h[k].base \in Nat /\ h[k].length \in Nat
                 /\ e[k].base = h[k].base * PAGE_SIZE
                 /\ e[k].length = h[k].length * PAGE_SIZE
                 /\ h[k].base + h[k].length <= n * BITS
<1> DEFINE P == PAGE_SIZE
           end(k) == e[k].base + e[k].length
<1>1. P \in Nat /\ P >= 1 /\ BITS \in Nat /\ BITS >= 1
  BY PmmAssumption
<1>2. e # <<>> /\ Len(e) \in Nat /\ Len(e) \in 1 .. Len(e)
  <2>1. \E k \in 1 .. Len(e) : TRUE
    BY DEF FitForBitmap
  <2>2. Len(e) \in Nat
    OBVIOUS
  <2> QED  BY <2>1, <2>2
<1>3. \A k \in 1 .. Len(e) : e[k].base \in Nat /\ e[k].length \in Nat /\ end(k) \in Nat
  <2>1. \A k \in 1 .. Len(e) : e[k] \in Entry
    BY ElementOfSeq
  <2> QED  BY <2>1 DEF Entry
<1>4. Len(h) = Len(e)
  BY <1>2 DEF InPages
<1>5. \A k \in 1 .. Len(e) :
          /\ h[k].base = e[k].base \div P
          /\ h[k].length = end(k) \div P - (e[k].base \div P)
          /\ h[k].usable <=> e[k].type = "USABLE"
  <2> SUFFICES ASSUME NEW k \in 1 .. Len(e)
               PROVE  /\ h[k].base = e[k].base \div P
                      /\ h[k].length = end(k) \div P - (e[k].base \div P)
                      /\ h[k].usable <=> e[k].type = "USABLE"
    OBVIOUS
  <2> DEFINE x == e[k].base \div P
             y == end(k) \div P - (e[k].base \div P)
             u == e[k].type = "USABLE"
  <2>1. h[k] = [base |-> x, length |-> y, usable |-> u]
    BY DEF InPages
  <2> HIDE DEF x, y, u
  <2>2. h[k].base = x /\ h[k].length = y /\ (h[k].usable <=> u)
    BY <2>1
  <2> QED  BY <2>2 DEF x, y, u
<1>6. \A k \in 1 .. Len(e) : e[k].base \div P \in Nat /\ end(k) \div P \in Nat
  <2> SUFFICES ASSUME NEW k \in 1 .. Len(e)
               PROVE  e[k].base \div P \in Nat /\ end(k) \div P \in Nat
    OBVIOUS
  <2> DEFINE x == e[k].base
             y == end(k)
  <2>1. x \in Nat /\ y \in Nat
    BY <1>3
  <2> HIDE DEF x, y, P
  <2>2. x \div P \in Nat /\ y \div P \in Nat
    BY <1>1, <2>1, DivisionType
  <2> QED  BY <2>2 DEF x, y
<1>7. n \in Nat /\ BitmapLength(h) = n
  <2> DEFINE l == Len(e)
             x == e[l].base \div P
             y == end(l) \div P
             z == end(l)
  <2>1. x \in Nat /\ y \in Nat /\ z \in Nat
    BY <1>2, <1>3, <1>6
  <2>2. h[l].base = x /\ h[l].length = y - x
    <3> HIDE DEF end, P
    <3> QED  BY <1>2, <1>5
  <2>3. BitmapLength(h) = (x + (y - x)) \div BITS
    BY <1>4, <2>2 DEF BitmapLength
  <2>4. n = z \div (P * BITS)
    BY DEF BitmapBytes, Last
  <2>5. y = z \div P
    OBVIOUS
  <2> HIDE DEF x, y, z, P
  <2>6. x + (y - x) = y
    BY <2>1
  <2>7. (z \div P) \div BITS = z \div (P * BITS) /\ y \div BITS \in Nat
    <3>1. (z \div P) \div BITS = z \div (P * BITS)
      BY <1>1, <2>1, DivisionTwice
    <3>2. y \div BITS \in Nat
      BY <1>1, <2>1, DivisionType
    <3> QED  BY <3>1, <3>2
  <2> QED  BY <2>3, <2>4, <2>5, <2>6, <2>7
<1>8. ASSUME NEW k \in 1 .. Len(e), e[k].type = "USABLE"
      PROVE  /\ h[k].base \in Nat /\ h[k].length \in Nat
             /\ e[k].base = h[k].base * P
             /\ e[k].length = h[k].length * P
             /\ h[k].base + h[k].length <= n * BITS
  <2> DEFINE b == e[k].base
             c == e[k].length
             x == b \div P
             y == c \div P
  <2>1. b \in Nat /\ c \in Nat
    BY <1>3
  <2>2. b % P = 0 /\ c % P = 0 /\ b + c <= (n * BITS) * P
    <3>1. /\ e[k].base % PAGE_SIZE = 0 /\ e[k].length % PAGE_SIZE = 0
          /\ e[k].base + e[k].length <= BitmapBytes(e) * BITS * PAGE_SIZE
      BY <1>8 DEF FitForBitmap
    <3> QED  BY <3>1
  <2>3. h[k].base = b \div P /\ h[k].length = (b + c) \div P - (b \div P)
    <3>1. h[k].base = e[k].base \div P /\ h[k].length = end(k) \div P - (e[k].base \div P)
      <4> HIDE DEF end, P
      <4> QED  BY <1>5, <1>8
    <3> QED  BY <3>1
  <2> HIDE DEF b, c, P
  <2>4. x \in Nat /\ b = x * P /\ y \in Nat /\ c = y * P
    BY <1>1, <2>1, <2>2, MultipleOf
  <2> HIDE DEF x, y
  <2>5. (b + c) \div P = x + y
    BY <1>1, <2>4, SumOfPages
  <2>6. b \div P = x
    BY DEF x
  <2>7. h[k].base = x /\ h[k].length = y
    BY <2>3, <2>4, <2>5, <2>6
  <2>8. x + y <= n * BITS
    <3> DEFINE N == n * BITS
    <3>1. N \in Int
      BY <1>1, <1>7, Z3
    <3> HIDE DEF N
    <3>2. b + c = (x + y) * P
      BY <1>1, <2>4, Z3
    <3>3. (x + y) * P <= N * P
      BY <2>2, <3>2 DEF N
    <3>4. x + y \in Int
      BY <2>4
    <3> QED  BY <1>1, <3>1, <3>3, <3>4, TimesAtMost DEF N
  <2> QED  BY <2>4, <2>7, <2>8 DEF b, c
<1>9. \A k \in 1 .. Len(e) : h[k].usable <=> e[k].type = "USABLE"
  BY <1>5
<1> QED  BY <1>2, <1>4, <1>7, <1>8, <1>9

LEMMA ParsedMap ==
    ASSUME NEW list \in TagLists,
           NEW e, e = LastOf(list, "memmap").entries,
           NEW m, m = stivale2_parse_header(list).memmaps
    PROVE  /\ e \in Seq(Entry) /\ FitForBitmap(e) /\ InPages(e) \in Handovers
           /\ Len(m) = Len(e)
           /\ \A k \in 1 .. Len(e) : e[k] \in Entry
           /\ m = [k \in 1 .. Len(e) |->
                     [base |-> e[k].base, length |-> e[k].length, type |-> MmapType(e[k].type)]]
<1> DEFINE last == LastOf(list, "memmap")
<1>1. list \in Seq(Tag) /\ OfKind(list, "memmap") # {}
  BY BootAssumption
<1>2. Until(list, "memmap", Len(list)) = OfKind(list, "memmap")
  BY DEF Until, OfKind
<1>3. m = stivale2_parse_mmap(last)
  BY <1>1, <1>2, HeaderParsed DEF Parsed, LastOf
<1>4. last \in Tag
  <2> DEFINE K == OfKind(list, "memmap")
  <2>1. K \subseteq 1 .. Len(list) /\ K # {} /\ Len(list) \in Nat
    BY <1>1 DEF OfKind
  <2> HIDE DEF K
  <2>2. Max(K) \in 1 .. Len(list)
    BY <2>1, MaxIs
  <2> QED  BY <1>1, <2>2, ElementOfSeq DEF LastOf, K
<1>5. e \in Seq(Entry)
  BY <1>4 DEF Tag, Entry
<1>6. \A k \in 1 .. Len(e) : e[k] \in Entry
  BY <1>5, ElementOfSeq
<1>7. m = [k \in 1 .. Len(e) |-> [e[k] EXCEPT !.type = MmapType(@)]]
  BY <1>3 DEF stivale2_parse_mmap
<1>8. \A k \in 1 .. Len(e) :
          [e[k] EXCEPT !.type = MmapType(@)] =
             [base |-> e[k].base, length |-> e[k].length, type |-> MmapType(e[k].type)]
  BY <1>6 DEF Entry
<1>9. m = [k \in 1 .. Len(e) |->
             [base |-> e[k].base, length |-> e[k].length, type |-> MmapType(e[k].type)]]
  BY <1>7, <1>8
<1>10. Len(m) = Len(e)
  <2>1. Len(e) \in Nat
    BY <1>5
  <2>2. DOMAIN m = 1 .. Len(e) /\ m = [k \in 1 .. Len(e) |-> m[k]]
    BY <1>9
  <2> QED  BY <2>1, <2>2
<1>11. FitForBitmap(e) /\ InPages(e) \in Handovers
  BY BootAssumption DEF Described
<1> QED  BY <1>5, <1>6, <1>9, <1>10, <1>11

LEMMA DivisionUp ==
    ASSUME NEW v \in Nat, NEW a \in Nat, a >= 1
    PROVE  v \div a \in Nat /\ v \div a <= (v + a - 1) \div a
<1> DEFINE q == v \div a
           w == v + a - 1
           t == w \div a
<1>1. q \in Nat /\ q * a <= v
  BY DivisionType
<1>2. w \in Nat /\ v <= w
  OBVIOUS
<1>3. t \in Int /\ w < (t + 1) * a
  <2> HIDE DEF w
  <2> QED  BY ONLY <1>2, a \in Nat, a >= 1, Z3
<1> HIDE DEF q, t, w
<1>4. q * a < (t + 1) * a /\ q \in Int /\ t \in Int
  <2>1. q * a \in Int /\ (t + 1) * a \in Int
    BY <1>1, <1>3, Z3
  <2> QED  BY <1>1, <1>2, <1>3, <2>1
<1>5. ~ (t + 1 <= q)
  <2>1. t + 1 <= q <=> (t + 1) * a <= q * a
    BY <1>1, <1>3, TimesAtMost
  <2>2. q * a \in Int /\ (t + 1) * a \in Int
    BY <1>1, <1>3, Z3
  <2> QED  BY <1>4, <2>1, <2>2
<1>6. q <= t
  BY <1>1, <1>3, <1>5
<1> QED  BY <1>1, <1>6 DEF q, t, w

LEMMA Apart ==
    ASSUME NEW x \in Nat, NEW y \in Nat, NEW z \in Nat, NEW v \in Nat, NEW w \in Nat, w <= v,
           NEW k \in Int, NEW a \in Int, k # a,
           k < a => x + y <= z, a < k => z + v <= x
    PROVE  (x .. x + y - 1) \cap (z .. z + w - 1) = {}
OBVIOUS

LEMMA UsableType == \A type : MmapType(type) = "USABLE" <=> type = "USABLE"
BY DEF MmapType

\* The pages that pmm_free() or pmm_set_used() touches, in whole pages.
LEMMA RunOfPages ==
    ASSUME NEW x \in Nat, NEW y \in Nat
    PROVE  /\ Run(ALIGN_DOWN(x * PAGE_SIZE), ALIGN_UP(y * PAGE_SIZE)) = x .. x + y - 1
           /\ \A n : Run(x * PAGE_SIZE, n) = x .. x + (n \div PAGE_SIZE) - 1
<1> DEFINE P == PAGE_SIZE
<1>1. P \in Nat /\ P >= 1
  BY PmmAssumption
<1>2. ALIGN_DOWN(x * P) = ((x * P) \div P) * P
  BY DEF ALIGN_DOWN
<1>3. ALIGN_UP(y * P) = ((y * P + P - 1) \div P) * P
  BY DEF ALIGN_UP, ALIGN_DOWN
<1>4. \A b, n : Run(b, n) = b \div P .. b \div P + (n \div P) - 1
  BY DEF Run
<1> HIDE DEF P
<1>5. (x * P) \div P = x /\ (y * P) \div P = y /\ ((y * P + P - 1) \div P) * P = y * P
  BY <1>1, WholePages
<1>6. Run(ALIGN_DOWN(x * P), ALIGN_UP(y * P)) = x .. x + y - 1
  BY <1>2, <1>3, <1>4, <1>5
<1>7. \A n : Run(x * P, n) = x .. x + (n \div P) - 1
  BY <1>4, <1>5
<1> QED  BY <1>6, <1>7 DEF P

\* The bitmap that pmm_init() leaves, worked out in bytes from the map that
\* the parser has made of the tags, is the one that module Pmm starts from.
LEMMA InitialBitmap ==
    ASSUME NEW list \in TagLists, NEW h, h = Described(list)
    PROVE  /\ h \in Handovers /\ \E k \in 1 .. Len(h) : HoldsBitmap(h, k)
           /\ pmm_init_bytes(stivale2_parse_header(list).memmaps) = InitialUsed(h)
<1> DEFINE P == PAGE_SIZE
           e == LastOf(list, "memmap").entries
           m == stivale2_parse_header(list).memmaps
           n == BitmapBytes(e)
           up == ALIGN_UP(n)
           bp == BitmapPages(h)
           Enough1 == {k \in 1 .. Len(m) : m[k].type = "USABLE" /\ m[k].length >= n}
           a == Min(Enough1)
           moved == [m EXCEPT ![a].base = @ + up, ![a].length = @ - up]
           Cleared1 == {moved[k] : k \in {j \in 1 .. Len(moved) : moved[j].type = "USABLE"}}
           freed == UNION {Run(ALIGN_DOWN(r.base), ALIGN_UP(r.length)) : r \in Cleared1}
           low(k) == IF k = a THEN h[k].base + bp ELSE h[k].base
           many(k) == IF k = a THEN h[k].length - bp ELSE h[k].length
           Usable == {k \in 1 .. Len(e) : e[k].type = "USABLE"}
<1>1. P \in Nat /\ P >= 1 /\ BITS \in Nat /\ BITS >= 1
  BY PmmAssumption
<1>2. /\ e \in Seq(Entry) /\ FitForBitmap(e) /\ h \in Handovers /\ h = InPages(e)
      /\ Len(m) = Len(e) /\ \A k \in 1 .. Len(e) : e[k] \in Entry
      /\ m = [k \in 1 .. Len(e) |->
                [base |-> e[k].base, length |-> e[k].length, type |-> MmapType(e[k].type)]]
  BY SMTT(30), ParsedMap DEF Described
<1>3. /\ n \in Nat /\ BitmapLength(h) = n
      /\ Len(h) = Len(e) /\ e # <<>>
      /\ \A k \in 1 .. Len(e) : h[k].usable <=> k \in Usable
      /\ \A k \in Usable :
            /\ h[k].base \in Nat /\ h[k].length \in Nat
            /\ e[k].base = h[k].base * P
            /\ e[k].length = h[k].length * P
            /\ h[k].base + h[k].length <= n * BITS
  BY <1>2, SameMap
<1>4. Len(e) \in Nat /\ Usable \subseteq 1 .. Len(e)
  BY <1>2
<1>5. /\ \A k \in 1 .. Len(e) : m[k].base = e[k].base /\ m[k].length = e[k].length
      /\ \A k \in 1 .. Len(e) : m[k].type = "USABLE" <=> k \in Usable
  BY <1>2, UsableType
  \* It is put into the first usable entry that is large enough.
<1>6. \A k \in 1 .. Len(e) : k \in Enough1 <=> Roomy(h, k)
  <2> SUFFICES ASSUME NEW k \in 1 .. Len(e)
               PROVE  k \in Enough1 <=> Roomy(h, k)
    OBVIOUS
  <2>1. k \in Enough1 <=> k \in Usable /\ e[k].length >= n
    <3> HIDE DEF e, m, n, Usable
    <3> QED  BY <1>2, <1>5
  <2>2. Roomy(h, k) <=> k \in Usable /\ h[k].length * P >= n
    BY <1>3 DEF Roomy
  <2> QED  BY <1>3, <2>1, <2>2
<1>7. a \in Enough1 /\ \A k \in Enough1 : a <= k
  <2>1. Enough1 \subseteq Nat
    OBVIOUS
  <2>2. PICK k \in 1 .. Len(e) : e[k].type = "USABLE" /\ e[k].length >= n
    BY <1>2 DEF FitForBitmap
  <2>3. k \in Enough1
    BY <1>2, <1>5, <2>2
  <2> HIDE DEF Enough1
  <2> QED  BY <2>1, <2>3, MinIs
<1> HIDE DEF a, Enough1
<1>8. a \in 1 .. Len(e) /\ a \in Usable /\ Roomy(h, a)
  <2>1. a \in 1 .. Len(e)
    BY <1>2, <1>7 DEF Enough1
  <2>2. Roomy(h, a)
    BY <1>6, <1>7, <2>1
  <2> QED  BY <1>3, <2>1, <2>2 DEF Roomy
<1>9. \A k \in 1 .. Len(e) : HoldsBitmap(h, k) <=> k = a
  <2>1. \A k \in 1 .. Len(e) : Roomy(h, k) => a <= k
    BY <1>6, <1>7
  <2>2. \A k \in 1 .. Len(e) : k < a => ~ Roomy(h, k)
    BY <1>4, <1>8, <2>1
  <2>3. HoldsBitmap(h, a)
    <3>1. \A j \in 1 .. a - 1 : j \in 1 .. Len(e) /\ j < a
      BY <1>4, <1>8
    <3> QED  BY <1>8, <2>2, <3>1 DEF HoldsBitmap
  <2>4. ASSUME NEW k \in 1 .. Len(e), HoldsBitmap(h, k)
        PROVE  k = a
    <3>1. Roomy(h, k) /\ a <= k
      BY <2>1, <2>4 DEF HoldsBitmap
    <3>2. ~ (a \in 1 .. k - 1)
      BY <1>8, <2>4 DEF HoldsBitmap
    <3>3. k \in Int /\ a \in Int /\ a >= 1
      BY <1>4, <1>8
    <3> QED  BY <3>1, <3>2, <3>3
  <2> QED  BY <2>3, <2>4
  \* It takes whole pages of that entry, ...
<1>10. bp \in Nat /\ up = bp * P /\ n \div P \in Nat /\ n \div P <= bp /\ bp <= h[a].length
  <2>1. bp = (n + P - 1) \div P /\ up = ((n + P - 1) \div P) * P
    BY <1>3 DEF BitmapPages, CeilDiv, ALIGN_UP, ALIGN_DOWN
  <2>2. bp = CeilDiv(n, P)
    BY <1>3 DEF BitmapPages
  <2>3. h[a].length \in Nat /\ h[a].length * P >= n
    BY <1>3, <1>8 DEF Roomy
  <2>4. h[a].length >= bp
    <3> HIDE DEF n, bp
    <3> QED  BY <1>3, <2>2, <2>3, CeilDivBound
  <2> HIDE DEF n, bp, up, P
  <2>5. bp \in Nat
    <3>1. n + P - 1 \in Nat
      BY <1>1, <1>3
    <3> QED  BY <1>1, <2>1, <3>1, DivisionType
  <2>6. n \div P \in Nat /\ n \div P <= (n + P - 1) \div P
    BY <1>1, <1>3, DivisionUp
  <2> QED  BY <2>1, <2>3, <2>4, <2>5, <2>6
  \* ... and leaves it the others.
<1>11. \A k \in Usable : low(k) \in Nat /\ many(k) \in Nat
  <2> SUFFICES ASSUME NEW k \in Usable
               PROVE  low(k) \in Nat /\ many(k) \in Nat
    OBVIOUS
  <2>1. h[k].base \in Nat /\ h[k].length \in Nat /\ (k = a => bp <= h[k].length)
    BY <1>3, <1>10
  <2> HIDE DEF Usable, bp
  <2> QED  BY <1>10, <2>1
<1>12. /\ Len(moved) = Len(e)
       /\ \A k \in 1 .. Len(e) : moved[k].type = m[k].type
       /\ \A k \in 1 .. Len(e) : k # a => moved[k] = m[k]
       /\ moved[a].base = m[a].base + up /\ moved[a].length = m[a].length - up
  <2> DEFINE x == [m[a] EXCEPT !.base = @ + up, !.length = @ - up]
             b == m[a].base + up
             c == m[a].length - up
             t == m[a].type
  <2>1. m[a] \in [base : Nat, length : Nat, type : {MmapType(e[a].type)}] /\ up \in Int
    <3>1. e[a] \in Entry /\ m[a] = [base |-> e[a].base, length |-> e[a].length,
                                     type |-> MmapType(e[a].type)]
      BY <1>2, <1>8
    <3>3. up \in Int
      <4> HIDE DEF up, bp, P
      <4> QED  BY <1>1, <1>10, Z3
    <3> HIDE DEF e, m, up
    <3> QED  BY <3>1, <3>3 DEF Entry
  <2>2. x.base = b /\ x.length = c /\ x.type = t
    <3>1. x = [m[a] EXCEPT !.base = @ + up, !.length = @ - up]
      OBVIOUS
    <3> DEFINE r == m[a]
    <3>2. r \in [base : Nat, length : Nat, type : {MmapType(e[a].type)}]
      BY <2>1
    <3>3. x = [r EXCEPT !.base = @ + up, !.length = @ - up]
      BY <3>1
    <3> HIDE DEF m, up, x, r
    <3>4. x.base = r.base + up /\ x.length = r.length - up /\ x.type = r.type
      BY <2>1, <3>2, <3>3
    <3> QED  BY <3>4 DEF r
  <2>3. DOMAIN m = 1 .. Len(e)
    <3> HIDE DEF m
    <3> QED  BY <1>2
  <2>4. moved = [m EXCEPT ![a] = x]
    <3> HIDE DEF m, up
    <3> QED  BY <1>8, <2>3
  <2> HIDE DEF moved, x, b, c, t, m
  <2>5. DOMAIN moved = 1 .. Len(e) /\ moved = [k \in 1 .. Len(e) |-> moved[k]]
    BY <2>3, <2>4
  <2>6. Len(moved) = Len(e)
    BY <1>4, <2>5
  <2>7. moved[a] = x /\ \A k \in 1 .. Len(e) : k # a => moved[k] = m[k]
    BY <1>8, <2>3, <2>4
  <2> QED  BY <2>2, <2>6, <2>7 DEF b, c, t
<1>13. \A k \in Usable : /\ moved[k].base = low(k) * P
                         /\ moved[k].length = many(k) * P
  <2> SUFFICES ASSUME NEW k \in Usable
               PROVE  moved[k].base = low(k) * P /\ moved[k].length = many(k) * P
    OBVIOUS
  <2> HIDE DEF moved, m, up, bp, n, e, P
  <2>1. k \in 1 .. Len(e)
    OBVIOUS
  <2>2. /\ h[k].base \in Nat /\ h[k].length \in Nat
        /\ m[k].base = h[k].base * P /\ m[k].length = h[k].length * P
    BY <1>3, <1>5, <2>1
  <2>3. CASE k # a
    BY <1>12, <2>1, <2>2, <2>3
  <2>4. CASE k = a
    <3>1. moved[k].base = h[k].base * P + bp * P /\ moved[k].length = h[k].length * P - bp * P
      BY <1>10, <1>12, <2>2, <2>4
    <3>2. low(k) = h[k].base + bp /\ many(k) = h[k].length - bp
      BY <2>4
    <3> DEFINE x == h[k].base
               y == h[k].length
    <3> HIDE DEF x, y
    <3>3. x * P + bp * P = (x + bp) * P /\ y * P - bp * P = (y - bp) * P
      <4>1. x \in Int /\ y \in Int /\ bp \in Int /\ P \in Int
        <5>1. P \in Nat
          BY <1>1 DEF P
        <5> QED  BY <1>10, <2>2, <5>1 DEF x, y
      <4> QED  BY ONLY <4>1, Z3
    <3> QED  BY <3>1, <3>2, <3>3 DEF x, y
  <2> QED  BY <2>3, <2>4
<1> HIDE DEF moved
<1>14. \A p : p \in freed <=> \E k \in Usable : p \in low(k) .. low(k) + many(k) - 1
  <2>1. Cleared1 = {moved[k] : k \in Usable}
    <3> HIDE DEF e, m, Usable
    <3>1. {j \in 1 .. Len(moved) : moved[j].type = "USABLE"} = Usable
      BY <1>4, <1>5, <1>12
    <3> QED  BY <3>1
  <2>2. \A k \in Usable : Run(ALIGN_DOWN(moved[k].base), ALIGN_UP(moved[k].length)) =
                              low(k) .. low(k) + many(k) - 1
    <3> SUFFICES ASSUME NEW k \in Usable
                 PROVE  Run(ALIGN_DOWN(moved[k].base), ALIGN_UP(moved[k].length)) =
                            low(k) .. low(k) + many(k) - 1
      OBVIOUS
    <3> HIDE DEF low, many, Usable
    <3> QED  BY <1>11, <1>13, RunOfPages
  <2> HIDE DEF Cleared1, Usable, low, many
  <2>3. freed = UNION {Run(ALIGN_DOWN(moved[k].base), ALIGN_UP(moved[k].length)) : k \in Usable}
    BY <2>1
  <2> HIDE DEF freed
  <2> QED  BY <2>2, <2>3
  \* Other usable entries lie apart from it, so what is cleared is all but it.
<1>15. freed = FreedAtInit(h)
  <2> DEFINE used1 == h[a].base .. h[a].base + bp - 1
  <2>1. \A p : p \in FreedAtInit(h) <=> /\ \E k \in Usable : p \in Pages(h[k])
                                        /\ p \notin used1
    <3>1. {j \in 1 .. Len(h) : h[j].usable} = Usable
      BY <1>3, <1>4
    <3>2. \A p : (\A i_1 \in 1 .. Len(h) :
                     HoldsBitmap(h, i_1) => p \notin h[i_1].base .. h[i_1].base + bp - 1)
                 <=> p \notin used1
      BY <1>3, <1>8, <1>9
    <3> HIDE DEF Usable, used1
    <3> QED  BY <3>1, <3>2 DEF FreedAtInit
  <2>2. ASSUME NEW k \in Usable, k # a
        PROVE  Pages(h[k]) \cap used1 = {}
    <3>1. /\ k < a => h[k].base + h[k].length <= h[a].base
          /\ a < k => h[a].base + h[a].length <= h[k].base
      <4>1. MemmapOK(h) /\ k \in 1 .. Len(h) /\ a \in 1 .. Len(h) /\ h[k].usable /\ h[a].usable
        BY <1>2, <1>3, <1>8, PmmAssumption
      <4> QED  BY <4>1 DEF MemmapOK
    <3>2. h[k].base \in Nat /\ h[k].length \in Nat /\ h[a].base \in Nat /\ h[a].length \in Nat
      BY <1>3, <1>8
    <3>3. k \in Int /\ a \in Int
      BY <1>4, <1>8
    <3>4. bp \in Nat /\ bp <= h[a].length
      BY <1>10
    <3> HIDE DEF bp
    <3> DEFINE x == h[k].base
               y == h[k].length
               z == h[a].base
               v == h[a].length
    <3>5. Pages(h[k]) = x .. x + y - 1 /\ h[a].base .. h[a].base + bp - 1 = z .. z + bp - 1
      BY DEF Pages
    <3> HIDE DEF x, y, z, v
    <3>6. (x .. x + y - 1) \cap (z .. z + bp - 1) = {}
      <4>1. /\ x \in Nat /\ y \in Nat /\ z \in Nat /\ v \in Nat
            /\ bp \in Nat /\ bp <= v
            /\ k < a => x + y <= z
            /\ a < k => z + v <= x
        BY <3>1, <3>2, <3>4 DEF x, y, z, v
      <4> QED  BY <2>2, <3>3, <4>1, Apart
    <3> QED  BY <3>5, <3>6
  <2>3. \A k \in Usable : Pages(h[k]) \ used1 = low(k) .. low(k) + many(k) - 1
    <3> SUFFICES ASSUME NEW k \in Usable
                 PROVE  Pages(h[k]) \ used1 = low(k) .. low(k) + many(k) - 1
      OBVIOUS
    <3>1. CASE k # a
      BY <2>2, <3>1 DEF Pages
    <3>2. CASE k = a
      <4>1. h[a].base \in Nat /\ h[a].length \in Nat
        BY <1>3, <1>8
      <4>2. low(a) = h[a].base + bp /\ many(a) = h[a].length - bp
        OBVIOUS
      <4> HIDE DEF bp, low, many, Usable
      <4> QED  BY <1>10, <3>2, <4>1, <4>2 DEF Pages
    <3> QED  BY <3>1, <3>2
  <2> HIDE DEF used1, freed, low, many, Usable
  <2>4. \A p : p \in freed <=> p \in FreedAtInit(h)
    BY <1>14, <2>1, <2>3
  <2> QED  BY <2>4
<1>16. Run(m[a].base, n) = MarkedAtInit(h)
  <2>1. Run(m[a].base, n) = h[a].base .. h[a].base + (n \div P) - 1
    <3>1. m[a].base = h[a].base * P /\ h[a].base \in Nat
      BY <1>3, <1>5, <1>8
    <3> HIDE DEF n
    <3> QED  BY <3>1, RunOfPages
  <2>2. \A p : p \in MarkedAtInit(h) <=>
                 p \in 0 .. n * BITS - 1 /\ p \in h[a].base .. h[a].base + (n \div P) - 1
    BY <1>3, <1>8, <1>9 DEF MarkedAtInit, Bits
  <2> DEFINE N == n * BITS
             q == n \div P
  <2>3. N \in Int
    <3> HIDE DEF n
    <3> QED  BY <1>1, <1>3, Z3
  <2>4. h[a].base \in Nat /\ h[a].length \in Nat /\ h[a].base + h[a].length <= N
    BY <1>3, <1>8
  <2>5. q \in Nat /\ q <= bp /\ bp <= h[a].length /\ bp \in Nat
    BY <1>10
  <2> HIDE DEF N, q, bp
  <2>6. \A p \in h[a].base .. h[a].base + q - 1 : p \in 0 .. N - 1
    BY <2>3, <2>4, <2>5
  <2> QED  BY <2>1, <2>2, <2>6 DEF N, q
<1>17. pmm_init_bytes(m) = (0 .. n * BITS - 1 \ freed) \cup Run(m[a].base, n)
  <2>1. BitmapBytes(m) = n
    <3>1. m[Len(m)].base = e[Len(e)].base /\ m[Len(m)].length = e[Len(e)].length
      <4>1. Len(e) \in 1 .. Len(e)
        <5>1. Len(e) # 0
          BY <1>2, <1>3
        <5> QED  BY <1>4, <5>1
      <4> HIDE DEF e, m
      <4> QED  BY <1>2, <1>5, <4>1
    <3> HIDE DEF m, e
    <3> QED  BY <3>1 DEF BitmapBytes, Last
  <2> HIDE DEF m, n
  <2> QED  BY <2>1 DEF pmm_init_bytes, a, Enough1, moved
<1>18. pmm_init_bytes(m) = InitialUsed(h)
  <2>1. Bits(h) = 0 .. n * BITS - 1
    BY <1>3 DEF Bits
  <2> HIDE DEF freed, n, m
  <2> QED  BY <1>15, <1>16, <1>17, <2>1 DEF InitialUsed
<1> QED  BY <1>2, <1>3, <1>8, <1>9, <1>18

-----------------------------------------------------------------------------
\* The boot's own steps leave the allocator alone, and it begins only when
\* the boot is over, on the bitmap that pmm_init() has made.
LEMMA BootStepScans == BootNext => [ScanNext]_scanVars
BY DEF BootNext, FindModule, NotElf, LoadSegment, Loaded, Up, Panic, bootVars

LEMMA BootInitScans == BootInit => ScanInit
<1> SUFFICES ASSUME BootInit
             PROVE  ScanInit
  OBVIOUS
<1>1. /\ tags \in TagLists /\ handover = Described(tags)
      /\ used = pmm_init_bytes(stivale2_parse_header(tags).memmaps)
      /\ last_index = 0
      /\ holds = [c \in Client |-> NoRange]
      /\ ScanLocals
  BY DEF BootInit
<1>2. /\ handover \in Handovers /\ \E k \in 1 .. Len(handover) : HoldsBitmap(handover, k)
      /\ used = InitialUsed(handover)
  BY <1>1, InitialBitmap
<1> QED  BY <1>1, <1>2 DEF ScanInit, pmm_init

LEMMA BootScans == BootSpec => []ScanInv /\ ScanInit /\ [][ScanNext]_scanVars
<1>1. [BootNext]_bootVars => [ScanNext]_scanVars
  BY BootStepScans DEF bootVars
<1> QED  BY <1>1, BootInitScans, ScanInitInv, ScanNextInv, PTL DEF BootSpec

\* From the tags that the boot loader passes to a running allocator: the
\* pages of its callers stay apart, none is lost, all are usable, and ...
THEOREM BootKeepsPages ==
    BootSpec => [](PmmTypeOK /\ ExclusivePages /\ OnlyUsablePages /\ NoLostPage)
<1>1. ScanInv => PmmTypeOK /\ ExclusivePages /\ OnlyUsablePages /\ NoLostPage
  BY PmmInvFacts DEF ScanInv
<1> QED  BY <1>1, BootScans, PTL

\* ... each call does what module Pmm says, beginning with its pmm_init.
THEOREM BootImplementsPmm == BootSpec => Refines
<1>1. ScanInv /\ [ScanNext]_scanVars => [Atomic!PmmNext]_Atomic!pmmVars
  <2>1. UNCHANGED scanVars => UNCHANGED Atomic!pmmVars
    BY DEF scanVars, Atomic!pmmVars
  <2> QED  BY <2>1, ScanStepRefines
<1> QED  BY <1>1, ScanInitRefines, BootScans, PTL DEF Refines, Atomic!PmmSpec

-----------------------------------------------------------------------------
\* The program that is loaded.  With one module, the one that is found by its
\* name is that module; and the headers that the loop has looked at, which
\* are those before the turn, have their bytes in place.
RightModule ==
    LET modules == LastOf(tags, "modules").modules IN
    Len(modules) = 1 => modules[found] = Test

FilledSoFar ==
    WellLinked =>
        \A k \in 1 .. turn - 1 : elf.phdrs[k].type = "LOAD" => Filled(elf.phdrs[k])

LoadInv ==
    /\ boot = "find" => tags \in TagLists /\ turn = 0
    /\ boot \in {"load", "loaded"} =>
          elf \in Elfs /\ turn \in 0 .. Len(elf.phdrs) /\ RightModule /\ FilledSoFar
    /\ boot = "loaded" => turn = Len(elf.phdrs)

LEMMA ParsedModules ==
    ASSUME NEW list \in TagLists,
           NEW m, m = stivale2_parse_header(list).modules,
           NEW names, names = LastOf(list, "modules").modules
    PROVE  /\ names \in Seq(Seq(STRING))
           /\ m.lengths = [k \in 1 .. Len(names) |-> Len(names[k])]
           /\ m.string = IF names = <<>> THEN <<>> ELSE Last(names)
<1> DEFINE last == LastOf(list, "modules")
<1>1. list \in Seq(Tag) /\ OfKind(list, "modules") # {}
  BY BootAssumption
<1>2. Until(list, "modules", Len(list)) = OfKind(list, "modules")
  BY DEF Until, OfKind
<1>3. m = stivale2_parse_module(last)
  BY <1>1, <1>2, HeaderParsed DEF Parsed, LastOf
<1>4. last \in Tag
  <2> DEFINE K == OfKind(list, "modules")
  <2>1. K \subseteq 1 .. Len(list) /\ K # {} /\ Len(list) \in Nat
    BY <1>1 DEF OfKind
  <2> HIDE DEF K
  <2>2. Max(K) \in 1 .. Len(list)
    BY <2>1, MaxIs
  <2> QED  BY <1>1, <2>2, ElementOfSeq DEF LastOf, K
<1>5. names \in Seq(Seq(STRING))
  BY <1>4 DEF Tag
<1>6. m = [lengths |-> [k \in 1 .. Len(names) |-> Len(names[k])],
           string |-> IF names = <<>> THEN <<>> ELSE Last(names)]
  BY <1>3 DEF stivale2_parse_module
<1> DEFINE x == [k \in 1 .. Len(names) |-> Len(names[k])]
           y == IF names = <<>> THEN <<>> ELSE Last(names)
<1> HIDE DEF x, y
<1>7. m = [lengths |-> x, string |-> y]
  BY <1>6 DEF x, y
<1>8. m.lengths = x /\ m.string = y
  BY <1>7
<1> QED  BY <1>5, <1>8 DEF x, y

\* A name that is equal to the first letters of `string', or of nothing once
\* the copy is overwritten, is the name of the module when there is but one.
LEMMA FindRight ==
    ASSUME tags \in TagLists, FindModule, boot' = "load"
    PROVE  RightModule' /\ elf' \in Elfs /\ tags' = tags /\ turn' = turn
<1> DEFINE names == LastOf(tags, "modules").modules
           m == stivale2_parse_header(tags).modules
           Equal(string) == {k \in 1 .. Len(m.lengths) : str_eq(m.lengths[k], string, Test)}
<1>1. PICK string \in {m.string, <<>>} : Equal(string) # {} /\ found' = Min(Equal(string)) /\ elf' \in Elfs
  BY DEF FindModule
<1>2. tags' = tags /\ turn' = turn
  BY DEF FindModule
<1>3. /\ names \in Seq(Seq(STRING))
      /\ m.lengths = [k \in 1 .. Len(names) |-> Len(names[k])]
      /\ m.string = IF names = <<>> THEN <<>> ELSE Last(names)
  BY ParsedModules
<1>4. ASSUME Len(names) = 1
      PROVE  names[found'] = Test
  <2> DEFINE e == names[1]
             T == Equal(string)
  <2> HIDE DEF names, m
  <2>1. e \in Seq(STRING) /\ Last(names) = e /\ names # <<>>
    <3>1. 1 \in 1 .. Len(names) /\ names # <<>>
      BY <1>4
    <3>2. names[1] \in Seq(STRING)
      BY <1>3, <3>1, ElementOfSeq
    <3> QED  BY <1>4, <3>1, <3>2 DEF Last, e
  <2>2. m.lengths = [k \in 1 .. 1 |-> Len(names[k])] /\ m.string = e
    BY <1>3, <1>4, <2>1
  <2>3. Len(m.lengths) = 1 /\ m.lengths[1] = Len(e)
    BY <2>2
  <2>4. T \subseteq {1} /\ T # {}
    BY <1>1, <2>3
  <2>5. T = {1} /\ T \subseteq Nat
    BY <2>4
  <2>6. str_eq(Len(e), string, Test)
    BY <2>3, <2>5
  <2> HIDE DEF T
  <2>7. found' = 1
    <3>1. found' = Min(T)
      BY <1>1 DEF T
    <3> QED  BY <2>5, <3>1, MinIs
  <2>8. Test = SubSeq(string, 1, Len(e)) /\ Len(string) >= Len(e)
    BY <2>6 DEF str_eq
  <2> HIDE DEF e
  <2>9. CASE string = e
    BY <2>1, <2>7, <2>8, <2>9 DEF e
  <2>10. CASE string = <<>>
    <3>1. Len(e) = 0 /\ e = <<>>
      BY <2>1, <2>8, <2>10
    <3>2. SubSeq(string, 1, Len(e)) = <<>>
      BY <2>10, <3>1
    <3> QED  BY <2>7, <2>8, <3>1, <3>2 DEF e
  <2> QED  BY <1>1, <2>2, <2>9, <2>10
<1> QED  BY <1>1, <1>2, <1>4 DEF RightModule

LEMMA PagesEnough ==
    ASSUME NEW v \in Nat, NEW a \in Nat, a >= 1
    PROVE  ((v + a - 1) \div a) * a >= v /\ ((v + a - 1) \div a) * a \in Int
<1> DEFINE w == v + a - 1
           q == w \div a
           x == q * a
<1>1. w \in Nat
  OBVIOUS
<1>2. q \in Int /\ w < (q + 1) * a
  <2> HIDE DEF w
  <2> QED  BY ONLY <1>1, a \in Nat, a >= 1, Z3
<1> HIDE DEF q
<1>3. (q + 1) * a = x + a /\ x \in Int
  BY <1>2, Z3
<1> HIDE DEF x
<1>4. x >= v
  BY <1>2, <1>3
<1> QED  BY <1>3, <1>4 DEF x, q, w

LEMMA SegmentFills ==
    ASSUME NEW h \in Header, h.vaddr % PAGE_SIZE = 0, h.filesz <= h.memsz,
           NEW b \in 0 .. h.filesz - 1
    PROVE  /\ h.vaddr + b \in DOMAIN Segment(h)
           /\ Segment(h)[h.vaddr + b] = <<"file", h.offset + b>>
<1> DEFINE P == PAGE_SIZE
           from == h.vaddr
           n == ALIGN_UP(h.memsz)
<1>1. P \in Nat /\ P >= 1
  BY PmmAssumption
<1>2. /\ from \in Nat /\ h.memsz \in Nat /\ h.filesz \in Nat /\ h.offset \in Nat
      /\ b \in Nat /\ b < h.filesz
  BY DEF Header
<1>3. ALIGN_DOWN(from) = from
  BY <1>1, <1>2, MultipleOf DEF ALIGN_DOWN
<1>4. n \in Int /\ n >= h.memsz
  <2>1. n = ((h.memsz + P - 1) \div P) * P
    BY DEF ALIGN_UP, ALIGN_DOWN
  <2> HIDE DEF P, n
  <2> QED  BY <1>1, <1>2, <2>1, PagesEnough
<1> DEFINE F == [v \in from .. from + n - 1 |->
                    IF v - from < h.filesz THEN <<"file", h.offset + v - from>>
                    ELSE IF v - from < h.memsz THEN <<"low", v - from - h.filesz>>
                    ELSE <<"old", 0>>]
<1>5. Segment(h) = F
  BY <1>3 DEF Segment
<1> HIDE DEF n, from
<1>6. from + b \in from .. from + n - 1 /\ (from + b) - from = b /\ h.offset + (from + b) - from = h.offset + b
  BY <1>2, <1>4
<1>7. from + b \in DOMAIN F /\ F[from + b] = <<"file", h.offset + b>>
  BY <1>2, <1>6
<1> QED  BY <1>5, <1>7 DEF from

\* A segment is filled when it is copied, and a later one leaves it alone.
LEMMA LoadSegmentInv ==
    ASSUME LoadInv, LoadSegment
    PROVE  LoadInv'
<1>1. /\ boot = "load" /\ boot' = "load" /\ turn' = turn + 1 /\ turn < Len(elf.phdrs)
      /\ image' = IF Phdr.type = "LOAD" THEN Over(Segment(Phdr), image) ELSE image
      /\ tags' = tags /\ found' = found /\ elf' = elf
  BY DEF LoadSegment
<1>2. /\ elf \in Elfs /\ turn \in 0 .. Len(elf.phdrs) /\ RightModule /\ FilledSoFar
  BY <1>1 DEF LoadInv
<1>3. elf \in [magic : BOOLEAN, phdrs : Seq(Header), stray : Header]
  BY <1>2, ElfAssumption
<1>4. elf.phdrs \in Seq(Header) /\ Len(elf.phdrs) \in Nat
  BY <1>3
<1>5. \A k \in 1 .. Len(elf.phdrs) : elf.phdrs[k] \in Header
  BY <1>4, ElementOfSeq
<1>6. turn' \in 0 .. Len(elf.phdrs)
  BY <1>1, <1>2, <1>4
<1>7. RightModule'
  BY <1>1, <1>2 DEF RightModule
<1>8. FilledSoFar'
  <2> DEFINE Loads == {k \in 1 .. Len(elf.phdrs) : elf.phdrs[k].type = "LOAD"}
  <2>1. SUFFICES ASSUME WellLinked, NEW k \in 1 .. turn, elf.phdrs[k].type = "LOAD",
                        NEW b \in 0 .. elf.phdrs[k].filesz - 1
                 PROVE  /\ elf.phdrs[k].vaddr + b \in DOMAIN image'
                        /\ image'[elf.phdrs[k].vaddr + b] = <<"file", elf.phdrs[k].offset + b>>
    <3>1. WellLinked' <=> WellLinked
      BY <1>1 DEF WellLinked
    <3>2. 1 .. turn' - 1 = 1 .. turn
      BY <1>1, <1>2, <1>4
    <3> QED  BY <1>1, <3>1, <3>2 DEF FilledSoFar, Filled
  <2> DEFINE h == elf.phdrs[k]
             at == h.vaddr + b
  <2>2. k \in Loads /\ h \in Header /\ turn # 0 /\ Phdr = elf.phdrs[turn]
    BY <1>2, <1>4, <1>5, <2>1 DEF Phdr
  <2>3. /\ h.vaddr % PAGE_SIZE = 0 /\ h.filesz <= h.memsz
        /\ \A j \in Loads \ {k} : DOMAIN Segment(h) \cap DOMAIN Segment(elf.phdrs[j]) = {}
    BY <2>1, <2>2 DEF WellLinked
  <2>4. at \in DOMAIN Segment(h) /\ Segment(h)[at] = <<"file", h.offset + b>>
    BY <2>1, <2>2, <2>3, SegmentFills
  <2>5. CASE k = turn
    <3>1. Phdr = h /\ image' = Over(Segment(h), image)
      BY <1>1, <2>1, <2>2, <2>5
    <3> HIDE DEF h, at
    <3>2. at \in DOMAIN image' /\ image'[at] = Segment(h)[at]
      BY <2>4, <3>1 DEF Over
    <3> QED  BY <2>4, <3>2 DEF h, at
  <2>6. CASE k # turn
    <3>1. k \in 1 .. turn - 1
      BY <1>2, <1>4, <2>6
    <3>2. at \in DOMAIN image /\ image[at] = <<"file", h.offset + b>>
      BY <1>2, <2>1, <3>1 DEF FilledSoFar, Filled
    <3>3. CASE Phdr.type = "LOAD"
      <4>1. turn \in Loads \ {k}
        BY <1>2, <1>4, <2>2, <2>6, <3>3
      <4>2. at \notin DOMAIN Segment(Phdr)
        BY <2>2, <2>3, <2>4, <4>1
      <4>3. image' = Over(Segment(Phdr), image)
        BY <1>1, <3>3
      <4> HIDE DEF h, at
      <4>4. at \in DOMAIN image' /\ image'[at] = image[at]
        BY <3>2, <4>2, <4>3 DEF Over
      <4> QED  BY <3>2, <4>4 DEF h, at
    <3>4. CASE Phdr.type # "LOAD"
      BY <1>1, <3>2, <3>4
    <3> QED  BY <3>3, <3>4
  <2> QED  BY <2>5, <2>6
<1> QED  BY <1>1, <1>2, <1>6, <1>7, <1>8 DEF LoadInv

LEMMA LoadNextInv == LoadInv /\ [BootNext]_bootVars => LoadInv'
<1> SUFFICES ASSUME LoadInv, [BootNext]_bootVars
             PROVE  LoadInv'
  OBVIOUS
<1>1. CASE FindModule
  <2>1. boot = "find" /\ tags \in TagLists /\ turn = 0
    BY <1>1 DEF FindModule, LoadInv
  <2>2. CASE boot' = "load"
    <3>1. RightModule' /\ elf' \in Elfs /\ turn' = 0
      BY <1>1, <2>1, <2>2, FindRight
    <3>2. elf' \in [magic : BOOLEAN, phdrs : Seq(Header), stray : Header]
      BY <3>1, ElfAssumption
    <3>3. Len(elf'.phdrs) \in Nat
      <4>1. elf'.phdrs \in Seq(Header)
        BY <3>2
      <4> QED  BY <4>1
    <3>4. turn' \in 0 .. Len(elf'.phdrs) /\ 1 .. turn' - 1 = {}
      BY <3>1, <3>3
    <3>5. FilledSoFar'
      BY <3>4 DEF FilledSoFar
    <3> QED  BY <2>2, <3>1, <3>4, <3>5 DEF LoadInv
  <2>3. CASE boot' # "load"
    BY <1>1, <2>3 DEF FindModule, LoadInv
  <2> QED  BY <2>2, <2>3
<1>2. CASE NotElf
  BY <1>2 DEF NotElf, LoadInv
<1>3. CASE LoadSegment
  BY <1>3, LoadSegmentInv
<1>4. CASE Loaded
  <2>1. /\ boot = "load" /\ boot' = "loaded" /\ turn = Len(elf.phdrs)
        /\ tags' = tags /\ found' = found /\ elf' = elf /\ turn' = turn /\ image' = image
    BY <1>4 DEF Loaded
  <2>2. (RightModule /\ FilledSoFar) => (RightModule /\ FilledSoFar)'
    BY <2>1 DEF RightModule, FilledSoFar, WellLinked, Filled
  <2> QED  BY <2>1, <2>2 DEF LoadInv
<1>5. CASE Up \/ Panic \/ (boot = "up" /\ ScanNext /\ UNCHANGED loadVars)
  BY <1>5 DEF Up, Panic, bootVars, loadVars, LoadInv
<1>6. CASE UNCHANGED bootVars
  <2>1. /\ boot' = boot /\ tags' = tags /\ found' = found /\ elf' = elf /\ turn' = turn
        /\ image' = image
    BY <1>6 DEF bootVars, loadVars
  <2>2. (RightModule /\ FilledSoFar) => (RightModule /\ FilledSoFar)'
    BY <2>1 DEF RightModule, FilledSoFar, WellLinked, Filled
  <2> QED  BY <2>1, <2>2 DEF LoadInv
<1> QED  BY <1>1, <1>2, <1>3, <1>4, <1>5, <1>6 DEF BootNext

\* The module named "test" is the one that runs, when it is the only one, and
\* a well linked program finds at its addresses what its file has for them,
\* whatever its segments are: those before the last header, which the loop
\* never reaches, are all it has to load.
THEOREM BootRunsTest == BootSpec => []RunsTest
<1>1. BootInit => LoadInv
  BY DEF BootInit, LoadInv
<1>2. LoadInv => RunsTest
  <2> SUFFICES ASSUME LoadInv, boot = "loaded"
               PROVE  /\ RightModule
                      /\ WellLinked => \A k \in 1 .. Len(elf.phdrs) :
                                          elf.phdrs[k].type = "LOAD" => Filled(elf.phdrs[k])
    BY DEF RunsTest, RightModule
  <2>1. elf \in Elfs /\ turn = Len(elf.phdrs) /\ turn \in 0 .. Len(elf.phdrs) /\ RightModule /\ FilledSoFar
    BY DEF LoadInv
  <2>2. ASSUME WellLinked, NEW k \in 1 .. Len(elf.phdrs), elf.phdrs[k].type = "LOAD"
        PROVE  Filled(elf.phdrs[k])
    <3>1. k # Len(elf.phdrs)
      BY <2>2 DEF WellLinked
    <3>2. k \in 1 .. turn - 1
      BY <2>1, <3>1
    <3> QED  BY <2>1, <2>2, <3>2 DEF FilledSoFar
  <2> QED  BY <2>1, <2>2
<1> QED  BY <1>1, <1>2, LoadNextInv, PTL DEF BootSpec
=============================================================================
