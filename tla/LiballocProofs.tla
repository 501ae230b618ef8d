--------------------------- MODULE LiballocProofs ---------------------------
(***************************************************************************)
(* What is proved of the kernel's heap, for any sizes of headers, pages,   *)
(* requests and major blocks: whatever is allocated, freed and shrunk, the *)
(* minor blocks of a major lie one after the other inside its pages, the   *)
(* lists hold just what the callers hold, the best bet is never a block    *)
(* that has been given back, and no two blocks in use overlap.             *)
(***************************************************************************)
EXTENDS Liballoc, SequenceTheorems, WellFoundedInduction, TLAPS

Block == [at : Nat, size : Nat, req : Nat]
MajorBlock == [id : Ids, pages : Nat, size : Nat, usage : Int, minors : Seq(Block)]

End(min) == min.at + Minor + min.size

\* The blocks of a major lie in order: each of them, and not only the next,
\* starts where those before it have ended.
InOrder(m) ==
    /\ m \in MajorBlock
    /\ m.size = m.pages * PageSize
    /\ \A k \in 1 .. Len(m.minors) :
          /\ Major <= m.minors[k].at
          /\ End(m.minors[k]) <= m.size
          /\ m.minors[k].req + PAD <= m.minors[k].size
    /\ \A j, k \in 1 .. Len(m.minors) : j < k => End(m.minors[j]) <= m.minors[k].at

\* What the callers hold in a major.
HeldIn(m) == {PointerIn(m, m.minors[k]) : k \in 1 .. Len(m.minors)}

HeapInv ==
    /\ majors \in Seq(MajorBlock)
    /\ \A i \in 1 .. Len(majors) : InOrder(majors[i]) /\ majors[i].minors # <<>>
    /\ \A i, j \in 1 .. Len(majors) : majors[i].id = majors[j].id => i = j
    /\ bestBet # NULL => \E i \in 1 .. Len(majors) : majors[i].id = bestBet
    /\ pointers = UNION {HeldIn(majors[i]) : i \in 1 .. Len(majors)}

-----------------------------------------------------------------------------
\* What InsertAt and RemoveAt of the community modules return.
LEMMA InsertFacts ==
    ASSUME NEW S, NEW s \in Seq(S), NEW i \in 1 .. Len(s) + 1, NEW e \in S
    PROVE  /\ InsertAt(s, i, e) \in Seq(S)
           /\ Len(InsertAt(s, i, e)) = Len(s) + 1
           /\ \A j \in 1 .. Len(s) + 1 :
                 InsertAt(s, i, e)[j] = IF j < i THEN s[j] ELSE IF j = i THEN e ELSE s[j - 1]
<1> DEFINE a == SubSeq(s, 1, i - 1)
           b == SubSeq(s, i, Len(s))
<1>1. Len(s) \in Nat /\ \A j \in 1 .. Len(s) : s[j] \in S
  BY LenProperties, ElementOfSeq
<1>2. /\ a \in Seq(S) /\ Len(a) = i - 1
      /\ \A j \in 1 .. i - 1 : a[j] = s[j]
  <2>1. \A j \in 1 .. i - 1 : s[j] \in S
    BY <1>1
  <2>2. i - 1 \in Int /\ 1 \in Int
    OBVIOUS
  <2>3. /\ a \in Seq(S) /\ Len(a) = IF 1 <= i - 1 THEN i - 1 - 1 + 1 ELSE 0
        /\ \A j \in 1 .. i - 1 - 1 + 1 : a[j] = s[1 + j - 1]
    BY <2>1, <2>2, SubSeqProperties
  <2> QED  BY <2>3
<1>3. /\ b \in Seq(S) /\ Len(b) = Len(s) - i + 1
      /\ \A j \in 1 .. Len(s) - i + 1 : b[j] = s[i + j - 1]
  <2>1. \A j \in i .. Len(s) : s[j] \in S
    BY <1>1
  <2>2. i \in Int /\ Len(s) \in Int
    BY <1>1
  <2>3. /\ b \in Seq(S) /\ Len(b) = IF i <= Len(s) THEN Len(s) - i + 1 ELSE 0
        /\ \A j \in 1 .. Len(s) - i + 1 : b[j] = s[i + j - 1]
    BY <2>1, <2>2, SubSeqProperties
  <2> QED  BY <1>1, <2>3
<1>4. <<e>> \in Seq(S) /\ Len(<<e>>) = 1 /\ <<e>>[1] = e
  OBVIOUS
<1> HIDE DEF a, b
<1>5. /\ a \o <<e>> \in Seq(S) /\ Len(a \o <<e>>) = i
      /\ \A j \in 1 .. i : (a \o <<e>>)[j] = IF j < i THEN s[j] ELSE e
  <2>1. /\ a \o <<e>> \in Seq(S) /\ Len(a \o <<e>>) = i - 1 + 1
        /\ \A j \in 1 .. i - 1 + 1 :
              (a \o <<e>>)[j] = IF j <= i - 1 THEN a[j] ELSE <<e>>[j - (i - 1)]
    BY <1>2, <1>4, ConcatProperties
  <2> QED  BY <1>2, <1>4, <2>1
<1>6. InsertAt(s, i, e) = (a \o <<e>>) \o b
  BY DEF InsertAt, a, b
<1>7. /\ (a \o <<e>>) \o b \in Seq(S) /\ Len((a \o <<e>>) \o b) = i + (Len(s) - i + 1)
      /\ \A j \in 1 .. i + (Len(s) - i + 1) :
            ((a \o <<e>>) \o b)[j] = IF j <= i THEN (a \o <<e>>)[j] ELSE b[j - i]
  <2> DEFINE c == a \o <<e>>
  <2>1. c \in Seq(S) /\ b \in Seq(S) /\ Len(c) = i /\ Len(b) = Len(s) - i + 1
    BY <1>3, <1>5
  <2> HIDE DEF c
  <2>2. /\ c \o b \in Seq(S) /\ Len(c \o b) = Len(c) + Len(b)
        /\ \A j \in 1 .. Len(c) + Len(b) : (c \o b)[j] = IF j <= Len(c) THEN c[j] ELSE b[j - Len(c)]
    BY <2>1, ConcatProperties
  <2>3. /\ c \o b \in Seq(S) /\ Len(c \o b) = i + (Len(s) - i + 1)
        /\ \A j \in 1 .. i + (Len(s) - i + 1) : (c \o b)[j] = IF j <= i THEN c[j] ELSE b[j - i]
    BY ONLY <2>1, <2>2
  <2> QED  BY <2>3 DEF c
<1>8. i + (Len(s) - i + 1) = Len(s) + 1
  BY <1>1
<1>9. ASSUME NEW j \in 1 .. Len(s) + 1
      PROVE  InsertAt(s, i, e)[j] = IF j < i THEN s[j] ELSE IF j = i THEN e ELSE s[j - 1]
  <2>1. CASE j <= i
    BY <1>5, <1>6, <1>7, <1>8, <2>1
  <2>2. CASE j > i
    <3>1. j - i \in 1 .. Len(s) - i + 1 /\ i + (j - i) - 1 = j - 1 /\ ~(j <= i)
      BY <1>1, <2>2
    <3> QED  BY <1>3, <1>6, <1>7, <1>8, <2>2, <3>1
  <2> QED  BY <2>1, <2>2
<1> QED  BY <1>6, <1>7, <1>8, <1>9

LEMMA RemoveFacts ==
    ASSUME NEW S, NEW s \in Seq(S), NEW i \in 1 .. Len(s)
    PROVE  /\ RemoveAt(s, i) \in Seq(S)
           /\ Len(RemoveAt(s, i)) = Len(s) - 1
           /\ \A j \in 1 .. Len(s) - 1 :
                 RemoveAt(s, i)[j] = IF j < i THEN s[j] ELSE s[j + 1]
<1> DEFINE a == SubSeq(s, 1, i - 1)
           b == SubSeq(s, i + 1, Len(s))
<1>1. Len(s) \in Nat /\ \A j \in 1 .. Len(s) : s[j] \in S
  BY LenProperties, ElementOfSeq
<1>2. /\ a \in Seq(S) /\ Len(a) = i - 1
      /\ \A j \in 1 .. i - 1 : a[j] = s[j]
  <2>1. \A j \in 1 .. i - 1 : s[j] \in S
    BY <1>1
  <2>2. i - 1 \in Int /\ 1 \in Int
    OBVIOUS
  <2>3. /\ a \in Seq(S) /\ Len(a) = IF 1 <= i - 1 THEN i - 1 - 1 + 1 ELSE 0
        /\ \A j \in 1 .. i - 1 - 1 + 1 : a[j] = s[1 + j - 1]
    BY <2>1, <2>2, SubSeqProperties
  <2> QED  BY <2>3
<1>3. /\ b \in Seq(S) /\ Len(b) = Len(s) - i
      /\ \A j \in 1 .. Len(s) - i : b[j] = s[i + j]
  <2>1. \A j \in i + 1 .. Len(s) : s[j] \in S
    BY <1>1
  <2>2. i + 1 \in Int /\ Len(s) \in Int
    BY <1>1
  <2>3. /\ b \in Seq(S) /\ Len(b) = IF i + 1 <= Len(s) THEN Len(s) - (i + 1) + 1 ELSE 0
        /\ \A j \in 1 .. Len(s) - (i + 1) + 1 : b[j] = s[i + 1 + j - 1]
    BY <2>1, <2>2, SubSeqProperties
  <2> QED  BY <1>1, <2>3
<1> HIDE DEF a, b
<1>4. RemoveAt(s, i) = a \o b
  BY DEF RemoveAt, a, b
<1>5. /\ a \o b \in Seq(S) /\ Len(a \o b) = i - 1 + (Len(s) - i)
      /\ \A j \in 1 .. i - 1 + (Len(s) - i) :
            (a \o b)[j] = IF j <= i - 1 THEN a[j] ELSE b[j - (i - 1)]
  <2>1. /\ a \o b \in Seq(S) /\ Len(a \o b) = Len(a) + Len(b)
        /\ \A j \in 1 .. Len(a) + Len(b) : (a \o b)[j] = IF j <= Len(a) THEN a[j] ELSE b[j - Len(a)]
    BY <1>2, <1>3, ConcatProperties
  <2>2. Len(a) = i - 1 /\ Len(b) = Len(s) - i
    BY <1>2, <1>3
  <2> QED  BY ONLY <2>1, <2>2
<1>6. i - 1 + (Len(s) - i) = Len(s) - 1
  BY <1>1
<1>7. ASSUME NEW j \in 1 .. Len(s) - 1
      PROVE  RemoveAt(s, i)[j] = IF j < i THEN s[j] ELSE s[j + 1]
  <2>1. CASE j < i
    BY <1>2, <1>4, <1>5, <1>6, <2>1
  <2>2. CASE ~(j < i)
    <3>1. j - (i - 1) \in 1 .. Len(s) - i /\ i + (j - (i - 1)) = j + 1 /\ ~(j <= i - 1)
      BY <1>1, <2>2
    <3> QED  BY <1>3, <1>4, <1>5, <1>6, <2>2, <3>1
  <2> QED  BY <2>1, <2>2
<1> QED  BY <1>4, <1>5, <1>6, <1>7

\* A set of numbers that is not empty has a least one.
LEMMA LeastNumber ==
    ASSUME NEW T, T \subseteq Nat, T # {}
    PROVE  \E k \in T : \A j \in T : k <= j
<1>1. PICK k \in T : \A j \in T : ~ (<<j, k>> \in OpToRel(<, Nat))
  BY NatLessThanWellFounded, WFMin
<1>2. ASSUME NEW j \in T
      PROVE  k <= j
  <2>1. j \in Nat /\ k \in Nat
    OBVIOUS
  <2>2. <<j, k>> \in OpToRel(<, Nat) <=> j < k
    BY <2>1 DEF OpToRel
  <2>3. ~ (<<j, k>> \in OpToRel(<, Nat))
    BY <1>1
  <2>4. ~ (j < k)
    BY <2>2, <2>3
  <2> QED  BY <2>1, <2>4
<1> QED  BY <1>2

\* Rounding up to whole units makes room.
LEMMA RoundUp ==
    ASSUME NEW x \in Nat, NEW unit \in Nat \ {0}
    PROVE  /\ (x + unit - 1) \div unit \in Nat
           /\ ((x + unit - 1) \div unit) * unit >= x
BY Z3

-----------------------------------------------------------------------------
LEMMA InOrderFacts ==
    ASSUME NEW m, InOrder(m)
    PROVE  /\ m.id \in Ids /\ m.size \in Nat /\ m.pages \in Nat /\ m.usage \in Int
           /\ m.minors \in Seq(Block) /\ Len(m.minors) \in Nat
           /\ DOMAIN m.minors = 1 .. Len(m.minors)
           /\ \A k \in 1 .. Len(m.minors) :
                 /\ m.minors[k] \in Block
                 /\ m.minors[k].at \in Nat /\ m.minors[k].size \in Nat /\ m.minors[k].req \in Nat
                 /\ End(m.minors[k]) \in Nat
                 /\ m.minors[k].at + Minor <= End(m.minors[k])
<1> USE LiballocAssumption
<1>1. m.id \in Ids /\ m.size \in Nat /\ m.pages \in Nat /\ m.usage \in Int /\ m.minors \in Seq(Block)
  BY DEF InOrder, MajorBlock
<1>2. Len(m.minors) \in Nat /\ DOMAIN m.minors = 1 .. Len(m.minors)
  BY <1>1, LenProperties
<1>3. ASSUME NEW k \in 1 .. Len(m.minors)
      PROVE  /\ m.minors[k] \in Block
             /\ m.minors[k].at \in Nat /\ m.minors[k].size \in Nat /\ m.minors[k].req \in Nat
             /\ End(m.minors[k]) \in Nat
             /\ m.minors[k].at + Minor <= End(m.minors[k])
  <2>1. m.minors[k] \in Block
    BY <1>1, ElementOfSeq
  <2> QED  BY <2>1 DEF Block, End
<1> QED  BY <1>1, <1>2, <1>3

\* Two blocks of a major are apart, also for their callers.
LEMMA HeldApart ==
    ASSUME NEW m, InOrder(m), NEW j \in 1 .. Len(m.minors), NEW k \in 1 .. Len(m.minors), j # k
    PROVE  /\ Abstract!Apart(PointerIn(m, m.minors[j]), PointerIn(m, m.minors[k]))
           /\ PointerIn(m, m.minors[j]) # PointerIn(m, m.minors[k])
<1> DEFINE a == m.minors[j]
           b == m.minors[k]
<1>1. /\ a.at \in Nat /\ a.size \in Nat /\ a.req \in Nat
      /\ b.at \in Nat /\ b.size \in Nat /\ b.req \in Nat
      /\ Minor \in Nat /\ Minor > 0 /\ PAD \in Nat
  BY InOrderFacts, LiballocAssumption
<1>2. a.req + PAD <= a.size /\ b.req + PAD <= b.size
  BY DEF InOrder
<1>3. a.at + Minor + a.size <= b.at \/ b.at + Minor + b.size <= a.at
  <2>1. j \in Int /\ k \in Int
    BY InOrderFacts
  <2>2. j < k \/ k < j
    BY <2>1
  <2> QED  BY <2>2 DEF InOrder, End
<1>4. \A x, y, s, t, r, u, h, p \in Nat :
         /\ r + p <= s /\ u + p <= t /\ h > 0
         /\ x + h + s <= y \/ y + h + t <= x
         => /\ x + h + p + r <= y + h + p \/ y + h + p + u <= x + h + p
            /\ x + h + p # y + h + p
  OBVIOUS
<1> DEFINE x == a.at  y == b.at  s == a.size  t == b.size  r == a.req  u == b.req
<1>5. /\ x + Minor + PAD + r <= y + Minor + PAD \/ y + Minor + PAD + u <= x + Minor + PAD
      /\ x + Minor + PAD # y + Minor + PAD
  <2>1. /\ x \in Nat /\ y \in Nat /\ s \in Nat /\ t \in Nat /\ r \in Nat /\ u \in Nat
        /\ Minor \in Nat /\ PAD \in Nat /\ Minor > 0
        /\ r + PAD <= s /\ u + PAD <= t
        /\ x + Minor + s <= y \/ y + Minor + t <= x
    BY <1>1, <1>2, <1>3
  <2> HIDE DEF x, y, s, t, r, u
  <2> QED  BY ONLY <1>4, <2>1
<1> QED  BY <1>5 DEF Abstract!Apart, PointerIn

\* Blocks of different majors are apart: they have different pages.
LEMMA IdsApart ==
    ASSUME NEW m, NEW n, m.id # n.id, NEW a \in HeldIn(m), NEW b \in HeldIn(n)
    PROVE  Abstract!Apart(a, b) /\ a # b
BY DEF HeldIn, PointerIn, Abstract!Apart

\* The first gap that is large enough is one.
LEMMA FirstGapFacts ==
    ASSUME NEW m, InOrder(m), NEW req \in Nat, HasRoom(m, req)
    PROVE  /\ FirstGap(m, req) \in 0 .. Len(m.minors)
           /\ Gap(m, FirstGap(m, req)) >= Need(req)
<1> USE LiballocAssumption
<1> DEFINE N == Len(m.minors)
           T == {k \in 0 .. N : Gap(m, k) >= Need(req)}
<1>1. N \in Nat
  BY InOrderFacts
<1>2. \A k \in 0 .. N : Gap(m, k) \in Int
  <2> SUFFICES ASSUME NEW k \in 0 .. N
               PROVE  Gap(m, k) \in Int
    OBVIOUS
  <2>1. GapStart(m, k) \in Int
    <3>1. k = 0 \/ k \in 1 .. N
      BY <1>1
    <3> QED  BY <3>1, InOrderFacts DEF GapStart
  <2>2. k = N \/ k + 1 \in 1 .. N
    BY <1>1
  <2> QED  BY SMTT(30), <2>1, <2>2, InOrderFacts DEF Gap
<1>3. T \subseteq Nat /\ T # {} /\ Need(req) \in Int
  BY <1>1 DEF HasRoom, Need
<1>4. PICK k \in T : \A j \in T : k <= j
  BY <1>3, LeastNumber
<1>5. \A j \in 0 .. k - 1 : Gap(m, j) < Need(req)
  <2> SUFFICES ASSUME NEW j \in 0 .. k - 1
               PROVE  Gap(m, j) < Need(req)
    OBVIOUS
  <2>1. j \in 0 .. N /\ ~ (k <= j)
    BY <1>1, <1>4
  <2>2. j \notin T
    BY <1>4, <2>1
  <2> QED  BY <1>2, <1>3, <2>1, <2>2
<1> QED  BY <1>4, <1>5 DEF FirstGap


-----------------------------------------------------------------------------
\* A block that is put into a gap that is large enough starts after all the
\* blocks before the gap have ended, and ends before any other starts.
LEMMA GapFacts ==
    ASSUME NEW m, InOrder(m), NEW req \in Nat, NEW g \in 0 .. Len(m.minors), Gap(m, g) >= Need(req)
    PROVE  /\ GapStart(m, g) \in Nat /\ Major <= GapStart(m, g)
           /\ GapStart(m, g) + Need(req) <= m.size
           /\ \A j \in 1 .. Len(m.minors) :
                 /\ j <= g => End(m.minors[j]) <= GapStart(m, g)
                 /\ j > g => GapStart(m, g) + Need(req) <= m.minors[j].at
<1> DEFINE N == Len(m.minors)
           at(k) == m.minors[k].at
           end(k) == End(m.minors[k])
           start == GapStart(m, g)
           need == Need(req)
           size == m.size
<1>1. N \in Nat /\ size \in Nat /\ Major \in Nat /\ need \in Nat /\ g \in 0 .. N
  BY InOrderFacts, LiballocAssumption DEF Need
<1>2. /\ \A k \in 1 .. N : at(k) \in Nat /\ end(k) \in Nat /\ at(k) <= end(k)
      /\ \A k \in 1 .. N : Major <= at(k) /\ end(k) <= size
      /\ \A j, k \in 1 .. N : j < k => end(j) <= at(k)
  <2>1. ASSUME NEW k \in 1 .. N  PROVE at(k) \in Nat /\ end(k) \in Nat /\ at(k) <= end(k)
    <3>1. at(k) \in Nat /\ end(k) \in Nat /\ at(k) + Minor <= end(k) /\ Minor \in Nat
      BY InOrderFacts, LiballocAssumption
    <3> HIDE DEF at, end
    <3> QED  BY ONLY <3>1
  <2> QED  BY <2>1 DEF InOrder
<1>3. /\ g = 0 => start = Major
      /\ g # 0 => start = end(g)
  BY DEF GapStart, End
<1>4. /\ g = N => size - start >= need
      /\ g # N => at(g + 1) - start >= need
  BY DEF Gap
<1> HIDE DEF N, at, end, start, need, size
<1>5. g = 0 \/ g \in 1 .. N
  BY ONLY <1>1
<1>6. start \in Nat /\ Major <= start
  BY ONLY <1>1, <1>2, <1>3, <1>5
<1>7. g = N \/ g + 1 \in 1 .. N
  BY ONLY <1>1
<1>8. g # N => g + 1 \in 1 .. N /\ start + need <= at(g + 1)
  BY ONLY <1>1, <1>2, <1>4, <1>6, <1>7
<1>9. start + need <= size
  BY ONLY <1>1, <1>2, <1>4, <1>6, <1>7, <1>8
<1>10. ASSUME NEW j \in 1 .. N
       PROVE  /\ j <= g => end(j) <= start
              /\ j > g => start + need <= at(j)
  <2>1. ASSUME j <= g  PROVE end(j) <= start
    <3>1. (j = g \/ j < g) /\ g \in 1 .. N
      BY ONLY <1>1, <2>1, j \in 1 .. N
    <3> QED  BY ONLY <1>1, <1>2, <1>3, <3>1, j \in 1 .. N
  <2>2. ASSUME j > g  PROVE start + need <= at(j)
    <3>1. (j = g + 1 \/ g + 1 < j) /\ g # N
      BY ONLY <1>1, <2>2, j \in 1 .. N
    <3>2. j = g + 1 \/ end(g + 1) <= at(j)
      BY ONLY <1>2, <1>8, <3>1, j \in 1 .. N
    <3>3. /\ at(g + 1) \in Nat /\ end(g + 1) \in Nat /\ at(j) \in Nat
          /\ at(g + 1) <= end(g + 1) /\ start + need <= at(g + 1)
      BY ONLY <1>2, <1>8, <3>1, j \in 1 .. N
    <3> QED  BY ONLY <1>1, <1>6, <3>2, <3>3
  <2> QED  BY <2>1, <2>2
<1> QED  BY <1>6, <1>9, <1>10 DEF N, at, end, start, need, size

\* The new block of an allocation, and where it is put.
NewBlock(m, req) == [at |-> GapStart(m, FirstGap(m, req)), size |-> req + PAD, req |-> req]

LEMMA PlaceFacts ==
    ASSUME NEW m, InOrder(m), NEW req \in Nat, HasRoom(m, req)
    PROVE  LET p == Place(m, req)
               g == FirstGap(m, req)
           IN  /\ InOrder(p) /\ p.id = m.id
               /\ p.minors # <<>> /\ g + 1 \in 1 .. Len(p.minors)
               /\ p.minors[g + 1] = NewBlock(m, req)
               /\ HeldIn(p) = HeldIn(m) \cup {PointerIn(p, p.minors[g + 1])}
               /\ \A b \in HeldIn(m) : /\ Abstract!Apart(PointerIn(p, p.minors[g + 1]), b)
                                       /\ PointerIn(p, p.minors[g + 1]) # b
<1> DEFINE p == Place(m, req)
           g == FirstGap(m, req)
           N == Len(m.minors)
           start == GapStart(m, g)
           need == Need(req)
           new == NewBlock(m, req)
           at(k) == m.minors[k].at
           end(k) == End(m.minors[k])
           size == m.size
<1>1. /\ g \in 0 .. N /\ Gap(m, g) >= need
  BY FirstGapFacts
<1>2. /\ N \in Nat /\ m.minors \in Seq(Block) /\ m.id \in Ids /\ m.pages \in Nat
      /\ m.usage \in Int /\ size \in Nat
  BY InOrderFacts
<1>3. /\ start \in Nat /\ Major <= start /\ start + need <= size
      /\ \A j \in 1 .. N : /\ j <= g => end(j) <= start
                           /\ j > g => start + need <= at(j)
  BY <1>1, GapFacts
<1>4. /\ need \in Nat /\ new \in Block /\ new.at = start /\ End(new) = start + need
      /\ new.req + PAD <= new.size
  <2>1. /\ Minor \in Nat /\ PAD \in Nat /\ new = [at |-> start, size |-> req + PAD, req |-> req]
    BY LiballocAssumption DEF NewBlock
  <2> HIDE DEF start, new
  <2>2. /\ new \in Block /\ new.at = start /\ new.size = req + PAD /\ new.req = req
    BY <1>3, <2>1 DEF Block
  <2>3. End(new) = start + Minor + (req + PAD) /\ need = req + PAD + Minor
    BY <2>2 DEF End, Need
  <2> HIDE DEF need
  <2> QED  BY <1>3, <2>1, <2>2, <2>3
<1> DEFINE q == InsertAt(m.minors, g + 1, new)
<1>5. /\ q \in Seq(Block) /\ Len(q) = N + 1 /\ g + 1 \in 1 .. N + 1
      /\ \A j \in 1 .. N + 1 :
            q[j] = IF j < g + 1 THEN m.minors[j] ELSE IF j = g + 1 THEN new ELSE m.minors[j - 1]
  <2>1. m.minors \in Seq(Block) /\ new \in Block
    BY <1>2, <1>4
  <2>2. g \in 0 .. N /\ N \in Nat
    BY <1>1, <1>2
  <2>3. g + 1 \in 1 .. N + 1
    <3> HIDE DEF g, N
    <3> QED  BY ONLY <2>2
  <2> DEFINE s == m.minors  i == g + 1
  <2>4. s \in Seq(Block) /\ i \in 1 .. Len(s) + 1
    BY <2>1, <2>3
  <2> HIDE DEF new, s, i
  <2>5. /\ InsertAt(s, i, new) \in Seq(Block)
        /\ Len(InsertAt(s, i, new)) = Len(s) + 1
        /\ \A j \in 1 .. Len(s) + 1 :
              InsertAt(s, i, new)[j] = IF j < i THEN s[j] ELSE IF j = i THEN new ELSE s[j - 1]
    BY ONLY <2>1, <2>4, InsertFacts
  <2> QED  BY <2>3, <2>5 DEF s, i
<1>6. m \in MajorBlock /\ m.size = m.pages * PageSize
  BY DEF InOrder
<1>7. p = [m EXCEPT !.minors = q, !.usage = @ + need]
  BY DEF Place, NewBlock
<1> HIDE DEF p, q
<1>8. /\ p \in MajorBlock
      /\ p.id = m.id /\ p.pages = m.pages /\ p.size = m.size /\ p.minors = q
  <2>1. m.usage + need \in Int
    <3> HIDE DEF need
    <3> QED  BY ONLY <1>2, <1>4
  <2> DEFINE u == m.usage + need
  <2>2. p = [m EXCEPT !.minors = q, !.usage = u]
    BY <1>7
  <2> HIDE DEF u
  <2> QED  BY ONLY <1>5, <1>6, <2>1, <2>2 DEF MajorBlock, u
<1>9. /\ \A k \in 1 .. N : /\ at(k) \in Nat /\ end(k) \in Nat
                           /\ Major <= at(k) /\ end(k) <= size
                           /\ m.minors[k].req + PAD <= m.minors[k].size
      /\ \A j, k \in 1 .. N : j < k => end(j) <= at(k)
  BY InOrderFacts DEF InOrder
<1> DEFINE old(k) == m.minors[k]
<1>10. /\ \A k \in 1 .. N : at(k) = old(k).at /\ end(k) = End(old(k))
  OBVIOUS
<1>11. \A k \in 1 .. N : /\ Major <= old(k).at /\ End(old(k)) <= size
                         /\ old(k).req + PAD <= old(k).size
  BY <1>9
<1>12. \A j \in 1 .. N + 1 :
            q[j] = IF j < g + 1 THEN old(j) ELSE IF j = g + 1 THEN new ELSE old(j - 1)
  BY <1>5
<1> HIDE DEF N, g, start, need, new, at, end, size, old
<1>13. \A j \in 1 .. N + 1 :
            \/ j \in 1 .. N /\ q[j] = old(j) /\ j <= g
            \/ j = g + 1 /\ q[j] = new
            \/ j - 1 \in 1 .. N /\ q[j] = old(j - 1) /\ j - 1 > g
  <2> SUFFICES ASSUME NEW j \in 1 .. N + 1
               PROVE  \/ j \in 1 .. N /\ q[j] = old(j) /\ j <= g
                      \/ j = g + 1 /\ q[j] = new
                      \/ j - 1 \in 1 .. N /\ q[j] = old(j - 1) /\ j - 1 > g
    OBVIOUS
  <2>1. N \in Nat /\ g \in 0 .. N
    BY <1>1, <1>2
  <2>2. \/ j < g + 1 /\ j \in 1 .. N /\ j <= g
        \/ j = g + 1 /\ ~ (j < g + 1)
        \/ j # g + 1 /\ ~ (j < g + 1) /\ j - 1 \in 1 .. N /\ j - 1 > g
    BY ONLY <2>1, j \in 1 .. N + 1
  <2>3. q[j] = IF j < g + 1 THEN old(j) ELSE IF j = g + 1 THEN new ELSE old(j - 1)
    BY <1>12
  <2> QED  BY ONLY <2>2, <2>3
<1>14. ASSUME NEW k \in 1 .. N + 1
       PROVE  /\ Major <= q[k].at /\ End(q[k]) <= size /\ q[k].req + PAD <= q[k].size
  BY ONLY <1>3, <1>4, <1>11, <1>13, k \in 1 .. N + 1
<1>15. ASSUME NEW j \in 1 .. N + 1, NEW k \in 1 .. N + 1, j < k
       PROVE  End(q[j]) <= q[k].at
  <2>1. ASSUME NEW a \in 1 .. N, NEW b \in 1 .. N, a < b, q[j] = old(a), q[k] = old(b)
        PROVE  End(q[j]) <= q[k].at
    BY ONLY <1>9, <1>10, <2>1
  <2>2. j \in Int /\ k \in Int /\ g \in Int
    BY ONLY <1>1, <1>2, <1>15
  <2>3. CASE k <= g
    <3>1. q[j] = old(j) /\ q[k] = old(k) /\ j \in 1 .. N /\ k \in 1 .. N
      BY ONLY <1>13, <1>15, <2>2, <2>3
    <3> QED  BY ONLY <1>15, <2>1, <3>1
  <2>4. CASE k = g + 1
    <3>1. q[j] = old(j) /\ j \in 1 .. N /\ j <= g /\ q[k] = new
      BY ONLY <1>13, <1>15, <2>2, <2>4
    <3> QED  BY ONLY <1>3, <1>4, <1>10, <3>1
  <2>5. CASE k > g + 1
    <3>1. q[k] = old(k - 1) /\ k - 1 \in 1 .. N /\ k - 1 > g
      BY ONLY <1>13, <1>15, <2>2, <2>5
    <3>2. CASE j <= g
      <4>1. q[j] = old(j) /\ j \in 1 .. N
        BY ONLY <1>13, <1>15, <2>2, <3>2
      <4>2. j < k - 1
        BY ONLY <2>2, <3>1, <3>2
      <4> QED  BY ONLY <2>1, <3>1, <4>1, <4>2
    <3>3. CASE j = g + 1
      <4>1. q[j] = new
        BY ONLY <1>13, <1>15, <2>2, <3>3
      <4> QED  BY ONLY <1>3, <1>4, <1>10, <3>1, <4>1
    <3>4. CASE j > g + 1
      <4>1. q[j] = old(j - 1) /\ j - 1 \in 1 .. N
        BY ONLY <1>13, <1>15, <2>2, <3>4
      <4>2. j - 1 < k - 1
        BY ONLY <1>15, <2>2
      <4> QED  BY ONLY <2>1, <3>1, <4>1, <4>2
    <3> QED  BY ONLY <2>2, <3>2, <3>3, <3>4
  <2> QED  BY ONLY <2>2, <2>3, <2>4, <2>5
<1>16. Len(p.minors) = N + 1 /\ g + 1 \in 1 .. N + 1 /\ p.minors[g + 1] = new
  <2>1. q[g + 1] = new
    BY ONLY <1>1, <1>2, <1>5, <1>13
  <2> QED  BY <1>5, <1>8, <2>1
<1>17. InOrder(p)
  BY <1>5, <1>6, <1>8, <1>14, <1>15 DEF InOrder, size
<1>18. p.minors # <<>>
  <2>1. N + 1 # 0 /\ Len(<<>>) = 0
    BY <1>2
  <2> QED  BY <1>16, <2>1
<1>19. ASSUME NEW k \in 1 .. N
       PROVE  \E j \in 1 .. N + 1 : j # g + 1 /\ q[j] = old(k)
  <2>1. k \in Int /\ g \in Int /\ k \in 1 .. N + 1 /\ k + 1 \in 1 .. N + 1 /\ (k + 1) - 1 = k
    BY ONLY <1>1, <1>2, <1>19
  <2>2. CASE k <= g
    <3>1. k # g + 1 /\ q[k] = old(k)
      BY ONLY <1>12, <2>1, <2>2
    <3> QED  BY <2>1, <3>1
  <2>3. CASE k > g
    <3>1. k + 1 # g + 1 /\ ~ (k + 1 < g + 1)
      BY ONLY <2>1, <2>3
    <3>2. q[k + 1] = old(k)
      BY ONLY <1>12, <2>1, <3>1
    <3> QED  BY <2>1, <3>1, <3>2
  <2> QED  BY ONLY <2>1, <2>2, <2>3
<1>20. ASSUME NEW j \in 1 .. N + 1, j # g + 1
       PROVE  \E k \in 1 .. N : q[j] = old(k)
  BY ONLY <1>13, <1>20
<1>21. \A b : PointerIn(p, b) = PointerIn(m, b)
  BY <1>8 DEF PointerIn
<1>22. HeldIn(m) = {PointerIn(m, old(k)) : k \in 1 .. N}
  BY DEF HeldIn, old, N
<1>23. HeldIn(p) = {PointerIn(m, q[j]) : j \in 1 .. N + 1}
  BY <1>8, <1>16, <1>21 DEF HeldIn
<1>24. HeldIn(p) = HeldIn(m) \cup {PointerIn(p, p.minors[g + 1])}
  <2>1. ASSUME NEW j \in 1 .. N + 1
        PROVE  PointerIn(m, q[j]) \in HeldIn(m) \cup {PointerIn(m, q[g + 1])}
    BY <1>20, <1>22
  <2>2. ASSUME NEW k \in 1 .. N
        PROVE  PointerIn(m, old(k)) \in HeldIn(p)
    BY <1>19, <1>23
  <2>3. PointerIn(m, q[g + 1]) \in HeldIn(p) /\ PointerIn(p, p.minors[g + 1]) = PointerIn(m, q[g + 1])
    BY <1>8, <1>16, <1>21, <1>23
  <2> QED  BY <1>22, <1>23, <2>1, <2>2, <2>3
<1>25. ASSUME NEW b \in HeldIn(m)
       PROVE  /\ Abstract!Apart(PointerIn(p, p.minors[g + 1]), b)
              /\ PointerIn(p, p.minors[g + 1]) # b
  <2>1. PICK k \in 1 .. N : b = PointerIn(m, old(k))
    BY <1>22
  <2>2. PICK j \in 1 .. N + 1 : j # g + 1 /\ q[j] = old(k)
    BY <1>19
  <2>3. b = PointerIn(p, p.minors[j])
    BY <1>8, <1>21, <2>1, <2>2
  <2> QED  BY <1>16, <1>17, <2>2, <2>3, HeldApart
<1> QED  BY <1>8, <1>16, <1>17, <1>18, <1>24, <1>25 DEF p, g, new

-----------------------------------------------------------------------------
\* What is left of a major when one of its blocks is unlinked.
Unlinked(m, k, u) == [m EXCEPT !.minors = RemoveAt(@, k), !.usage = u]

LEMMA UnlinkFacts ==
    ASSUME NEW m, InOrder(m), NEW k \in 1 .. Len(m.minors), Len(m.minors) # 1, NEW u \in Int
    PROVE  LET r == Unlinked(m, k, u)
           IN  /\ InOrder(r) /\ r.id = m.id /\ r.minors # <<>>
               /\ HeldIn(r) = HeldIn(m) \ {PointerIn(m, m.minors[k])}
<1> DEFINE N == Len(m.minors)
           s == m.minors
           q == RemoveAt(s, k)
           r == [m EXCEPT !.minors = q, !.usage = u]
<1>1. m \in MajorBlock /\ m.size = m.pages * PageSize /\ N \in Nat /\ s \in Seq(Block)
      /\ k \in 1 .. N /\ N = Len(s)
  BY InOrderFacts DEF InOrder
<1>2. /\ \A j \in 1 .. N : /\ Major <= s[j].at /\ End(s[j]) <= m.size
                           /\ s[j].req + PAD <= s[j].size
      /\ \A i, j \in 1 .. N : i < j => End(s[i]) <= s[j].at
  BY DEF InOrder
<1> HIDE DEF N, s
<1>3. /\ q \in Seq(Block) /\ Len(q) = N - 1
      /\ \A j \in 1 .. N - 1 : q[j] = IF j < k THEN s[j] ELSE s[j + 1]
  BY <1>1, RemoveFacts
<1> HIDE DEF q
<1>4. /\ r \in MajorBlock /\ r.id = m.id /\ r.pages = m.pages /\ r.size = m.size /\ r.minors = q
  BY ONLY <1>1, <1>3, u \in Int DEF MajorBlock
<1> HIDE DEF r
<1> DEFINE from(j) == IF j < k THEN j ELSE j + 1
<1>5. ASSUME NEW j \in 1 .. N - 1
      PROVE  /\ from(j) \in 1 .. N /\ from(j) # k /\ q[j] = s[from(j)]
             /\ \A i \in 1 .. N - 1 : i < j => from(i) < from(j)
  <2>1. from(j) \in 1 .. N /\ from(j) # k
    BY ONLY <1>1, <1>5
  <2>2. q[j] = s[from(j)]
    BY <1>3
  <2>3. \A i \in 1 .. N - 1 : i < j => from(i) < from(j)
    BY ONLY <1>1, <1>5
  <2> QED  BY <2>1, <2>2, <2>3
<1>6. ASSUME NEW j \in 1 .. N, j # k
      PROVE  \E i \in 1 .. N - 1 : q[i] = s[j]
  <2>1. CASE j < k
    <3>1. j \in 1 .. N - 1
      BY ONLY <1>1, <1>6, <2>1
    <3> QED  BY <1>3, <2>1, <3>1
  <2>2. CASE j > k
    <3>1. j - 1 \in 1 .. N - 1 /\ ~ (j - 1 < k) /\ (j - 1) + 1 = j
      BY ONLY <1>1, <1>6, <2>2
    <3> QED  BY <1>3, <3>1
  <2>3. j \in Int /\ k \in Int
    BY <1>1
  <2> QED  BY <1>6, <2>1, <2>2, <2>3
<1> HIDE DEF from
<1>7. /\ \A j \in 1 .. N - 1 : /\ Major <= q[j].at /\ End(q[j]) <= m.size
                               /\ q[j].req + PAD <= q[j].size
      /\ \A i, j \in 1 .. N - 1 : i < j => End(q[i]) <= q[j].at
  BY <1>2, <1>5
<1>8. InOrder(r)
  BY <1>1, <1>3, <1>4, <1>7 DEF InOrder
<1>9. r.minors # <<>>
  <2>1. N - 1 # 0 /\ Len(<<>>) = 0
    BY <1>1 DEF N
  <2> QED  BY <1>3, <1>4, <2>1
<1>10. \A b : PointerIn(r, b) = PointerIn(m, b)
  BY <1>4 DEF PointerIn
<1>11. /\ HeldIn(m) = {PointerIn(m, s[j]) : j \in 1 .. N}
       /\ HeldIn(r) = {PointerIn(m, q[j]) : j \in 1 .. N - 1}
  BY <1>3, <1>4, <1>10 DEF HeldIn, s, N
<1>12. ASSUME NEW j \in 1 .. N, j # k
       PROVE  PointerIn(m, s[j]) # PointerIn(m, s[k])
  BY <1>1, <1>12, HeldApart DEF s, N
<1>13. HeldIn(r) = HeldIn(m) \ {PointerIn(m, s[k])}
  <2>1. ASSUME NEW j \in 1 .. N - 1
        PROVE  PointerIn(m, q[j]) \in HeldIn(m) \ {PointerIn(m, s[k])}
    BY <1>5, <1>11, <1>12
  <2>2. ASSUME NEW j \in 1 .. N, PointerIn(m, s[j]) # PointerIn(m, s[k])
        PROVE  PointerIn(m, s[j]) \in HeldIn(r)
    <3>1. j # k
      BY <2>2
    <3> QED  BY <1>6, <1>11, <3>1
  <2> QED  BY <1>11, <2>1, <2>2
<1> QED  BY <1>4, <1>8, <1>9, <1>13 DEF Unlinked, r, q, s

\* A block that gets a smaller request stays in its place.
Shrunk(m, k, req) == [m EXCEPT !.minors[k].req = req]

LEMMA ShrinkFacts ==
    ASSUME NEW m, InOrder(m), NEW k \in 1 .. Len(m.minors), NEW req \in Nat,
           m.minors[k].req >= req
    PROVE  LET r == Shrunk(m, k, req)
           IN  /\ InOrder(r) /\ r.id = m.id /\ r.minors # <<>>
               /\ HeldIn(r) = (HeldIn(m) \ {PointerIn(m, m.minors[k])})
                                  \cup {PointerIn(r, r.minors[k])}
               /\ PointerIn(r, r.minors[k]).id = PointerIn(m, m.minors[k]).id
               /\ PointerIn(r, r.minors[k]).from = PointerIn(m, m.minors[k]).from
               /\ PointerIn(r, r.minors[k]).length <= PointerIn(m, m.minors[k]).length
<1> DEFINE N == Len(m.minors)
           s == m.minors
           e == [s[k] EXCEPT !.req = req]
           q == [s EXCEPT ![k] = e]
           r == [m EXCEPT !.minors = q]
<1>1. m \in MajorBlock /\ m.size = m.pages * PageSize /\ N \in Nat /\ s \in Seq(Block)
      /\ k \in 1 .. N /\ N = Len(s) /\ DOMAIN s = 1 .. N
  BY InOrderFacts DEF InOrder
<1>2. /\ \A j \in 1 .. N : /\ s[j] \in Block
                           /\ Major <= s[j].at /\ End(s[j]) <= m.size
                           /\ s[j].req + PAD <= s[j].size
      /\ \A i, j \in 1 .. N : i < j => End(s[i]) <= s[j].at
  BY InOrderFacts DEF InOrder
<1>3. Shrunk(m, k, req) = r
  BY DEF Shrunk
<1>4. req <= s[k].req /\ PAD \in Nat
  BY LiballocAssumption
<1> HIDE DEF N, s
<1>5. e \in Block /\ e.at = s[k].at /\ e.size = s[k].size /\ e.req = req
  BY <1>1, <1>2 DEF Block
<1> HIDE DEF e
<1>6. q \in Seq(Block) /\ Len(q) = N /\ \A j \in 1 .. N : q[j] = IF j = k THEN e ELSE s[j]
  BY <1>1, <1>5, ExceptSeq
<1> HIDE DEF q
<1>7. /\ r \in MajorBlock /\ r.id = m.id /\ r.pages = m.pages /\ r.size = m.size /\ r.minors = q
  BY ONLY <1>1, <1>6 DEF MajorBlock
<1> HIDE DEF r
<1>8. End(e) = End(s[k]) /\ e.req + PAD <= e.size
  <2>1. End(e) = End(s[k])
    BY <1>5 DEF End
  <2>2. s[k].req + PAD <= s[k].size /\ s[k] \in Block
    BY <1>1, <1>2
  <2>3. s[k].req \in Nat /\ s[k].size \in Nat
    BY <2>2 DEF Block
  <2>4. e.req + PAD <= e.size
    <3>1. \A a, b, c, p \in Nat : a <= b /\ b + p <= c => a + p <= c
      OBVIOUS
    <3>2. req + PAD <= s[k].size
      BY ONLY <1>4, <2>2, <2>3, <3>1, req \in Nat
    <3> QED  BY <1>5, <3>2
  <2> QED  BY <2>1, <2>4
<1>9. \A j \in 1 .. N : /\ q[j].at = s[j].at /\ End(q[j]) = End(s[j])
                        /\ q[j].req + PAD <= q[j].size
  BY <1>2, <1>5, <1>6, <1>8
<1>10. InOrder(r)
  BY <1>1, <1>2, <1>6, <1>7, <1>9 DEF InOrder
<1>11. r.minors # <<>>
  <2>1. N # 0 /\ Len(<<>>) = 0
    BY <1>1
  <2> QED  BY <1>6, <1>7, <2>1
<1>12. \A b : PointerIn(r, b) = PointerIn(m, b)
  BY <1>7 DEF PointerIn
<1>13. /\ HeldIn(m) = {PointerIn(m, s[j]) : j \in 1 .. N}
       /\ HeldIn(r) = {PointerIn(m, q[j]) : j \in 1 .. N}
  BY <1>6, <1>7, <1>12 DEF HeldIn, s, N
<1>14. ASSUME NEW j \in 1 .. N, j # k
       PROVE  PointerIn(m, s[j]) # PointerIn(m, s[k])
  BY <1>1, <1>14, HeldApart DEF s, N
<1>15. r.minors[k] = e
  BY <1>1, <1>6, <1>7
<1>16. HeldIn(r) = (HeldIn(m) \ {PointerIn(m, s[k])}) \cup {PointerIn(r, r.minors[k])}
  <2>1. ASSUME NEW j \in 1 .. N
        PROVE  PointerIn(m, q[j]) \in (HeldIn(m) \ {PointerIn(m, s[k])}) \cup {PointerIn(m, e)}
    BY <1>6, <1>13, <1>14
  <2>2. ASSUME NEW j \in 1 .. N, PointerIn(m, s[j]) # PointerIn(m, s[k])
        PROVE  PointerIn(m, s[j]) \in HeldIn(r)
    <3>1. q[j] = s[j]
      BY <1>6, <2>2
    <3> QED  BY <1>13, <3>1
  <2>3. PointerIn(m, e) \in HeldIn(r)
    BY <1>1, <1>6, <1>13
  <2>4. PointerIn(r, r.minors[k]) = PointerIn(m, e)
    BY <1>12, <1>15
  <2> QED  BY <1>13, <2>1, <2>2, <2>3, <2>4
<1>17. /\ PointerIn(r, r.minors[k]).id = PointerIn(m, s[k]).id
       /\ PointerIn(r, r.minors[k]).from = PointerIn(m, s[k]).from
       /\ PointerIn(r, r.minors[k]).length <= PointerIn(m, s[k]).length
  BY <1>4, <1>5, <1>7, <1>15 DEF PointerIn
<1> QED  BY <1>3, <1>7, <1>10, <1>11, <1>16, <1>17 DEF s

\* The major block that malloc adds has room for its first block.
Grown(id, req) ==
    [NewMajor(id, req) EXCEPT !.minors = <<[at |-> Major, size |-> req + PAD, req |-> req]>>,
                              !.usage = @ + Need(req)]

LEMMA GrowFacts ==
    ASSUME NEW id \in Ids, NEW req \in Nat
    PROVE  LET m == Grown(id, req)
           IN  /\ InOrder(m) /\ m.id = id /\ m.minors # <<>>
               /\ HeldIn(m) = {PointerIn(m, m.minors[1])}
<1> DEFINE need == Need(req)
           pages == (need + Major + PageSize - 1) \div PageSize
           n == IF pages < PageCount THEN PageCount ELSE pages
           b == [at |-> Major, size |-> req + PAD, req |-> req]
           w == NewMajor(id, req)
           m == [w EXCEPT !.minors = <<b>>, !.usage = @ + need]
<1>0. w = [id |-> id, pages |-> n, size |-> n * PageSize, usage |-> Major, minors |-> <<>>]
  BY DEF NewMajor
<1>1. /\ need \in Nat /\ Major \in Nat /\ Minor \in Nat /\ PAD \in Nat /\ PageSize \in Nat \ {0}
      /\ PageCount \in Nat
  BY LiballocAssumption DEF Need
<1>3. n \in Nat /\ n * PageSize \in Nat /\ need + Major <= n * PageSize
  <2> DEFINE x == need + Major
  <2>1. x \in Nat
    BY <1>1
  <2> HIDE DEF x
  <2>2. /\ (x + PageSize - 1) \div PageSize \in Nat
        /\ ((x + PageSize - 1) \div PageSize) * PageSize >= x
    BY <1>1, <2>1, RoundUp
  <2>3. pages \in Nat /\ pages * PageSize >= x
    BY <2>2 DEF x
  <2>4. need + Major = x
    BY DEF x
  <2> HIDE DEF need, pages
  <2>5. n \in Nat /\ n >= pages
    BY <1>1, <2>3
  <2> HIDE DEF n
  <2>6. n * PageSize >= pages * PageSize /\ n * PageSize \in Nat
    BY ONLY <1>1, <2>3, <2>5, Z3
  <2> DEFINE y == pages * PageSize  z == n * PageSize
  <2>7. y \in Nat /\ y >= x /\ z \in Nat /\ z >= y
    BY ONLY <1>1, <2>1, <2>3, <2>6, Z3
  <2>8. need + Major <= z
    <3> HIDE DEF y, z
    <3> QED  BY ONLY <2>1, <2>4, <2>7
  <2> QED  BY <2>5, <2>6, <2>8
<1>4. b \in Block /\ End(b) = need + Major /\ b.at = Major /\ b.req + PAD = b.size
  BY <1>1 DEF Block, End, Need
<1> HIDE DEF w, n, b, need
<1>5. <<b>> \in Seq(Block) /\ Len(<<b>>) = 1 /\ <<b>>[1] = b
  BY <1>4
<1>6. /\ m \in MajorBlock /\ m.id = id /\ m.minors = <<b>> /\ m.size = m.pages * PageSize
      /\ m.size = n * PageSize
  <2> DEFINE z == n * PageSize  u == Major + need
  <2>1. w = [id |-> id, pages |-> n, size |-> z, usage |-> Major, minors |-> <<>>]
    BY <1>0
  <2>2. n \in Nat /\ z \in Nat /\ u \in Int /\ w.usage + need = u
    BY <1>1, <1>3, <2>1
  <2> DEFINE r == [w EXCEPT !.minors = <<b>>, !.usage = u]
  <2>3. m = r
    BY <2>2
  <2> HIDE DEF w, z, u
  <2>4. <<>> \in Seq(Block)
    OBVIOUS
  <2>5. w \in MajorBlock /\ w.id = id /\ w.pages = n /\ w.size = z
    BY <1>1, <2>1, <2>2, <2>4 DEF MajorBlock
  <2> DEFINE bs == <<b>>
  <2>6. bs \in Seq(Block)
    BY <1>5
  <2> HIDE DEF bs
  <2>7. [w EXCEPT !.minors = bs, !.usage = u] \in MajorBlock
    BY ONLY <2>2, <2>5, <2>6 DEF MajorBlock
  <2> DEFINE r2 == [w EXCEPT !.minors = bs, !.usage = u]
  <2>8. r2.id = id /\ r2.pages = n /\ r2.size = z /\ r2.minors = bs
    BY ONLY <2>5 DEF MajorBlock
  <2>9. r = r2
    BY DEF bs
  <2> HIDE DEF r2, r, m
  <2> QED  BY <2>3, <2>7, <2>8, <2>9 DEF r2, bs, z
<1> HIDE DEF m
<1>7. InOrder(m)
  <2>1. \A k \in 1 .. Len(m.minors) : k = 1 /\ m.minors[k] = b
    BY <1>5, <1>6
  <2>2. Major <= b.at /\ End(b) <= m.size /\ b.req + PAD <= b.size
    <3>1. b.size \in Nat /\ n * PageSize \in Nat /\ need + Major \in Nat
      BY <1>1, <1>3, <1>4 DEF Block
    <3> QED  BY <1>1, <1>3, <1>4, <1>6, <3>1
  <2>3. \A j, k \in 1 .. Len(m.minors) : ~ (j < k)
    BY <2>1
  <2> QED  BY <1>6, <2>1, <2>2, <2>3 DEF InOrder
<1>8. HeldIn(m) = {PointerIn(m, m.minors[1])} /\ m.minors # <<>>
  <2>1. Len(m.minors) = 1 /\ m.minors # <<>>
    BY <1>5, <1>6
  <2>2. 1 .. Len(m.minors) = {1}
    BY <2>1
  <2> QED  BY <2>1, <2>2 DEF HeldIn
<1> QED  BY <1>6, <1>7, <1>8 DEF Grown, m, w, b, need


-----------------------------------------------------------------------------
\* The step of the invariant: the same facts of any list, best bet and set.
InvOf(ms, bet, held) ==
    /\ ms \in Seq(MajorBlock)
    /\ \A i \in 1 .. Len(ms) : InOrder(ms[i]) /\ ms[i].minors # <<>>
    /\ \A i, j \in 1 .. Len(ms) : ms[i].id = ms[j].id => i = j
    /\ bet # NULL => \E i \in 1 .. Len(ms) : ms[i].id = bet
    /\ held = UNION {HeldIn(ms[i]) : i \in 1 .. Len(ms)}

Listed == {majors[i].id : i \in 1 .. Len(majors)}

\* What is held in all major blocks but one.
Others(i) == UNION {HeldIn(majors[j]) : j \in (1 .. Len(majors)) \ {i}}

LEMMA OthersApart ==
    ASSUME HeapInv, NEW i \in 1 .. Len(majors), NEW m, m.id = majors[i].id
    PROVE  /\ pointers = Others(i) \cup HeldIn(majors[i])
           /\ \A a \in HeldIn(m), b \in Others(i) : Abstract!Apart(a, b) /\ a # b
<1>1. pointers = Others(i) \cup HeldIn(majors[i])
  BY DEF HeapInv, Others
<1>2. ASSUME NEW a \in HeldIn(m), NEW b \in Others(i)
      PROVE  Abstract!Apart(a, b) /\ a # b
  <2>1. PICK j \in (1 .. Len(majors)) \ {i} : b \in HeldIn(majors[j])
    BY DEF Others
  <2>2. m.id # majors[j].id
    BY DEF HeapInv
  <2> QED  BY <2>1, <2>2, IdsApart
<1> QED  BY <1>1, <1>2

\* One major block of the list is changed and keeps its pages.
LEMMA ReplaceFacts ==
    ASSUME HeapInv, NEW i \in 1 .. Len(majors), NEW m, InOrder(m), m.minors # <<>>,
           m.id = majors[i].id, NEW bet, bet # NULL => bet \in Listed
    PROVE  InvOf([majors EXCEPT ![i] = m], bet, Others(i) \cup HeldIn(m))
<1> DEFINE ms == [majors EXCEPT ![i] = m]
           N == Len(majors)
<1>1. majors \in Seq(MajorBlock) /\ m \in MajorBlock
  BY DEF HeapInv, InOrder
<1>2. /\ ms \in Seq(MajorBlock) /\ Len(ms) = N
      /\ \A j \in 1 .. N : ms[j] = IF j = i THEN m ELSE majors[j]
  BY <1>1, ExceptSeq
<1> HIDE DEF ms
<1>3. \A j \in 1 .. N : ms[j].id = majors[j].id
  BY <1>2
<1>4. \A j \in 1 .. N : InOrder(ms[j]) /\ ms[j].minors # <<>>
  BY <1>2 DEF HeapInv
<1>5. UNION {HeldIn(ms[j]) : j \in 1 .. N} = Others(i) \cup HeldIn(m)
  <2>1. ASSUME NEW j \in 1 .. N, NEW a \in HeldIn(ms[j])
        PROVE  a \in Others(i) \cup HeldIn(m)
    BY <1>2 DEF Others
  <2>2. ASSUME NEW j \in (1 .. N) \ {i}, NEW a \in HeldIn(majors[j])
        PROVE  a \in UNION {HeldIn(ms[l]) : l \in 1 .. N}
    BY <1>2
  <2>3. HeldIn(ms[i]) = HeldIn(m)
    BY <1>2
  <2> QED  BY <2>1, <2>2, <2>3 DEF Others
<1>6. \A j, k \in 1 .. N : ms[j].id = ms[k].id => j = k
  BY <1>3 DEF HeapInv
<1>7. bet # NULL => \E j \in 1 .. N : ms[j].id = bet
  BY <1>3 DEF Listed
<1> QED  BY <1>2, <1>4, <1>5, <1>6, <1>7 DEF InvOf, ms

\* A major block leaves the list.
LEMMA LeaveFacts ==
    ASSUME HeapInv, NEW i \in 1 .. Len(majors), NEW bet,
           bet # NULL => bet \in Listed /\ bet # majors[i].id
    PROVE  InvOf(RemoveAt(majors, i), bet, Others(i))
<1> DEFINE ms == RemoveAt(majors, i)
           N == Len(majors)
           from(j) == IF j < i THEN j ELSE j + 1
<1>1. majors \in Seq(MajorBlock) /\ N \in Nat
  BY LenProperties DEF HeapInv
<1>2. /\ ms \in Seq(MajorBlock) /\ Len(ms) = N - 1
      /\ \A j \in 1 .. N - 1 : ms[j] = IF j < i THEN majors[j] ELSE majors[j + 1]
  BY <1>1, RemoveFacts
<1> HIDE DEF ms, N
<1>3. ASSUME NEW j \in 1 .. N - 1
      PROVE  /\ from(j) \in (1 .. N) \ {i} /\ ms[j] = majors[from(j)]
             /\ \A k \in 1 .. N - 1 : from(j) = from(k) => j = k
  <2>0. i \in 1 .. N
    BY DEF N
  <2>1. from(j) \in (1 .. N) \ {i} /\ \A k \in 1 .. N - 1 : from(j) = from(k) => j = k
    BY ONLY <1>1, <1>3, <2>0
  <2> QED  BY <1>2, <2>1
<1>4. ASSUME NEW j \in (1 .. N) \ {i}
      PROVE  \E k \in 1 .. N - 1 : ms[k] = majors[j]
  <2>0. i \in 1 .. N /\ i \in Int /\ j \in Int
    BY <1>1 DEF N
  <2>1. CASE j < i
    <3>1. j \in 1 .. N - 1
      BY ONLY <1>1, <1>4, <2>0, <2>1
    <3> QED  BY <1>2, <2>1, <3>1
  <2>2. CASE j > i
    <3>1. j - 1 \in 1 .. N - 1 /\ ~ (j - 1 < i) /\ (j - 1) + 1 = j
      BY ONLY <1>1, <1>4, <2>0, <2>2
    <3> QED  BY <1>2, <3>1
  <2> QED  BY <1>4, <2>0, <2>1, <2>2
<1> HIDE DEF from
<1>5. \A j \in 1 .. N - 1 : InOrder(ms[j]) /\ ms[j].minors # <<>>
  BY <1>3 DEF HeapInv, N
<1>6. \A j, k \in 1 .. N - 1 : ms[j].id = ms[k].id => j = k
  BY <1>3 DEF HeapInv, N
<1>7. UNION {HeldIn(ms[j]) : j \in 1 .. N - 1} = Others(i)
  <2>1. ASSUME NEW j \in 1 .. N - 1, NEW a \in HeldIn(ms[j])
        PROVE  a \in Others(i)
    BY <1>3 DEF Others, N
  <2>2. ASSUME NEW j \in (1 .. N) \ {i}, NEW a \in HeldIn(majors[j])
        PROVE  a \in UNION {HeldIn(ms[l]) : l \in 1 .. N - 1}
    BY <1>4
  <2> QED  BY <2>1, <2>2 DEF Others, N
<1>8. bet # NULL => \E j \in 1 .. N - 1 : ms[j].id = bet
  <2> SUFFICES ASSUME bet # NULL  PROVE \E j \in 1 .. N - 1 : ms[j].id = bet
    OBVIOUS
  <2>1. PICK j \in 1 .. N : majors[j].id = bet
    BY DEF Listed, N
  <2>2. j # i
    BY <2>1
  <2> QED  BY <1>4, <2>1, <2>2
<1> QED  BY <1>2, <1>5, <1>6, <1>7, <1>8 DEF InvOf, ms

\* A major block with pages of its own joins the list.
LEMMA JoinFacts ==
    ASSUME HeapInv, NEW m, InOrder(m), m.minors # <<>>, m.id \notin Listed,
           NEW bet, bet # NULL => bet \in Listed \cup {m.id}
    PROVE  /\ InvOf(Append(majors, m), bet, pointers \cup HeldIn(m))
           /\ \A a \in HeldIn(m), b \in pointers : Abstract!Apart(a, b) /\ a # b
<1> DEFINE ms == Append(majors, m)
           N == Len(majors)
<1>1. majors \in Seq(MajorBlock) /\ m \in MajorBlock /\ N \in Nat
  BY LenProperties DEF HeapInv, InOrder
<1>2. /\ ms \in Seq(MajorBlock) /\ Len(ms) = N + 1
      /\ \A j \in 1 .. N : ms[j] = majors[j]
      /\ ms[N + 1] = m
  BY <1>1, AppendProperties
<1> HIDE DEF ms
<1>3. \A j \in 1 .. N + 1 : j \in 1 .. N \/ j = N + 1
  <2> HIDE DEF N
  <2> QED  BY <1>1
<1>4. \A j \in 1 .. N : j \in 1 .. N + 1 /\ j # N + 1
  <2> HIDE DEF N
  <2> QED  BY <1>1
<1>5. N + 1 \in 1 .. N + 1
  <2> HIDE DEF N
  <2> QED  BY <1>1
<1>6. \A j \in 1 .. N + 1 : InOrder(ms[j]) /\ ms[j].minors # <<>>
  BY <1>2, <1>3 DEF HeapInv
<1>7. \A j \in 1 .. N : ms[j].id \in Listed
  BY <1>2 DEF Listed
<1>8. \A j, k \in 1 .. N + 1 : ms[j].id = ms[k].id => j = k
  <2> SUFFICES ASSUME NEW j \in 1 .. N + 1, NEW k \in 1 .. N + 1, ms[j].id = ms[k].id
               PROVE  j = k
    OBVIOUS
  <2>1. CASE j \in 1 .. N /\ k \in 1 .. N
    BY <1>2, <2>1 DEF HeapInv
  <2>2. CASE j = N + 1 \/ k = N + 1
    BY <1>2, <1>3, <1>7, <2>2
  <2> QED  BY <1>3, <2>1, <2>2
<1>9. UNION {HeldIn(ms[j]) : j \in 1 .. N + 1} = pointers \cup HeldIn(m)
  <2>1. pointers = UNION {HeldIn(majors[j]) : j \in 1 .. N}
    BY DEF HeapInv
  <2>2. ASSUME NEW j \in 1 .. N + 1, NEW a \in HeldIn(ms[j])
        PROVE  a \in pointers \cup HeldIn(m)
    BY <1>2, <1>3, <2>1
  <2>3. ASSUME NEW j \in 1 .. N, NEW a \in HeldIn(majors[j])
        PROVE  a \in UNION {HeldIn(ms[l]) : l \in 1 .. N + 1}
    BY <1>2, <1>4
  <2>4. HeldIn(m) \subseteq UNION {HeldIn(ms[l]) : l \in 1 .. N + 1}
    BY <1>2, <1>5
  <2> QED  BY <2>1, <2>2, <2>3, <2>4
<1>10. bet # NULL => \E j \in 1 .. N + 1 : ms[j].id = bet
  BY <1>2, <1>4, <1>5 DEF Listed
<1>11. ASSUME NEW a \in HeldIn(m), NEW b \in pointers
       PROVE  Abstract!Apart(a, b) /\ a # b
  <2>1. PICK j \in 1 .. N : b \in HeldIn(majors[j])
    BY DEF HeapInv
  <2>2. m.id # majors[j].id
    BY DEF Listed
  <2> QED  BY <2>1, <2>2, IdsApart
<1> QED  BY <1>2, <1>6, <1>8, <1>9, <1>10, <1>11 DEF InvOf, ms

\* malloc looks at major blocks of the list only.
LEMMA OrderFacts ==
    ASSUME HeapInv, NEW req
    PROVE  /\ SearchOrder(req) \in Seq(1 .. Len(majors))
           /\ DOMAIN SearchOrder(req) = 1 .. Len(SearchOrder(req))
           /\ Len(SearchOrder(req)) \in Nat
           /\ \A n \in 1 .. Len(SearchOrder(req)) : SearchOrder(req)[n] \in 1 .. Len(majors)
<1> DEFINE N == Len(majors)
           all == [i \in 1 .. N |-> i]
           order == SearchOrder(req)
<1>1. N \in Nat /\ DOMAIN majors = 1 .. N
  BY LenProperties DEF HeapInv
<1>2. all \in Seq(1 .. N) /\ Len(all) = N
  <2> HIDE DEF N
  <2> QED  BY <1>1
<1>3. ASSUME bestBet # NULL
      PROVE  SubSeq(all, Index(bestBet), N) \in Seq(1 .. N)
  <2> DEFINE b == Index(bestBet)
  <2>1. b \in 1 .. N
    BY <1>1, <1>3 DEF HeapInv, Index
  <2> HIDE DEF b, N
  <2>2. b \in Int /\ N \in Int /\ \A j \in b .. N : all[j] \in 1 .. N
    BY <1>1, <2>1
  <2> HIDE DEF all
  <2>3. SubSeq(all, b, N) \in Seq(1 .. N)
    BY <1>2, <2>2, SubSeqProperties
  <2> QED  BY <2>3 DEF b
<1>4. order \in Seq(1 .. N)
  <2> DEFINE c == SubSeq(all, Index(bestBet), N)
         rich == Left(majors[Index(bestBet)]) > Need(req)
  <2>0. order = IF bestBet # NULL /\ rich THEN c \o all ELSE all
    BY Zenon DEF SearchOrder
  <2> HIDE DEF c, rich, all, order
  <2>1. order = all \/ (bestBet # NULL /\ order = c \o all)
    BY <2>0
  <2> HIDE DEF all, c, order, N
  <2>2. ASSUME bestBet # NULL  PROVE c \o all \in Seq(1 .. N)
    <3>1. c \in Seq(1 .. N)
      BY <1>3, <2>2 DEF c
    <3> QED  BY <1>2, <3>1, ConcatProperties
  <2> QED  BY <1>2, <2>1, <2>2
<1> HIDE DEF order, N
<1>5. /\ DOMAIN order = 1 .. Len(order) /\ Len(order) \in Nat
      /\ \A n \in 1 .. Len(order) : order[n] \in 1 .. N
  BY <1>4, LenProperties, ElementOfSeq
<1> QED  BY <1>4, <1>5 DEF order, N

\* The best bet is what it was, or a block that malloc has looked at.
LEMMA BestFacts ==
    ASSUME NEW S, NEW seen, \A j \in DOMAIN seen : seen[j].id \in S,
           bestBet # NULL => bestBet \in S
    PROVE  BestOf(seen) # NULL => BestOf(seen) \in S
<1> DEFINE before == IF bestBet = NULL THEN 0 ELSE Left(majors[Index(bestBet)])
           Better(i) == /\ Left(seen[i]) > before
                        /\ \A j \in DOMAIN seen :
                              \/ Left(seen[j]) < Left(seen[i])
                              \/ Left(seen[j]) = Left(seen[i]) /\ i <= j
<1>1. BestOf(seen) = IF \E i \in DOMAIN seen : Better(i)
                        THEN seen[CHOOSE i \in DOMAIN seen : Better(i)].id ELSE bestBet
  BY DEF BestOf
<1> HIDE DEF Better
<1>2. CASE \E i \in DOMAIN seen : Better(i)
  <2>1. (CHOOSE i \in DOMAIN seen : Better(i)) \in DOMAIN seen
    BY <1>2
  <2> QED  BY <1>1, <1>2, <2>1
<1>3. CASE ~ (\E i \in DOMAIN seen : Better(i))
  BY <1>1, <1>3
<1> QED  BY <1>2, <1>3


-----------------------------------------------------------------------------
\* Each step keeps the invariant and is a step of the callers' view.
Keeps == HeapInv' /\ (Abstract!Obtain \/ Abstract!Release \/ Abstract!Shrink)

LEMMA ListedFacts ==
    ASSUME HeapInv
    PROVE  /\ DOMAIN majors = 1 .. Len(majors) /\ Len(majors) \in Nat
           /\ bestBet # NULL => bestBet \in Listed
           /\ \A i \in 1 .. Len(majors) : /\ InOrder(majors[i]) /\ majors[i].id \in Listed
                                          /\ majors[i] \in MajorBlock
BY LenProperties DEF HeapInv, Listed, InOrder

LEMMA SeenFacts ==
    ASSUME HeapInv, NEW req, NEW n \in 0 .. Len(SearchOrder(req))
    PROVE  /\ DOMAIN Seen(SearchOrder(req), n) = 1 .. n
           /\ \A j \in 1 .. n : Seen(SearchOrder(req), n)[j].id \in Listed
<1>1. /\ Len(SearchOrder(req)) \in Nat
      /\ \A j \in 1 .. Len(SearchOrder(req)) : SearchOrder(req)[j] \in 1 .. Len(majors)
  BY OrderFacts
<1> DEFINE order == SearchOrder(req)
<1>2. \A j \in 1 .. n : j \in 1 .. Len(order)
  <2> HIDE DEF order
  <2> QED  BY <1>1 DEF order
<1>3. \A j \in 1 .. n : Seen(order, n)[j] = majors[order[j]]
  BY DEF Seen
<1> QED  BY <1>1, <1>2, <1>3, ListedFacts DEF Seen

LEMMA FitsKeeps ==
    ASSUME HeapInv, NEW req \in Nat, MallocFits(req)
    PROVE  Keeps
<1> DEFINE order == SearchOrder(req)
<1>1. PICK n \in DOMAIN order :
        /\ HasRoom(majors[order[n]], req)
        /\ LET i == order[n]
               m == Place(majors[i], req)
           IN  /\ majors' = [majors EXCEPT ![i] = m]
               /\ pointers' = pointers \cup {PointerIn(m, m.minors[FirstGap(majors[i], req) + 1])}
        /\ bestBet' = BestOf(Seen(order, n))
  BY DEF MallocFits
<1>2. DOMAIN order = 1 .. Len(order) /\ order[n] \in 1 .. Len(majors) /\ Len(order) \in Nat
  BY OrderFacts
<1> DEFINE i == order[n]
           m == Place(majors[i], req)
           g == FirstGap(majors[i], req)
           P == PointerIn(m, m.minors[g + 1])
<1> HIDE DEF order
<1>3. InOrder(majors[i]) /\ HasRoom(majors[i], req)
  BY <1>1, <1>2, ListedFacts
<1>4. /\ InOrder(m) /\ m.id = majors[i].id /\ m.minors # <<>>
      /\ HeldIn(m) = HeldIn(majors[i]) \cup {P}
      /\ \A b \in HeldIn(majors[i]) : Abstract!Apart(P, b) /\ P # b
  BY <1>3, PlaceFacts
<1>5. majors' = [majors EXCEPT ![i] = m] /\ pointers' = pointers \cup {P}
      /\ bestBet' = BestOf(Seen(order, n))
  BY <1>1
<1>6. i \in 1 .. Len(majors)
  BY <1>2
<1> HIDE DEF i, m, g, P
<1>7. bestBet' # NULL => bestBet' \in Listed
  <2>1. n \in 0 .. Len(order)
    BY <1>2
  <2>2. \A j \in DOMAIN Seen(order, n) : Seen(order, n)[j].id \in Listed
    BY <2>1, SeenFacts DEF order
  <2> QED  BY <1>5, <2>2, BestFacts, ListedFacts
<1>8. pointers' = Others(i) \cup HeldIn(m)
  BY <1>4, <1>5, <1>6, OthersApart
<1>9. HeapInv'
  <2>1. InvOf(majors', bestBet', pointers')
    BY <1>4, <1>5, <1>6, <1>7, <1>8, ReplaceFacts
  <2> QED  BY <2>1 DEF InvOf, HeapInv
<1>10. \A b \in pointers : Abstract!Apart(P, b) /\ P # b
  <2>1. pointers = Others(i) \cup HeldIn(majors[i])
    BY <1>6, OthersApart
  <2>2. P \in HeldIn(m)
    BY <1>4
  <2>3. \A b \in Others(i) : Abstract!Apart(P, b) /\ P # b
    BY <1>4, <1>6, <2>2, OthersApart
  <2> QED  BY <1>4, <2>1, <2>3
<1>11. Abstract!Obtain
  <2>1. P \in pointers' \ pointers
    BY <1>5, <1>10
  <2> QED  BY <1>5, <1>10, <2>1 DEF Abstract!Obtain
<1> QED  BY <1>9, <1>11 DEF Keeps

LEMMA GrowsKeeps ==
    ASSUME HeapInv, NEW req \in Nat, MallocGrows(req)
    PROVE  Keeps
<1> DEFINE order == SearchOrder(req)
           seen == Seen(order, Len(order))
<1>1. PICK id \in Ids \ {majors[i].id : i \in DOMAIN majors} :
         /\ majors' = Append(majors, Grown(id, req))
         /\ pointers' = pointers \cup {PointerIn(Grown(id, req), Grown(id, req).minors[1])}
         /\ bestBet' = IF majors # <<>> /\ Left(Last(majors)) < Need(req)
                          THEN BestOf(seen) ELSE BestOf(Append(seen, NewMajor(id, req)))
  BY Zenon DEF MallocGrows, Grown
<1> DEFINE new == NewMajor(id, req)
           m == Grown(id, req)
           P == PointerIn(m, m.minors[1])
<1>2. /\ InOrder(m) /\ m.id = id /\ m.minors # <<>> /\ HeldIn(m) = {P}
  BY GrowFacts
<1>3. /\ majors' = Append(majors, m) /\ pointers' = pointers \cup {P}
      /\ bestBet' = BestOf(seen) \/ bestBet' = BestOf(Append(seen, new))
  BY <1>1
<1>4. new.id = id
  BY DEF NewMajor
<1>5. id \notin Listed
  BY <1>1, ListedFacts DEF Listed
<1> DEFINE S == Listed \cup {id}
           len == Len(order)
<1>6. /\ len \in Nat /\ DOMAIN seen = 1 .. len
      /\ \A j \in 1 .. len : seen[j].id \in S /\ seen[j] \in MajorBlock
  <2>1. len \in Nat /\ \A j \in 1 .. len : order[j] \in 1 .. Len(majors)
    BY OrderFacts
  <2>2. len \in 0 .. len
    <3> HIDE DEF len
    <3> QED  BY <2>1
  <2>3. DOMAIN seen = 1 .. len /\ \A j \in 1 .. len : seen[j].id \in Listed
    BY <2>2, SeenFacts
  <2>4. \A j \in 1 .. len : seen[j] = majors[order[j]]
    BY DEF Seen
  <2> QED  BY <2>1, <2>3, <2>4, ListedFacts
<1> HIDE DEF new, m, P, order, len
<1>7. bestBet' # NULL => bestBet' \in S
  <2>1. bestBet # NULL => bestBet \in S
    BY ListedFacts
  <2>2. BestOf(seen) # NULL => BestOf(seen) \in S
    <3> HIDE DEF seen, S
    <3> QED  BY <1>6, <2>1, BestFacts
  <2>3. \A j \in DOMAIN Append(seen, new) : Append(seen, new)[j].id \in S
    <3>1. DOMAIN Append(seen, new) = 1 .. len + 1
          /\ \A j \in 1 .. len + 1 : Append(seen, new)[j] = IF j <= len THEN seen[j] ELSE new
      <4> DEFINE T == MajorBlock \cup {new}
      <4>1. seen \in Seq(T) /\ Len(seen) = len
        <5>1. seen = [j \in 1 .. len |-> majors[order[j]]]
          BY DEF Seen, len
        <5>2. \A j \in 1 .. len : majors[order[j]] \in T
          BY <1>6, <5>1
        <5> HIDE DEF seen, T
        <5> QED  BY <1>6, <5>1, <5>2
      <4> HIDE DEF seen, T
      <4>2. new \in T
        BY DEF T
      <4>3. /\ Append(seen, new) \in Seq(T) /\ Len(Append(seen, new)) = Len(seen) + 1
            /\ \A j \in 1 .. Len(seen) : Append(seen, new)[j] = seen[j]
            /\ Append(seen, new)[Len(seen) + 1] = new
        BY <4>1, <4>2, AppendProperties
      <4>4. DOMAIN Append(seen, new) = 1 .. len + 1
        BY <4>1, <4>3, LenProperties
      <4>5. \A j \in 1 .. len + 1 : (j \in 1 .. len /\ j <= len) \/ (j = len + 1 /\ ~ (j <= len))
        BY <1>6
      <4> QED  BY <4>1, <4>3, <4>4, <4>5
    <3>2. \A j \in 1 .. len + 1 : j <= len => j \in 1 .. len
      BY <1>6
    <3> QED  BY <1>4, <1>6, <3>1, <3>2
  <2>4. BestOf(Append(seen, new)) # NULL => BestOf(Append(seen, new)) \in S
    <3> HIDE DEF seen, S
    <3> QED  BY <2>1, <2>3, BestFacts
  <2> QED  BY <1>3, <2>2, <2>4
<1>8. /\ InvOf(Append(majors, m), bestBet', pointers \cup HeldIn(m))
      /\ \A a \in HeldIn(m), b \in pointers : Abstract!Apart(a, b) /\ a # b
  BY <1>2, <1>5, <1>7, JoinFacts
<1>9. HeapInv'
  <2>1. InvOf(majors', bestBet', pointers')
    BY <1>2, <1>3, <1>8
  <2> QED  BY <2>1 DEF InvOf, HeapInv
<1>10. Abstract!Obtain
  <2>1. P \in pointers' \ pointers /\ \A b \in pointers : Abstract!Apart(P, b)
    BY <1>2, <1>3, <1>8
  <2> QED  BY <1>3, <2>1 DEF Abstract!Obtain
<1> QED  BY <1>9, <1>10 DEF Keeps

LEMMA FreeKeeps ==
    ASSUME HeapInv, NEW i \in DOMAIN majors, NEW k \in DOMAIN majors[i].minors, free(i, k)
    PROVE  Keeps
<1> DEFINE P == PointerIn(majors[i], majors[i].minors[k])
<1>1. /\ i \in 1 .. Len(majors) /\ InOrder(majors[i]) /\ k \in 1 .. Len(majors[i].minors)
      /\ majors[i].id \in Listed /\ (bestBet # NULL => bestBet \in Listed)
  BY ListedFacts, InOrderFacts
<1>2. pointers' = pointers \ {P}
  BY DEF free
<1>3. P \in HeldIn(majors[i])
  BY <1>1 DEF HeldIn
<1>4. /\ pointers = Others(i) \cup HeldIn(majors[i])
      /\ \A b \in Others(i) : P # b
  BY <1>1, <1>3, OthersApart
<1>5. Abstract!Release
  BY <1>2, <1>3, <1>4 DEF Abstract!Release
<1>6. CASE Len(majors[i].minors) = 1
  <2>1. majors' = RemoveAt(majors, i) /\ bestBet' = IF bestBet = majors[i].id THEN NULL ELSE bestBet
    BY <1>6 DEF free, FreeMajor
  <2>2. bestBet' # NULL => bestBet' \in Listed /\ bestBet' # majors[i].id
    BY <1>1, <2>1
  <2>3. HeldIn(majors[i]) = {P}
    <3>1. 1 .. Len(majors[i].minors) = {1}
      BY <1>6
    <3>2. k = 1
      BY <1>1, <3>1
    <3> QED  BY <3>1, <3>2 DEF HeldIn
  <2>4. pointers' = Others(i)
    BY <1>2, <1>4, <2>3
  <2>5. InvOf(majors', bestBet', pointers')
    BY <1>1, <2>1, <2>2, <2>4, LeaveFacts
  <2> QED  BY <1>5, <2>5 DEF InvOf, HeapInv, Keeps
<1>7. CASE Len(majors[i].minors) # 1
  <2> DEFINE u == majors[i].usage - majors[i].minors[k].size - Minor
             r == Unlinked(majors[i], k, u)
  <2>1. /\ majors' = [majors EXCEPT ![i] = r]
        /\ bestBet' = bestBet \/ bestBet' = r.id
    BY <1>7 DEF free, FreeMinor, Unlinked
  <2>2. u \in Int
    BY <1>1, InOrderFacts, LiballocAssumption
  <2> HIDE DEF u
  <2>3. /\ InOrder(r) /\ r.id = majors[i].id /\ r.minors # <<>>
        /\ HeldIn(r) = HeldIn(majors[i]) \ {P}
    BY <1>1, <1>7, <2>2, UnlinkFacts
  <2> HIDE DEF r, P
  <2>4. pointers' = Others(i) \cup HeldIn(r)
    BY <1>2, <1>4, <2>3
  <2>5. bestBet' # NULL => bestBet' \in Listed
    BY <1>1, <2>1, <2>3
  <2>6. InvOf(majors', bestBet', pointers')
    BY <1>1, <2>1, <2>3, <2>4, <2>5, ReplaceFacts
  <2> QED  BY <1>5, <2>6 DEF InvOf, HeapInv, Keeps
<1> QED  BY <1>6, <1>7

LEMMA ShrinksKeeps ==
    ASSUME HeapInv, NEW i \in DOMAIN majors, NEW k \in DOMAIN majors[i].minors,
           NEW req \in Nat, realloc_Shrinks(i, k, req)
    PROVE  Keeps
<1> DEFINE P == PointerIn(majors[i], majors[i].minors[k])
           r == Shrunk(majors[i], k, req)
           Q == PointerIn(r, r.minors[k])
<1>1. /\ i \in 1 .. Len(majors) /\ InOrder(majors[i]) /\ k \in 1 .. Len(majors[i].minors)
      /\ (bestBet # NULL => bestBet \in Listed)
  BY ListedFacts, InOrderFacts
<1>2. /\ majors[i].minors[k].req >= req
      /\ majors' = [majors EXCEPT ![i] = r]
      /\ pointers' = (pointers \ {P}) \cup {Q}
      /\ bestBet' = bestBet
  BY DEF realloc_Shrinks, Shrunk
<1>3. P \in HeldIn(majors[i])
  BY <1>1 DEF HeldIn
<1>4. /\ pointers = Others(i) \cup HeldIn(majors[i])
      /\ \A b \in Others(i) : P # b
  BY <1>1, <1>3, OthersApart
<1>5. /\ InOrder(r) /\ r.id = majors[i].id /\ r.minors # <<>>
      /\ HeldIn(r) = (HeldIn(majors[i]) \ {P}) \cup {Q}
      /\ Q.id = P.id /\ Q.from = P.from /\ Q.length <= P.length
  BY <1>1, <1>2, ShrinkFacts
<1> HIDE DEF P, Q, r
<1>6. pointers' = Others(i) \cup HeldIn(r)
  BY <1>2, <1>4, <1>5
<1>7. HeapInv'
  <2>1. InvOf(majors', bestBet', pointers')
    BY ZenonT(30), <1>1, <1>2, <1>5, <1>6, ReplaceFacts
  <2> QED  BY <2>1 DEF InvOf, HeapInv
<1>8. Abstract!Shrink
  BY <1>2, <1>3, <1>4, <1>5 DEF Abstract!Shrink
<1> QED  BY <1>7, <1>8 DEF Keeps


\* Whatever is allocated, freed and shrunk, by any number of calls: the
\* inductive invariant of the heap.
THEOREM LiballocInvariance == Spec => []HeapInv
<1>1. Init => HeapInv
  <2> SUFFICES ASSUME Init  PROVE HeapInv
    OBVIOUS
  <2>1. majors = <<>> /\ Len(majors) = 0 /\ bestBet = NULL /\ pointers = {} /\ 1 .. Len(majors) = {}
    BY DEF Init
  <2> QED  BY <2>1 DEF HeapInv
<1>2. HeapInv /\ [Next]_heapVars => HeapInv'
  <2> SUFFICES ASSUME HeapInv, [Next]_heapVars  PROVE HeapInv'
    OBVIOUS
  <2>1. ASSUME NEW req \in Sizes, malloc(req)
        PROVE  HeapInv'
    BY <2>1, FitsKeeps, GrowsKeeps, LiballocAssumption DEF malloc, Keeps
  <2>2. ASSUME NEW i \in DOMAIN majors, NEW k \in DOMAIN majors[i].minors, free(i, k)
        PROVE  HeapInv'
    BY <2>2, FreeKeeps DEF Keeps
  <2>3. ASSUME NEW i \in DOMAIN majors, NEW k \in DOMAIN majors[i].minors,
               NEW req \in Sizes \ {0}, realloc_Shrinks(i, k, req)
        PROVE  HeapInv'
    BY <2>3, ShrinksKeeps, LiballocAssumption DEF Keeps
  <2>4. ASSUME UNCHANGED heapVars
        PROVE  HeapInv'
    BY <2>4 DEF heapVars, HeapInv, HeldIn, InOrder, PointerIn
  <2> QED  BY <2>1, <2>2, <2>3, <2>4 DEF Next
<1> QED  BY <1>1, <1>2, PTL DEF Spec

\* liballoc.c's malloc, free and realloc keep their promise to the callers:
\* two blocks in use never overlap, a free gives back one block and no
\* other, and a block that shrinks stays where it is.
THEOREM LiballocRefinesHeap == Spec => Refines
<1>1. Init => Abstract!HeapInit
  BY DEF Init, Abstract!HeapInit
<1>2. HeapInv /\ [Next]_heapVars
      => [Abstract!Obtain \/ Abstract!Release \/ Abstract!Shrink]_pointers
  <2> SUFFICES ASSUME HeapInv, Next
               PROVE  Abstract!Obtain \/ Abstract!Release \/ Abstract!Shrink
    BY DEF heapVars
  <2>1. ASSUME NEW req \in Sizes, malloc(req)
        PROVE  Abstract!Obtain \/ Abstract!Release \/ Abstract!Shrink
    BY <2>1, FitsKeeps, GrowsKeeps, LiballocAssumption DEF malloc, Keeps
  <2>2. ASSUME NEW i \in DOMAIN majors, NEW k \in DOMAIN majors[i].minors, free(i, k)
        PROVE  Abstract!Obtain \/ Abstract!Release \/ Abstract!Shrink
    BY <2>2, FreeKeeps DEF Keeps
  <2>3. ASSUME NEW i \in DOMAIN majors, NEW k \in DOMAIN majors[i].minors,
               NEW req \in Sizes \ {0}, realloc_Shrinks(i, k, req)
        PROVE  Abstract!Obtain \/ Abstract!Release \/ Abstract!Shrink
    BY <2>3, ShrinksKeeps, LiballocAssumption DEF Keeps
  <2> QED  BY <2>1, <2>2, <2>3 DEF Next
<1> QED  BY <1>1, <1>2, LiballocInvariance, PTL DEF Spec, Refines, Abstract!HeapSpec

\* The minor blocks of a major block lie one after the other behind its
\* header and inside its pages, with room in each for its request and its
\* alignment: the placing in malloc, at any gap, and the unlinking in free.
THEOREM LiballocMinorsInOrder == Spec => []MinorsInOrder
<1>1. ASSUME HeapInv
      PROVE  MinorsInOrder
  <2> SUFFICES ASSUME NEW i \in DOMAIN majors
               PROVE  LET m == majors[i] IN
                      /\ \A k \in 0 .. Len(m.minors) : Gap(m, k) >= 0
                      /\ \A k \in DOMAIN m.minors :
                            m.minors[k].req + PAD <= m.minors[k].size
                            /\ m.minors[k].at + Minor + m.minors[k].size <= m.pages * PageSize
    BY DEF MinorsInOrder
  <2> DEFINE m == majors[i]
             N == Len(m.minors)
             at(k) == m.minors[k].at
             end(k) == End(m.minors[k])
             size == m.size
             start(k) == GapStart(m, k)
             gap(k) == Gap(m, k)
  <2>1. InOrder(m) /\ m.minors # <<>> /\ size = m.pages * PageSize
    BY <1>1, ListedFacts DEF HeapInv, InOrder
  <2>2. /\ N \in Nat /\ DOMAIN m.minors = 1 .. N /\ size \in Nat /\ Major \in Nat
        /\ m.minors \in Seq(Block)
    BY <2>1, InOrderFacts, LiballocAssumption
  <2>3. N # 0
    BY <2>1, <2>2, EmptySeq
  <2>4. /\ \A k \in 1 .. N : at(k) \in Nat /\ end(k) \in Nat /\ Major <= at(k) /\ end(k) <= size
        /\ \A j, k \in 1 .. N : j < k => end(j) <= at(k)
    BY <2>1, InOrderFacts DEF InOrder
  <2>5. \A k \in 1 .. N : m.minors[k].req + PAD <= m.minors[k].size
                          /\ m.minors[k].at + Minor + m.minors[k].size <= m.pages * PageSize
    BY <2>1 DEF InOrder, End
  <2>6. ASSUME NEW k \in 0 .. N
        PROVE  gap(k) >= 0
    <3>1. start(k) = IF k = 0 THEN Major ELSE end(k)
      BY DEF GapStart, End
    <3>2. gap(k) = (IF k = N THEN size ELSE at(k + 1)) - start(k)
      BY DEF Gap
    <3> HIDE DEF N, at, end, size, start, gap
    <3>3. k = 0 \/ k \in 1 .. N
      BY ONLY <2>2, k \in 0 .. N
    <3>4. k = N \/ (k + 1 \in 1 .. N /\ k < k + 1)
      BY ONLY <2>2, k \in 0 .. N
    <3>5. CASE k = 0
      <4>1. k + 1 \in 1 .. N /\ k # N
        BY ONLY <2>2, <2>3, <3>5
      <4>2. start(k) = Major /\ gap(k) = at(k + 1) - Major /\ at(k + 1) \in Nat /\ Major <= at(k + 1)
        BY ONLY <2>4, <3>1, <3>2, <3>5, <4>1
      <4> QED  BY ONLY <2>2, <4>2
    <3>6. CASE k \in 1 .. N /\ k = N
      <4>1. gap(k) = size - end(k) /\ end(k) \in Nat /\ end(k) <= size
        BY ONLY <2>2, <2>3, <2>4, <3>1, <3>2, <3>6
      <4> QED  BY ONLY <2>2, <4>1
    <3>7. CASE k \in 1 .. N /\ k # N
      <4>1. k + 1 \in 1 .. N /\ k < k + 1 /\ k # 0
        BY ONLY <2>2, <3>4, <3>7
      <4>2. gap(k) = at(k + 1) - end(k) /\ end(k) \in Nat /\ at(k + 1) \in Nat /\ end(k) <= at(k + 1)
        BY ONLY <2>4, <3>1, <3>2, <3>7, <4>1
      <4> QED  BY ONLY <4>2
    <3> QED  BY ONLY <3>3, <3>5, <3>6, <3>7
  <2> QED  BY <2>2, <2>5, <2>6
<1> QED  BY <1>1, LiballocInvariance, PTL

\* No block is lost and none is invented: what the lists of the major
\* blocks hold is what the callers hold, after any order of calls.
THEOREM LiballocListsAll == Spec => []ListsAllPointers
<1>1. ASSUME HeapInv
      PROVE  ListsAllPointers
  <2>1. /\ DOMAIN majors = 1 .. Len(majors)
        /\ \A i \in 1 .. Len(majors) : DOMAIN majors[i].minors = 1 .. Len(majors[i].minors)
    BY <1>1, ListedFacts, InOrderFacts
  <2> QED  BY SMTT(30), <1>1, <2>1 DEF HeapInv, HeldIn, ListsAllPointers
<1> QED  BY <1>1, LiballocInvariance, PTL

\* l_bestBet, which malloc starts its search at and free resets, is never a
\* major block that has been given back, and no empty major block is kept.
THEOREM LiballocBestBet == Spec => []BestBetListed
<1>1. ASSUME HeapInv
      PROVE  BestBetListed
  <2>1. DOMAIN majors = 1 .. Len(majors)
    BY <1>1, ListedFacts
  <2> QED  BY <1>1, <2>1 DEF HeapInv, BestBetListed
<1> QED  BY <1>1, LiballocInvariance, PTL


-----------------------------------------------------------------------------
(***************************************************************************)
(* The usage of a major block, a sum over its list.  The running sums of a *)
(* list are a function of their own, and what holds of all of them is      *)
(* shown by the least one for which it fails.                              *)
(***************************************************************************)
Sums(g, n, w) ==
    /\ g \in [0 .. n -> Int]
    /\ g[0] = 0
    /\ \A k \in 1 .. n : g[k] = g[k - 1] + w[k]

LEMMA SumsExist ==
    ASSUME NEW N \in Nat, NEW w \in [1 .. N -> Int]
    PROVE  \E g : Sums(g, N, w)
<1> DEFINE T == {n \in 0 .. N : ~ \E g : Sums(g, n, w)}
<1>1. SUFFICES T = {}
  <2>1. N \in 0 .. N
    OBVIOUS
  <2> QED  BY <2>1
<1>2. SUFFICES ASSUME T # {}  PROVE FALSE
  OBVIOUS
<1>3. PICK n \in T : \A j \in T : n <= j
  <2>1. T \subseteq Nat
    OBVIOUS
  <2> HIDE DEF T
  <2> QED  BY <1>2, <2>1, LeastNumber
<1>4. n \in 0 .. N /\ ~ \E g : Sums(g, n, w)
  BY <1>3
<1>5. n # 0
  <2> DEFINE z == [k \in 0 .. 0 |-> 0]
  <2>1. Sums(z, 0, w)
    BY DEF Sums
  <2> QED  BY <1>4, <2>1
<1>6. PICK g : Sums(g, n - 1, w)
  <2>1. n - 1 \in 0 .. N /\ ~ (n <= n - 1)
    BY <1>4, <1>5
  <2>2. n - 1 \notin T
    BY <1>3, <2>1
  <2> QED  BY <2>1, <2>2
<1> DEFINE h == [k \in 0 .. n |-> IF k = n THEN g[n - 1] + w[n] ELSE g[k]]
<1>7. Sums(h, n, w)
  <2>1. /\ g \in [0 .. n - 1 -> Int] /\ g[0] = 0
        /\ \A k \in 1 .. n - 1 : g[k] = g[k - 1] + w[k]
    BY <1>6 DEF Sums
  <2>2. n - 1 \in 0 .. n - 1 /\ n \in 1 .. N /\ 0 \in 0 .. n
    BY <1>4, <1>5
  <2>3. \A k \in 0 .. n : k = n \/ k \in 0 .. n - 1
    BY <1>4
  <2>4. h \in [0 .. n -> Int]
    BY <2>1, <2>2, <2>3
  <2>5. h[0] = 0
    BY <1>5, <2>1, <2>2
  <2>6. ASSUME NEW k \in 1 .. n
        PROVE  h[k] = h[k - 1] + w[k]
    <3>1. k \in 0 .. n /\ k - 1 \in 0 .. n /\ k - 1 # n
      BY <1>4
    <3>2. CASE k = n
      BY <3>1, <3>2
    <3>3. CASE k # n
      <4>1. k \in 1 .. n - 1
        BY <1>4, <3>3
      <4> QED  BY <2>1, <3>1, <3>3, <4>1
    <3> QED  BY <3>2, <3>3
  <2> HIDE DEF h
  <2> QED  BY <2>4, <2>5, <2>6 DEF Sums
<1> QED  BY <1>4, <1>7

\* The sums of a list into which one element is put.
PutIn(v, w, n, i, e) ==
    \A j \in 1 .. n + 1 : v[j] = IF j < i THEN w[j] ELSE IF j = i THEN e ELSE w[j - 1]

\* The l-th sum of one list is the n-th of another and e.
More(h, l, g, n, e) == h[l] = g[n] + e

LEMMA SumsInsert ==
    ASSUME NEW n \in Nat, NEW w \in [1 .. n -> Int], NEW v, NEW g, NEW h,
           NEW l, l = n + 1, Sums(g, n, w), Sums(h, l, v),
           NEW i, i \in 1 .. l, NEW e, e \in Int, PutIn(v, w, n, i, e)
    PROVE  More(h, l, g, n, e)
<1> DEFINE Right(k) == h[k] = IF k < i THEN g[k] ELSE g[k - 1] + e
           T == {k \in 0 .. n + 1 : ~ Right(k)}
<1>1. /\ g \in [0 .. n -> Int] /\ g[0] = 0 /\ \A k \in 1 .. n : g[k] = g[k - 1] + w[k]
      /\ h \in [0 .. n + 1 -> Int] /\ h[0] = 0
      /\ \A k \in 1 .. n + 1 : h[k] = h[k - 1] + v[k]
  BY DEF Sums
<1>2. SUFFICES T = {}
  <2>1. l = n + 1 /\ n + 1 \in 0 .. n + 1 /\ ~ (n + 1 < i) /\ (n + 1) - 1 = n
    OBVIOUS
  <2>2. Right(n + 1)
    BY <2>1
  <2> QED  BY <2>1, <2>2 DEF More
<1>3. SUFFICES ASSUME T # {}  PROVE FALSE
  OBVIOUS
<1>4. PICK k \in T : \A j \in T : k <= j
  <2>1. T \subseteq Nat
    OBVIOUS
  <2> HIDE DEF T
  <2> QED  BY <1>3, <2>1, LeastNumber
<1>5. k \in 0 .. n + 1 /\ ~ Right(k)
  BY <1>4
<1>6. k # 0
  <2>1. Right(0)
    BY <1>1
  <2> QED  BY <1>5, <2>1
<1>7. Right(k - 1) /\ k \in 1 .. n + 1
  <2>1. k - 1 \in 0 .. n + 1 /\ ~ (k <= k - 1) /\ k \in 1 .. n + 1
    BY <1>5, <1>6
  <2>2. k - 1 \notin T
    BY <1>4, <2>1
  <2> QED  BY <2>1, <2>2
<1> HIDE DEF T
<1>8. h[k] = h[k - 1] + v[k]
  BY <1>1, <1>7
<1>9. v[k] = IF k < i THEN w[k] ELSE IF k = i THEN e ELSE w[k - 1]
  BY <1>7 DEF PutIn
<1>10. CASE k < i
  <2>1. k - 1 < i /\ k \in 1 .. n
    BY <1>7, <1>10
  <2>2. h[k - 1] = g[k - 1] /\ v[k] = w[k] /\ g[k] = g[k - 1] + w[k]
    BY <1>1, <1>7, <1>9, <1>10, <2>1
  <2> QED  BY <1>5, <1>8, <1>10, <2>2
<1>11. CASE k = i
  <2>1. k - 1 < i /\ ~ (k < i)
    BY <1>7, <1>11
  <2>2. h[k - 1] = g[k - 1] /\ v[k] = e
    BY <1>7, <1>9, <1>11, <2>1
  <2> QED  BY <1>5, <1>8, <2>1, <2>2
<1>12. CASE k > i
  <2>1. ~ (k < i) /\ k # i /\ ~ (k - 1 < i) /\ k - 1 \in 1 .. n
    BY <1>7, <1>12
  <2>2. /\ h[k - 1] = g[(k - 1) - 1] + e /\ v[k] = w[k - 1]
        /\ g[k - 1] = g[(k - 1) - 1] + w[k - 1]
    BY <1>1, <1>7, <1>9, <2>1
  <2>3. g[(k - 1) - 1] \in Int /\ g[k - 1] \in Int
    <3>1. (k - 1) - 1 \in 0 .. n /\ k - 1 \in 0 .. n
      BY <2>1
    <3> QED  BY <1>1, <3>1
  <2>4. h[k] = (g[(k - 1) - 1] + e) + w[k - 1]
    BY <1>8, <2>2
  <2>5. w[k - 1] \in Int
    BY <2>1
  <2>6. \A a, b, c, d \in Int : c = a + b => (a + d) + b = c + d
    OBVIOUS
  <2>7. (g[(k - 1) - 1] + e) + w[k - 1] = g[k - 1] + e
    BY ONLY <2>2, <2>3, <2>5, <2>6, e \in Int
  <2> QED  BY <1>5, <2>1, <2>4, <2>7
<1> QED  BY <1>7, <1>10, <1>11, <1>12


\* The same list has the same sums.
LEMMA SumsSame ==
    ASSUME NEW n \in Nat, NEW w, NEW g, NEW h, Sums(g, n, w), Sums(h, n, w)
    PROVE  g[n] = h[n]
<1> DEFINE T == {k \in 0 .. n : g[k] # h[k]}
<1>1. SUFFICES T = {}
  OBVIOUS
<1>2. SUFFICES ASSUME T # {}  PROVE FALSE
  OBVIOUS
<1>3. PICK k \in T : \A j \in T : k <= j
  <2>1. T \subseteq Nat
    OBVIOUS
  <2> HIDE DEF T
  <2> QED  BY <1>2, <2>1, LeastNumber
<1>4. k \in 1 .. n
  BY <1>3 DEF Sums
<1>5. g[k - 1] = h[k - 1]
  <2>1. k - 1 \in 0 .. n /\ ~ (k <= k - 1)
    BY <1>4
  <2> QED  BY <1>3, <2>1
<1>6. g[k] = h[k]
  BY <1>4, <1>5 DEF Sums
<1> QED  BY <1>3, <1>6

\* What Taken computes is the last of the running sums.
Weights(s) == [k \in 1 .. Len(s) |-> Minor + s[k].size]

LEMMA TakenIs ==
    ASSUME NEW s \in Seq(Block)
    PROVE  /\ Weights(s) \in [1 .. Len(s) -> Int]
           /\ \E g : Sums(g, Len(s), Weights(s)) /\ Taken(s) = g[Len(s)]
<1> DEFINE N == Len(s)
           w == Weights(s)
           F(f) == [k \in 0 .. N |-> IF k = 0 THEN 0 ELSE f[k - 1] + Minor + s[k].size]
           t == CHOOSE f : f = F(f)
<1>1. Taken(s) = t[N]
  BY DEF Taken
<1>2. N \in Nat /\ Minor \in Nat /\ \A k \in 1 .. N : s[k].size \in Nat
  <2>1. \A k \in 1 .. N : s[k] \in Block
    BY ElementOfSeq
  <2> QED  BY <2>1, LenProperties, LiballocAssumption DEF Block
<1>0. \A a, b, c \in Int : a + (b + c) = a + b + c
  OBVIOUS
<1>3. w \in [1 .. N -> Int] /\ \A k \in 1 .. N : w[k] = Minor + s[k].size
  BY <1>2 DEF Weights
<1> HIDE DEF w, N
<1>4. PICK g : Sums(g, N, w)
  BY <1>2, <1>3, SumsExist
<1>5. g = F(g)
  <2>1. \A k \in 0 .. N : g[k] = IF k = 0 THEN 0 ELSE g[k - 1] + Minor + s[k].size
    <3> SUFFICES ASSUME NEW k \in 0 .. N
                 PROVE  g[k] = IF k = 0 THEN 0 ELSE g[k - 1] + Minor + s[k].size
      OBVIOUS
    <3>1. CASE k = 0
      BY <1>4, <3>1 DEF Sums
    <3>2. CASE k # 0
      <4>1. k \in 1 .. N /\ k - 1 \in 0 .. N
        BY <1>2, <3>2
      <4>2. g[k] = g[k - 1] + w[k] /\ g[k - 1] \in Int /\ w[k] = Minor + s[k].size /\ s[k].size \in Nat
        BY <1>2, <1>3, <1>4, <4>1 DEF Sums
      <4>3. g[k] = g[k - 1] + (Minor + s[k].size)
        BY <4>2
      <4>4. g[k] = g[k - 1] + Minor + s[k].size
        BY ONLY <1>0, <1>2, <4>2, <4>3
      <4> QED  BY <3>2, <4>4
    <3> QED  BY <3>1, <3>2
  <2> QED  BY <1>4, <2>1 DEF Sums
<1>6. t = F(t)
  BY <1>5
<1> HIDE DEF t
<1>7. /\ t[0] = 0
      /\ \A k \in 1 .. N : k \in 0 .. N /\ t[k] = t[k - 1] + Minor + s[k].size
  <2>1. 0 \in 0 .. N /\ \A k \in 1 .. N : k \in 0 .. N /\ k # 0
    BY <1>2
  <2> QED  BY <1>6, <2>1
<1>8. t[N] = g[N]
  <2> DEFINE T == {k \in 0 .. N : t[k] # g[k]}
  <2>1. SUFFICES ASSUME T # {}  PROVE FALSE
    BY <1>2
  <2>2. PICK k \in T : \A j \in T : k <= j
    <3>1. T \subseteq Nat
      OBVIOUS
    <3> HIDE DEF T
    <3> QED  BY <2>1, <3>1, LeastNumber
  <2>3. k \in 1 .. N
    BY <1>2, <1>4, <1>7, <2>2 DEF Sums
  <2>4. t[k - 1] = g[k - 1]
    <3>1. k - 1 \in 0 .. N /\ ~ (k <= k - 1)
      BY <1>2, <2>3
    <3> QED  BY <2>2, <3>1
  <2>5. g[k] = g[k - 1] + w[k] /\ g[k - 1] \in Int /\ w[k] = Minor + s[k].size /\ s[k].size \in Nat
    <3>1. k - 1 \in 0 .. N
      BY <1>2, <2>3
    <3> QED  BY <1>2, <1>3, <1>4, <2>3, <3>1 DEF Sums
  <2>6. t[k] = g[k]
    <3>1. t[k] = g[k - 1] + Minor + s[k].size
      BY <1>7, <2>3, <2>4
    <3>2. g[k] = g[k - 1] + (Minor + s[k].size)
      BY <2>5
    <3> QED  BY ONLY <1>0, <1>2, <2>5, <3>1, <3>2
  <2> QED  BY <2>2, <2>6
<1> QED  BY <1>1, <1>3, <1>4, <1>8 DEF N, w

\* A list with one more block takes what that block takes more.
LEMMA TakenInsert ==
    ASSUME NEW s \in Seq(Block), NEW r \in Seq(Block), Len(r) = Len(s) + 1,
           NEW i \in 1 .. Len(s) + 1, NEW e \in Block,
           \A j \in 1 .. Len(s) + 1 :
              r[j] = IF j < i THEN s[j] ELSE IF j = i THEN e ELSE s[j - 1]
    PROVE  Taken(r) = Taken(s) + (Minor + e.size) /\ Taken(s) \in Int
<1> DEFINE n == Len(s)
           w == Weights(s)
           v == Weights(r)
           d == Minor + e.size
<1>1. n \in Nat /\ d \in Int /\ Len(r) = n + 1 /\ i \in 1 .. n + 1
  BY LenProperties, LiballocAssumption DEF Block
<1>2. w \in [1 .. n -> Int]
  BY TakenIs
<1>3. PICK g : Sums(g, n, w) /\ Taken(s) = g[n]
  BY TakenIs
<1>4. PICK h : Sums(h, n + 1, v) /\ Taken(r) = h[n + 1]
  BY TakenIs, <1>1
<1>5. ASSUME NEW j \in 1 .. n + 1
      PROVE  v[j] = IF j < i THEN w[j] ELSE IF j = i THEN d ELSE w[j - 1]
  <2>1. v[j] = Minor + r[j].size
    BY <1>1 DEF Weights
  <2>2. /\ j < i => j \in 1 .. n
        /\ ~ (j < i) /\ j # i => j - 1 \in 1 .. n
    <3> HIDE DEF n
    <3> QED  BY <1>1
  <2>3. /\ j < i => w[j] = Minor + s[j].size
        /\ ~ (j < i) /\ j # i => w[j - 1] = Minor + s[j - 1].size
    BY <2>2 DEF Weights
  <2>4. r[j] = IF j < i THEN s[j] ELSE IF j = i THEN e ELSE s[j - 1]
    OBVIOUS
  <2> HIDE DEF v, w, n
  <2> QED  BY <2>1, <2>3, <2>4
<1> HIDE DEF n, w, v, d
<1>6. h[n + 1] = g[n] + d
  <2> DEFINE l == n + 1
  <2>1. PutIn(v, w, n, i, d)
    BY <1>5 DEF PutIn
  <2>2. Sums(g, n, w) /\ Sums(h, l, v)
    BY <1>3, <1>4
  <2>3. n \in Nat /\ d \in Int /\ i \in 1 .. l /\ l = n + 1
    BY <1>1
  <2> HIDE DEF l
  <2>4. More(h, l, g, n, d)
    BY ONLY <1>2, <2>1, <2>2, <2>3, SumsInsert
  <2> QED  BY <2>3, <2>4 DEF More
<1>7. g[n] \in Int
  BY <1>1, <1>3 DEF Sums
<1> QED  BY <1>3, <1>4, <1>6, <1>7 DEF d

\* Blocks of the same sizes take the same.
LEMMA TakenSame ==
    ASSUME NEW s \in Seq(Block), NEW r \in Seq(Block), Len(r) = Len(s),
           \A k \in 1 .. Len(s) : r[k].size = s[k].size
    PROVE  Taken(r) = Taken(s)
<1>1. Weights(r) = Weights(s)
  BY DEF Weights
<1>2. Len(s) \in Nat
  BY LenProperties
<1> QED  BY <1>1, <1>2, TakenIs, SumsSame

-----------------------------------------------------------------------------
Counted(m) == m.usage = Major + Taken(m.minors)

LEMMA PlaceCounted ==
    ASSUME NEW m, InOrder(m), NEW req \in Nat, HasRoom(m, req), Counted(m)
    PROVE  Counted(Place(m, req))
<1> DEFINE p == Place(m, req)
           g == FirstGap(m, req)
           s == m.minors
           new == NewBlock(m, req)
           q == InsertAt(s, g + 1, new)
<1>1. p.minors = q /\ p.usage = m.usage + Need(req)
  <2>1. p = [m EXCEPT !.minors = q, !.usage = m.usage + Need(req)] /\ m \in MajorBlock
    BY DEF Place, NewBlock, InOrder
  <2> HIDE DEF p, q
  <2> QED  BY ONLY <2>1 DEF MajorBlock
<1>2. g \in 0 .. Len(s) /\ s \in Seq(Block) /\ Len(s) \in Nat
  BY FirstGapFacts, InOrderFacts
<1>3. g + 1 \in 1 .. Len(s) + 1
  <2> HIDE DEF g, s
  <2> QED  BY <1>2
<1>4. new \in Block /\ new.size = req + PAD
  <2>1. Gap(m, g) >= Need(req)
    BY FirstGapFacts
  <2>2. GapStart(m, g) \in Nat
    BY <1>2, <2>1, GapFacts
  <2> QED  BY <2>2, LiballocAssumption DEF NewBlock, Block
<1> DEFINE i == g + 1
<1>i. i \in 1 .. Len(s) + 1
  BY <1>3
<1> HIDE DEF i
<1>q. q = InsertAt(s, i, new)
  BY DEF i
<1> HIDE DEF g, s, new, p, q
<1>5. /\ InsertAt(s, i, new) \in Seq(Block) /\ Len(InsertAt(s, i, new)) = Len(s) + 1
      /\ \A j \in 1 .. Len(s) + 1 :
            InsertAt(s, i, new)[j] = IF j < i THEN s[j] ELSE IF j = i THEN new ELSE s[j - 1]
  BY ONLY SMTT(30), <1>2, <1>i, <1>4, InsertFacts
<1>6. Taken(InsertAt(s, i, new)) = Taken(s) + (Minor + new.size) /\ Taken(s) \in Int
  <2> DEFINE r == InsertAt(s, i, new)
  <2> HIDE DEF r
  <2> QED  BY ZenonT(30), <1>2, <1>i, <1>4, <1>5, TakenInsert DEF r
<1>7. m.usage = Major + Taken(s)
  BY DEF Counted, s
<1>8. Minor \in Nat /\ PAD \in Nat /\ Major \in Nat
  BY LiballocAssumption
<1>9. p.usage = Major + Taken(p.minors)
  <2> DEFINE x == Taken(s)
  <2>1. x \in Int /\ p.usage = (Major + x) + (req + PAD + Minor)
    BY <1>1, <1>6, <1>7 DEF Need
  <2>2. Major + Taken(p.minors) = Major + (x + (Minor + (req + PAD)))
    BY <1>1, <1>4, <1>6, <1>q
  <2> HIDE DEF x
  <2>3. (Major + x) + (req + PAD + Minor) = Major + (x + (Minor + (req + PAD)))
    BY <1>8, <2>1
  <2> QED  BY <2>1, <2>2, <2>3
<1> QED  BY <1>9 DEF Counted, p

LEMMA UnlinkedCounted ==
    ASSUME NEW m, InOrder(m), NEW k \in 1 .. Len(m.minors), Counted(m)
    PROVE  Counted(Unlinked(m, k, m.usage - m.minors[k].size - Minor))
<1> DEFINE s == m.minors
           e == s[k]
           q == RemoveAt(s, k)
           u == m.usage - e.size - Minor
           r == Unlinked(m, k, u)
<1>1. r.minors = q /\ r.usage = u
  <2>1. r = [m EXCEPT !.minors = q, !.usage = u] /\ m \in MajorBlock
    BY DEF Unlinked, InOrder
  <2> HIDE DEF r, q, u
  <2> QED  BY ONLY <2>1 DEF MajorBlock
<1>2. s \in Seq(Block) /\ Len(s) \in Nat /\ k \in 1 .. Len(s) /\ e \in Block /\ e.size \in Nat
  BY InOrderFacts
<1>3. m.usage = Major + Taken(s)
  BY DEF Counted
<1> HIDE DEF s, e
<1>4. /\ q \in Seq(Block) /\ Len(q) = Len(s) - 1
      /\ \A j \in 1 .. Len(s) - 1 : q[j] = IF j < k THEN s[j] ELSE s[j + 1]
  BY <1>2, RemoveFacts
<1> HIDE DEF q
<1> DEFINE N == Len(s)
<1>5. Len(s) = Len(q) + 1 /\ k \in 1 .. Len(q) + 1
  BY <1>2, <1>4
<1>6. ASSUME NEW j \in 1 .. Len(q) + 1
      PROVE  s[j] = IF j < k THEN q[j] ELSE IF j = k THEN e ELSE q[j - 1]
  <2>1. CASE j < k
    <3>1. j \in 1 .. N - 1
      BY <1>2, <1>5, <2>1
    <3> QED  BY <1>4, <2>1, <3>1
  <2>2. CASE j = k
    BY <2>2 DEF e
  <2>3. CASE j > k
    <3>1. j - 1 \in 1 .. N - 1 /\ ~ (j - 1 < k) /\ (j - 1) + 1 = j /\ ~ (j < k) /\ j # k
      BY <1>2, <1>5, <2>3
    <3> QED  BY <1>4, <3>1
  <2> QED  BY <1>2, <1>5, <2>1, <2>2, <2>3
<1>7. Taken(s) = Taken(q) + (Minor + e.size) /\ Taken(q) \in Int
  BY ZenonT(30), <1>2, <1>4, <1>5, <1>6, TakenInsert
<1>8. Minor \in Nat /\ Major \in Nat
  BY LiballocAssumption
<1>9. r.usage = Major + Taken(r.minors)
  <2> DEFINE x == Taken(q)  y == e.size
  <2>1. x \in Int /\ y \in Nat /\ r.usage = (Major + (x + (Minor + y))) - y - Minor
    BY <1>1, <1>2, <1>3, <1>7
  <2>2. Major + Taken(r.minors) = Major + x
    BY <1>1
  <2> HIDE DEF x, y, r
  <2> QED  BY ONLY <1>8, <2>1, <2>2
<1> QED  BY <1>9 DEF Counted, e, s

LEMMA ShrunkCounted ==
    ASSUME NEW m, InOrder(m), NEW k \in 1 .. Len(m.minors), NEW req \in Nat, Counted(m)
    PROVE  Counted(Shrunk(m, k, req))
<1> DEFINE s == m.minors
           e == [s[k] EXCEPT !.req = req]
           q == [s EXCEPT ![k] = e]
           r == Shrunk(m, k, req)
<1>1. r.minors = q /\ r.usage = m.usage
  <2>1. r = [m EXCEPT !.minors = q] /\ m \in MajorBlock
    BY DEF Shrunk, InOrder
  <2> HIDE DEF r, q
  <2> QED  BY ONLY <2>1 DEF MajorBlock
<1>2. s \in Seq(Block) /\ k \in 1 .. Len(s) /\ s[k] \in Block
  BY InOrderFacts
<1> HIDE DEF s
<1>3. e \in Block /\ e.size = s[k].size
  BY <1>2 DEF Block
<1> HIDE DEF e
<1>4. q \in Seq(Block) /\ Len(q) = Len(s) /\ \A j \in 1 .. Len(s) : q[j] = IF j = k THEN e ELSE s[j]
  BY <1>2, <1>3, ExceptSeq
<1> HIDE DEF q
<1>5. Taken(q) = Taken(s)
  BY <1>2, <1>3, <1>4, TakenSame
<1> QED  BY <1>1, <1>5 DEF Counted, s

LEMMA GrownCounted ==
    ASSUME NEW id \in Ids, NEW req \in Nat
    PROVE  Counted(Grown(id, req))
<1> DEFINE m == Grown(id, req)
           b == [at |-> Major, size |-> req + PAD, req |-> req]
           w == NewMajor(id, req)
<1>1. Minor \in Nat /\ PAD \in Nat /\ Major \in Nat
  BY LiballocAssumption
<1>2. b \in Block /\ b.size = req + PAD
  BY <1>1 DEF Block
<1>3. m = [w EXCEPT !.minors = <<b>>, !.usage = @ + Need(req)] /\ w.usage = Major
      /\ DOMAIN w = {"id", "pages", "size", "usage", "minors"}
  BY DEF Grown, NewMajor
<1> DEFINE u == w.usage + Need(req)
<1>4. m.minors = <<b>> /\ m.usage = Major + Need(req)
  <2>1. m = [w EXCEPT !.minors = <<b>>, !.usage = u] /\ u = Major + Need(req)
    BY <1>3
  <2> HIDE DEF m, w, b, u
  <2> QED  BY ONLY <1>3, <2>1
<1> HIDE DEF b, m
<1>5. <<b>> \in Seq(Block) /\ Len(<<b>>) = 1 /\ <<b>>[1] = b
      /\ <<>> \in Seq(Block) /\ Len(<<>>) = 0
  BY <1>2
<1> DEFINE r == <<b>>  s == <<>>
<1>6. /\ s \in Seq(Block) /\ r \in Seq(Block) /\ Len(r) = Len(s) + 1 /\ 1 \in 1 .. Len(s) + 1
      /\ \A j \in 1 .. Len(s) + 1 : r[j] = IF j < 1 THEN s[j] ELSE IF j = 1 THEN b ELSE s[j - 1]
  BY <1>5
<1>7. Taken(s) = 0
  <2>1. PICK g : Sums(g, Len(s), Weights(s)) /\ Taken(s) = g[Len(s)]
    BY <1>6, TakenIs
  <2> QED  BY <1>5, <2>1 DEF Sums
<1> HIDE DEF r, s
<1>8. Taken(r) = Taken(s) + (Minor + b.size)
  BY <1>2, <1>6, TakenInsert
<1>9. m.usage = Major + Taken(m.minors)
  BY <1>1, <1>2, <1>4, <1>7, <1>8 DEF r, Need
<1> QED  BY <1>9 DEF Counted, m


AllCounted == \A i \in 1 .. Len(majors) : Counted(majors[i])

LEMMA CountedStep ==
    ASSUME HeapInv, AllCounted, [Next]_heapVars
    PROVE  AllCounted'
<1>1. majors \in Seq(MajorBlock) /\ Len(majors) \in Nat
  BY ListedFacts DEF HeapInv
<1>2. ASSUME NEW i \in 1 .. Len(majors), NEW m \in MajorBlock, Counted(m),
             majors' = [majors EXCEPT ![i] = m]
      PROVE  AllCounted'
  <2>1. /\ Len([majors EXCEPT ![i] = m]) = Len(majors)
        /\ \A j \in 1 .. Len(majors) :
              [majors EXCEPT ![i] = m][j] = IF j = i THEN m ELSE majors[j]
    BY <1>1, ExceptSeq
  <2> QED  BY <1>2, <2>1 DEF AllCounted, Counted
<1>3. ASSUME NEW i \in 1 .. Len(majors), majors' = RemoveAt(majors, i)
      PROVE  AllCounted'
  <2>1. /\ Len(majors') = Len(majors) - 1
        /\ \A j \in 1 .. Len(majors) - 1 :
              majors'[j] = IF j < i THEN majors[j] ELSE majors[j + 1]
    BY <1>1, <1>3, RemoveFacts
  <2>2. \A j \in 1 .. Len(majors) - 1 : j \in 1 .. Len(majors) /\ j + 1 \in 1 .. Len(majors)
    BY <1>1
  <2>3. \A j \in 1 .. Len(majors') : \E k \in 1 .. Len(majors) : majors'[j] = majors[k]
    BY <2>1, <2>2
  <2> QED  BY <2>3 DEF AllCounted, Counted
<1>4. ASSUME NEW m \in MajorBlock, Counted(m), majors' = Append(majors, m)
      PROVE  AllCounted'
  <2>1. /\ Len(majors') = Len(majors) + 1
        /\ \A j \in 1 .. Len(majors) : majors'[j] = majors[j]
        /\ majors'[Len(majors) + 1] = m
    BY <1>1, <1>4, AppendProperties
  <2>2. \A j \in 1 .. Len(majors) + 1 : j \in 1 .. Len(majors) \/ j = Len(majors) + 1
    BY <1>1
  <2> QED  BY <1>4, <2>1, <2>2 DEF AllCounted, Counted
<1>5. ASSUME NEW req \in Nat, MallocFits(req)
      PROVE  AllCounted'
  <2> DEFINE order == SearchOrder(req)
  <2>1. PICK n \in DOMAIN order :
          /\ HasRoom(majors[order[n]], req)
          /\ majors' = [majors EXCEPT ![order[n]] = Place(majors[order[n]], req)]
    BY <1>5 DEF MallocFits
  <2>2. DOMAIN order = 1 .. Len(order) /\ order[n] \in 1 .. Len(majors)
    BY OrderFacts
  <2> DEFINE i == order[n]
  <2>3. InOrder(majors[i]) /\ HasRoom(majors[i], req) /\ Counted(majors[i])
    BY <2>1, <2>2, ListedFacts DEF AllCounted
  <2>4. Place(majors[i], req) \in MajorBlock /\ Counted(Place(majors[i], req))
    BY <2>3, PlaceFacts, PlaceCounted DEF InOrder
  <2> HIDE DEF order, i
  <2> QED  BY <1>2, <2>1, <2>2, <2>4 DEF i
<1>6. ASSUME NEW req \in Nat, MallocGrows(req)
      PROVE  AllCounted'
  <2>1. PICK id \in Ids : majors' = Append(majors, Grown(id, req))
    BY <1>6, Zenon DEF MallocGrows, Grown
  <2>2. Grown(id, req) \in MajorBlock /\ Counted(Grown(id, req))
    BY GrowFacts, GrownCounted DEF InOrder
  <2> QED  BY <1>4, <2>1, <2>2
<1>7. ASSUME NEW i \in DOMAIN majors, NEW k \in DOMAIN majors[i].minors, free(i, k)
      PROVE  AllCounted'
  <2>1. /\ i \in 1 .. Len(majors) /\ InOrder(majors[i]) /\ k \in 1 .. Len(majors[i].minors)
        /\ Counted(majors[i])
    BY ListedFacts, InOrderFacts DEF AllCounted
  <2>2. CASE Len(majors[i].minors) = 1
    BY <1>3, <1>7, <2>1, <2>2 DEF free, FreeMajor
  <2>3. CASE Len(majors[i].minors) # 1
    <3> DEFINE u == majors[i].usage - majors[i].minors[k].size - Minor
               r == Unlinked(majors[i], k, u)
    <3>1. majors' = [majors EXCEPT ![i] = r]
      BY <1>7, <2>3 DEF free, FreeMinor, Unlinked
    <3>2. u \in Int
      BY <2>1, InOrderFacts, LiballocAssumption
    <3>3. Counted(r)
      BY <2>1, UnlinkedCounted
    <3> HIDE DEF u
    <3>4. r \in MajorBlock
      BY <2>1, <2>3, <3>2, UnlinkFacts DEF InOrder
    <3> HIDE DEF r
    <3> QED  BY <1>2, <2>1, <3>1, <3>3, <3>4
  <2> QED  BY <2>2, <2>3
<1>8. ASSUME NEW i \in DOMAIN majors, NEW k \in DOMAIN majors[i].minors, NEW req \in Nat,
             realloc_Shrinks(i, k, req)
      PROVE  AllCounted'
  <2>1. /\ i \in 1 .. Len(majors) /\ InOrder(majors[i]) /\ k \in 1 .. Len(majors[i].minors)
        /\ Counted(majors[i])
    BY ListedFacts, InOrderFacts DEF AllCounted
  <2> DEFINE r == Shrunk(majors[i], k, req)
  <2>2. majors[i].minors[k].req >= req /\ majors' = [majors EXCEPT ![i] = r]
    BY <1>8 DEF realloc_Shrinks, Shrunk
  <2>3. r \in MajorBlock /\ Counted(r)
    BY <2>1, <2>2, ShrinkFacts, ShrunkCounted DEF InOrder
  <2> HIDE DEF r
  <2> QED  BY <1>2, <2>1, <2>2, <2>3
<1>9. ASSUME UNCHANGED heapVars
      PROVE  AllCounted'
  BY <1>9 DEF heapVars, AllCounted, Counted
<1> QED  BY <1>5, <1>6, <1>7, <1>8, <1>9, LiballocAssumption DEF Next, malloc

\* The usage that malloc decides by is exact: what free and malloc have
\* added and taken away is, at every moment, the sum of the headers and the
\* blocks that the list of the major block still holds.
THEOREM LiballocUsageExact == Spec => []UsageExact
<1>1. Init => AllCounted
  BY DEF Init, AllCounted
<1>2. HeapInv /\ AllCounted /\ [Next]_heapVars => AllCounted'
  BY CountedStep
<1>3. HeapInv /\ AllCounted => UsageExact
  BY ListedFacts DEF AllCounted, Counted, UsageExact
<1> QED  BY <1>1, <1>2, <1>3, LiballocInvariance, PTL DEF Spec
=============================================================================
