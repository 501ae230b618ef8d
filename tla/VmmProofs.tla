----------------------------- MODULE VmmProofs -----------------------------
(***************************************************************************)
(* What is proved of the virtual memory manager, for any number of levels, *)
(* entries and pages, any memory map and any sizes: the page tables are a  *)
(* tree, in which no table is reached in two ways, and below the shared    *)
(* part a program finds no table, no page of the heap and no page of       *)
(* another program that is not shared, but where a message has named that  *)
(* page.  The pages of the heap stay mapped in every space, and an address *)
(* that is mapped goes on meaning the same page, but for the hole of a     *)
(* freed block and for the ranges of messages.  The trees of tables        *)
(* implement flat address spaces.                                          *)
(*                                                                         *)
(* The state does not say which space a table belongs to.  The proof gives *)
(* each table a place: the space in which its entries are seen, its level, *)
(* and which of the tables of that level it is.  A walk comes to the place *)
(* that its address tells, and a table is added only where a walk found    *)
(* none.  The recursive walks are run by the lemmas RunExists and RunStays,*)
(* which are proved by a least counterexample.                             *)
(***************************************************************************)
EXTENDS Vmm, SequenceTheorems, WellFoundedInduction, TLAPS

-----------------------------------------------------------------------------
\* A set of natural numbers that is not empty has a least one.
LEMMA LeastNumber ==
    ASSUME NEW T, T \subseteq Nat, T # {}
    PROVE  \E k \in T : \A j \in T : k <= j
<1>1. PICK k \in T : \A j \in T : ~ (<<j, k>> \in OpToRel(<, Nat))
  BY NatLessThanWellFounded, WFMin
<1>2. ASSUME NEW j \in T
      PROVE  k <= j
  <2>1. j \in Nat /\ k \in Nat
    OBVIOUS
  <2>2. <<j, k>> \in OpToRel(<, Nat) <=> j < k
    BY <2>1 DEF OpToRel
  <2>3. ~ (<<j, k>> \in OpToRel(<, Nat))
    BY <1>1
  <2>4. ~ (j < k)
    BY <2>2, <2>3
  <2> QED  BY <2>1, <2>4
<1> QED  BY <1>2

\* The values of a loop of N steps: step j takes what step j - 1 has left,
\* a member of S[j - 1], to a member of S[j].
Run(f, N, S, F, start) ==
    /\ f[0] = start
    /\ \A j \in 1 .. N : f[j] = F[j][f[j - 1]]
    /\ \A j \in 0 .. N : f[j] \in S[j]

LEMMA RunExists ==
    ASSUME NEW N \in Nat, NEW S, NEW F, NEW start, start \in S[0],
           \A j \in 1 .. N : \A x \in S[j - 1] : F[j][x] \in S[j]
    PROVE  \E f : Run(f, N, S, F, start)
<1> DEFINE T == {n \in 0 .. N : ~ \E f : Run(f, n, S, F, start)}
<1>1. SUFFICES ASSUME T # {}
               PROVE  FALSE
  <2>1. N \in 0 .. N
    OBVIOUS
  <2> QED  BY <2>1
<1>2. T \subseteq Nat
  OBVIOUS
<1>3. PICK n \in T : \A j \in T : n <= j
  <2> HIDE DEF T
  <2> QED  BY <1>1, <1>2, LeastNumber
<1>4. n \in 0 .. N /\ ~ \E f : Run(f, n, S, F, start)
  BY <1>3
<1>5. n # 0
  <2> DEFINE z == [k \in 0 .. 0 |-> start]
  <2>1. Run(z, 0, S, F, start)
    BY DEF Run
  <2> QED  BY <1>4, <2>1
<1>6. PICK g : Run(g, n - 1, S, F, start)
  <2>1. n - 1 \in 0 .. N /\ ~ (n <= n - 1)
    BY <1>4, <1>5
  <2>2. n - 1 \notin T
    BY <1>3, <2>1
  <2> QED  BY <2>1, <2>2
<1> DEFINE h == [k \in 0 .. n |-> IF k = n THEN F[n][g[n - 1]] ELSE g[k]]
<1>7. Run(h, n, S, F, start)
  <2>1. h[0] = start
    BY <1>4, <1>5, <1>6 DEF Run
  <2>2. g[n - 1] \in S[n - 1]
    <3>1. n - 1 \in 0 .. n - 1
      BY <1>4, <1>5
    <3> QED  BY <1>6, <3>1 DEF Run
  <2>3. h[n] = F[n][h[n - 1]] /\ h[n] \in S[n]
    <3>1. n \in 0 .. n /\ n - 1 \in 0 .. n /\ n - 1 # n /\ n \in 1 .. N
      BY <1>4, <1>5
    <3> QED  BY <2>2, <3>1
  <2>4. ASSUME NEW j \in 1 .. n
        PROVE  h[j] = F[j][h[j - 1]]
    <3>1. CASE j = n
      BY <2>3, <3>1
    <3>2. CASE j # n
      <4>1. j \in 1 .. n - 1 /\ j \in 0 .. n /\ j - 1 \in 0 .. n /\ j - 1 # n
        BY <1>4, <3>2
      <4> QED  BY <1>6, <3>2, <4>1 DEF Run
    <3> QED  BY <3>1, <3>2
  <2>5. ASSUME NEW j \in 0 .. n
        PROVE  h[j] \in S[j]
    <3>1. CASE j = n
      BY <2>3, <3>1
    <3>2. CASE j # n
      <4>1. j \in 0 .. n - 1
        BY <1>4, <3>2
      <4> QED  BY <1>6, <3>2, <4>1 DEF Run
    <3> QED  BY <3>1, <3>2
  <2> HIDE DEF h
  <2> QED  BY <2>1, <2>4, <2>5 DEF Run
<1> QED  BY <1>4, <1>7

\* What holds at the start of a loop, and after a step when it holds before,
\* holds after each step.
LEMMA RunStays ==
    ASSUME NEW N \in Nat, NEW S, NEW f, f[0] \in S[0],
           \A j \in 1 .. N : f[j - 1] \in S[j - 1] => f[j] \in S[j]
    PROVE  \A j \in 0 .. N : f[j] \in S[j]
<1> DEFINE T == {n \in 0 .. N : f[n] \notin S[n]}
<1>1. SUFFICES ASSUME T # {}
               PROVE  FALSE
  OBVIOUS
<1>2. T \subseteq Nat
  OBVIOUS
<1>3. PICK n \in T : \A j \in T : n <= j
  <2> HIDE DEF T
  <2> QED  BY <1>1, <1>2, LeastNumber
<1>4. n \in 0 .. N /\ f[n] \notin S[n] /\ n # 0
  BY <1>3
<1>5. n - 1 \in 0 .. N /\ ~ (n <= n - 1) /\ n \in 1 .. N
  BY <1>4
<1>6. n - 1 \notin T
  BY <1>3, <1>5
<1> QED  BY <1>4, <1>5, <1>6

-----------------------------------------------------------------------------
Levels == 0 .. limit_pml - 1

LEMMA LevelFacts ==
    /\ limit_pml \in Nat /\ limit_pml >= 2 /\ ENTRIES \in Nat /\ ENTRIES >= 2
    /\ FirstCopied \in Nat /\ 1 <= FirstCopied /\ FirstCopied < ENTRIES
    /\ limit_pml - 1 \in Levels /\ 0 \in Levels /\ \A l \in Levels : l + 1 \in 1 .. limit_pml
BY VmmAssumption DEF Levels

LEMMA SpanFacts ==
    /\ Span[0] = 1
    /\ \A l \in 1 .. limit_pml : Span[l] = ENTRIES * Span[l - 1]
    /\ \A l \in 0 .. limit_pml : Span[l] \in Nat /\ Span[l] >= 1
<1> DEFINE P == {n \in Nat : n >= 1}
           G(f) == [level \in 0 .. limit_pml |-> IF level = 0 THEN 1 ELSE ENTRIES * f[level - 1]]
           S == [j \in 0 .. limit_pml |-> P]
           F == [j \in 1 .. limit_pml |-> [x \in P |-> ENTRIES * x]]
<1>1. \A x \in P : ENTRIES * x \in P
  <2> SUFFICES ASSUME NEW x \in P
               PROVE  ENTRIES * x \in P
    OBVIOUS
  <2>1. ENTRIES \in Nat /\ ENTRIES >= 1 /\ x \in Nat /\ x >= 1
    BY LevelFacts
  <2>2. ENTRIES * x \in Nat /\ ENTRIES * x >= 1
    BY ONLY <2>1, Z3
  <2> QED  BY <2>2
<1>2. limit_pml \in Nat
  BY LevelFacts
<1>3. PICK f : Run(f, limit_pml, S, F, 1)
  <2>1. 1 \in S[0]
    BY <1>2
  <2>2. \A j \in 1 .. limit_pml : \A x \in S[j - 1] : F[j][x] \in S[j]
    <3> SUFFICES ASSUME NEW j \in 1 .. limit_pml, NEW x \in S[j - 1]
                 PROVE  F[j][x] \in S[j]
      OBVIOUS
    <3>1. j - 1 \in 0 .. limit_pml /\ j \in 0 .. limit_pml
      BY <1>2
    <3>2. x \in P /\ S[j] = P
      BY <3>1
    <3> HIDE DEF P
    <3> QED  BY <1>1, <3>2
  <2> HIDE DEF S, F
  <2> QED  BY <1>2, <2>1, <2>2, RunExists
<1> DEFINE g == [level \in 0 .. limit_pml |-> f[level]]
<1>4. g = G(g)
  <2> SUFFICES ASSUME NEW l \in 0 .. limit_pml
               PROVE  f[l] = IF l = 0 THEN 1 ELSE ENTRIES * g[l - 1]
    OBVIOUS
  <2>1. CASE l = 0
    BY <1>3, <2>1 DEF Run
  <2>2. CASE l # 0
    <3>1. l \in 1 .. limit_pml /\ l - 1 \in 0 .. limit_pml
      BY <1>2, <2>2
    <3>2. f[l - 1] \in P
      BY <1>3, <3>1 DEF Run
    <3>3. f[l] = F[l][f[l - 1]]
      BY <1>3, <3>1 DEF Run
    <3> HIDE DEF P
    <3> QED  BY <2>2, <3>1, <3>2, <3>3
  <2> QED  BY <2>1, <2>2
<1>5. Span = CHOOSE h : h = G(h)
  BY DEF Span
<1>6. Span = G(Span)
  <2> HIDE DEF g
  <2> QED  BY <1>4, <1>5
<1>7. Span[0] = 1 /\ \A l \in 1 .. limit_pml : Span[l] = ENTRIES * Span[l - 1]
  <2>1. 0 \in 0 .. limit_pml /\ \A l \in 1 .. limit_pml : l \in 0 .. limit_pml /\ l # 0
    BY <1>2
  <2> QED  BY <1>6, <2>1
<1>8. \A j \in 0 .. limit_pml : Span[j] \in S[j]
  <2>1. Span[0] \in S[0]
    BY <1>2, <1>7
  <2>2. \A j \in 1 .. limit_pml : Span[j - 1] \in S[j - 1] => Span[j] \in S[j]
    <3> SUFFICES ASSUME NEW j \in 1 .. limit_pml, Span[j - 1] \in S[j - 1]
                 PROVE  Span[j] \in S[j]
      OBVIOUS
    <3>1. j - 1 \in 0 .. limit_pml /\ j \in 0 .. limit_pml
      BY <1>2
    <3>2. Span[j - 1] \in P /\ S[j] = P
      BY <3>1
    <3> HIDE DEF P
    <3> QED  BY <1>1, <1>7, <3>2
  <2> HIDE DEF S
  <2> QED  BY <1>2, <2>1, <2>2, RunStays
<1> QED  BY <1>7, <1>8

-----------------------------------------------------------------------------
LEMMA Division ==
    ASSUME NEW v \in Nat, NEW a \in Nat, a >= 1
    PROVE  /\ v \div a \in Nat /\ v % a \in 0 .. a - 1
           /\ v = (v \div a) * a + (v % a)
           /\ \A b \in Nat : v < b * a => v \div a < b
BY Z3

LEMMA DivisionTwice ==
    ASSUME NEW v \in Nat, NEW a \in Nat, a >= 1, NEW b \in Nat, b >= 1
    PROVE  (v \div a) \div b = v \div (b * a)
BY Z3

LEMMA DivisionBack ==
    ASSUME NEW v \in Int, NEW b \in Nat, NEW i \in 0 .. b - 1
    PROVE  (v * b + i) \div b = v /\ (v * b + i) % b = i
BY Z3

\* A table has a place in the trees: the space whose entries are changed with
\* it, its level, and which of the tables of that level it is.
Entries == 0 .. ENTRIES - 1
Places == [own : Int, lev : Levels, pre : Nat]

\* The place of the table in entry i of a table.
Below(x, i) ==
    [own |-> IF x.lev = limit_pml - 1 /\ i >= FirstCopied THEN kernel_pml ELSE x.own,
     lev |-> x.lev - 1,
     pre |-> x.pre * ENTRIES + i]

RootPlace(s) == [own |-> s, lev |-> limit_pml - 1, pre |-> 0]

\* The place of the table that the walk for v in a space reaches on a level.
PlaceAt(s, v, l) ==
    [own |-> IF l < limit_pml - 1 /\ v \div Span[limit_pml - 1] >= FirstCopied
                THEN kernel_pml ELSE s,
     lev |-> l,
     pre |-> v \div Span[l + 1]]

LEMMA PlacesOnTheWay ==
    ASSUME NEW s \in Int, NEW v \in 0 .. VirtPages - 1
    PROVE  /\ PlaceAt(s, v, limit_pml - 1) = RootPlace(s)
           /\ \A l \in Levels : PMLX_GET_INDEX(v, l) \in Entries
           /\ \A l \in 1 .. limit_pml - 1 :
                 Below(PlaceAt(s, v, l), PMLX_GET_INDEX(v, l)) = PlaceAt(s, v, l - 1)
<1> DEFINE L == limit_pml
           E == ENTRIES
<1>1. v \in Nat /\ v < Span[L] /\ Span[L] \in Nat
  BY LevelFacts, SpanFacts DEF VirtPages
<1>2. v \div Span[L] = 0
  <2> DEFINE a == Span[L]
  <2>1. v \in Nat /\ a \in Nat /\ v < a
    BY <1>1
  <2> HIDE DEF a
  <2>2. v \div a = 0
    BY <2>1, Z3
  <2> QED  BY <2>2 DEF a
<1>3. PlaceAt(s, v, L - 1) = RootPlace(s)
  <2>1. L - 1 + 1 = L /\ ~ (L - 1 < L - 1)
    BY LevelFacts
  <2> QED  BY <1>2, <2>1 DEF PlaceAt, RootPlace
<1>4. ASSUME NEW l \in Levels
      PROVE  PMLX_GET_INDEX(v, l) \in Entries
  <2>1. Span[l] \in Nat /\ Span[l] >= 1
    BY SpanFacts, LevelFacts DEF Levels
  <2>2. v \div Span[l] \in Nat
    BY <1>1, <2>1, Division
  <2>3. (v \div Span[l]) % E \in 0 .. E - 1
    <3> DEFINE q == v \div Span[l]
    <3>1. q \in Nat /\ E \in Nat /\ E >= 1
      BY <2>2, LevelFacts
    <3> HIDE DEF q, E
    <3>2. q % E \in 0 .. E - 1
      BY ONLY <3>1, Division
    <3> QED  BY <3>2 DEF q
  <2> QED  BY <2>3 DEF PMLX_GET_INDEX, Entries
<1>5. ASSUME NEW l \in 1 .. L - 1
      PROVE  Below(PlaceAt(s, v, l), PMLX_GET_INDEX(v, l)) = PlaceAt(s, v, l - 1)
  <2> DEFINE a == Span[l]
             b == Span[l + 1]
             q == v \div a
             i == PMLX_GET_INDEX(v, l)
             x == PlaceAt(s, v, l)
  <2>1. a \in Nat /\ a >= 1 /\ b = E * a /\ E \in Nat /\ E >= 2
    <3>1. l \in 0 .. L /\ l + 1 \in 1 .. L /\ l + 1 - 1 = l
      BY LevelFacts
    <3> QED  BY <3>1, SpanFacts, LevelFacts
  <2>2. q \in Nat /\ i = q % E
    <3> HIDE DEF a
    <3>1. q \in Nat
      BY <1>1, <2>1, Division
    <3> QED  BY <3>1 DEF PMLX_GET_INDEX, a
  <2>3. v \div b = q \div E
    <3>1. v \in Nat /\ a \in Nat /\ a >= 1 /\ E \in Nat /\ E >= 1 /\ b = E * a
      BY <1>1, <2>1
    <3> HIDE DEF a, b, E
    <3>2. (v \div a) \div E = v \div (E * a)
      BY ONLY <3>1, DivisionTwice
    <3> QED  BY <3>1, <3>2 DEF q
  <2>4. q = (v \div b) * E + i
    <3> HIDE DEF q
    <3> HIDE DEF E
    <3>1. q \in Nat /\ E \in Nat /\ E >= 1
      BY <2>1, <2>2
    <3>2. q = (q \div E) * E + (q % E)
      BY ONLY <3>1, Division
    <3> QED  BY <2>2, <2>3, <3>2
  <2>5. x.pre * E + i = v \div Span[l - 1 + 1]
    <3>1. l - 1 + 1 = l /\ x.pre = v \div b
      BY DEF PlaceAt
    <3> HIDE DEF b
    <3> QED  BY <2>4, <3>1
  <2>6. (x.lev = L - 1 /\ i >= FirstCopied) \/ x.own = kernel_pml
          <=> v \div Span[L - 1] >= FirstCopied \/ s = kernel_pml
    <3>1. CASE l = L - 1
      <4>1. b = Span[L] /\ a = Span[L - 1]
        BY <3>1, LevelFacts
      <4>2. q \div E = 0
        BY <1>2, <2>3, <4>1
      <4> HIDE DEF q
      <4>3. q % E = q
        <5>1. q = 0 * E + (q % E)
          BY SMTT(30), <2>1, <2>2, <4>2, Division
        <5>2. (q % E) \in Nat
          BY <2>1, <2>2, Division
        <5> QED  BY <2>1, <5>1, <5>2
      <4>4. i = v \div Span[L - 1]
        BY <2>2, <4>1, <4>3 DEF q
      <4>5. x.lev = L - 1 /\ x.own = s
        BY <3>1 DEF PlaceAt
      <4> QED  BY <4>4, <4>5
    <3>2. CASE l # L - 1
      <4>1. x.lev # L - 1 /\ l < L - 1
        BY <3>2, LevelFacts DEF PlaceAt
      <4> QED  BY <4>1 DEF PlaceAt
    <3> QED  BY <3>1, <3>2
  <2>7. x.own \in {s, kernel_pml} /\ l - 1 < L - 1 /\ x.lev = l
    BY LevelFacts DEF PlaceAt
  <2> QED  BY <2>5, <2>6, <2>7 DEF Below, PlaceAt
<1> QED  BY <1>3, <1>4, <1>5

-----------------------------------------------------------------------------
Tables == UNION {[D -> [Entries -> Int]] : D \in SUBSET Memory}

\* Each table is where its place says: below one table only.
Tree(tb, pl) ==
    /\ tb \in Tables
    /\ pl \in [DOMAIN tb -> Places]
    /\ \A p \in DOMAIN tb : \A i \in Entries :
          pl[p].lev > 0 /\ tb[p][i] # NULL =>
              tb[p][i] \in DOMAIN tb /\ pl[tb[p][i]] = Below(pl[p], i)

\* The recursive walk, run.
LEMMA WalkRuns ==
    ASSUME NEW tb, NEW pl, Tree(tb, pl),
           NEW root \in DOMAIN tb, root \in Int, pl[root] = RootPlace(root),
           NEW v \in 0 .. VirtPages - 1, NEW level \in Levels
    PROVE  \E at : /\ TableAt(tb, root, v, level) = at[level]
                   /\ at[limit_pml - 1] = root
                   /\ \A l \in level .. limit_pml - 1 : l # limit_pml - 1 =>
                         at[l] = IF at[l + 1] = NULL THEN NULL
                                 ELSE tb[at[l + 1]][PMLX_GET_INDEX(v, l + 1)]
                   /\ at[level] = NULL \/ (at[level] \in DOMAIN tb /\ pl[at[level]] = PlaceAt(root, v, level))
<1> DEFINE L == limit_pml
           N == L - 1 - level
           S == [j \in 0 .. N |-> {NULL} \cup {p \in DOMAIN tb : pl[p] = PlaceAt(root, v, L - 1 - j)}]
           G(at) == [l \in level .. L - 1 |->
                        IF l = L - 1 THEN root
                        ELSE IF at[l + 1] = NULL THEN NULL
                        ELSE tb[at[l + 1]][PMLX_GET_INDEX(v, l + 1)]]
           F == [j \in 1 .. N |-> [x \in S[j - 1] |->
                    IF x = NULL THEN NULL ELSE tb[x][PMLX_GET_INDEX(v, L - j)]]]
<1>1. L \in Nat /\ L >= 2 /\ level \in 0 .. L - 1 /\ N \in 0 .. L - 1
  BY LevelFacts DEF Levels
<1>2. root \in S[0]
  BY <1>1, PlacesOnTheWay
<1>3. ASSUME NEW j \in 1 .. N, NEW x \in S[j - 1]
      PROVE  (IF x = NULL THEN NULL ELSE tb[x][PMLX_GET_INDEX(v, L - j)]) \in S[j]
  <2>1. j \in 0 .. N /\ j - 1 \in 0 .. N
    BY <1>1
  <2>2. CASE x = NULL
    BY <2>1, <2>2
  <2>3. CASE x # NULL
    <3> DEFINE i == PMLX_GET_INDEX(v, L - j)
    <3>1. L - 1 - (j - 1) = L - j /\ L - j \in 1 .. L - 1 /\ L - j \in Levels /\ L - j - 1 = L - 1 - j
      BY <1>1 DEF Levels
    <3>2. x \in DOMAIN tb /\ pl[x] = PlaceAt(root, v, L - j)
      BY <2>1, <2>3, <3>1
    <3>3. i \in Entries /\ Below(PlaceAt(root, v, L - j), i) = PlaceAt(root, v, L - 1 - j)
      BY <3>1, PlacesOnTheWay
    <3>4. pl[x].lev > 0
      BY <3>1, <3>2 DEF PlaceAt
    <3> HIDE DEF i, L
    <3>5. tb[x][i] # NULL => tb[x][i] \in DOMAIN tb /\ pl[tb[x][i]] = PlaceAt(root, v, L - 1 - j)
      BY <3>2, <3>3, <3>4 DEF Tree
    <3>6. tb[x][i] \in S[j]
      BY <2>1, <3>5
    <3> QED  BY <2>3, <3>6 DEF i
  <2> QED  BY <2>2, <2>3
<1>4. PICK f : Run(f, N, S, F, root)
  <2>1. \A j \in 1 .. N : \A x \in S[j - 1] : F[j][x] \in S[j]
    <3> HIDE DEF S
    <3> QED  BY <1>3
  <2>2. N \in Nat
    BY <1>1
  <2> HIDE DEF N, S, F
  <2> QED  BY <1>2, <2>1, <2>2, RunExists
<1> DEFINE g == [l \in level .. L - 1 |-> f[L - 1 - l]]
<1>5. g = G(g)
  <2> SUFFICES ASSUME NEW l \in level .. L - 1
               PROVE  f[L - 1 - l] = IF l = L - 1 THEN root
                        ELSE IF g[l + 1] = NULL THEN NULL
                        ELSE tb[g[l + 1]][PMLX_GET_INDEX(v, l + 1)]
    OBVIOUS
  <2>1. CASE l = L - 1
    BY <1>1, <1>4, <2>1 DEF Run
  <2>2. CASE l # L - 1
    <3> DEFINE j == L - 1 - l
    <3>1. l + 1 \in level .. L - 1 /\ j \in 1 .. N /\ j - 1 \in 0 .. N /\ L - 1 - (l + 1) = j - 1 /\ L - j = l + 1
      BY <1>1, <2>2
    <3>2. f[j] = F[j][f[j - 1]] /\ f[j - 1] \in S[j - 1]
      <4> HIDE DEF S, F, j, N
      <4> QED  BY <1>4, <3>1 DEF Run
    <3>3. g[l + 1] = f[j - 1]
      BY <3>1
    <3> HIDE DEF S, g
    <3> QED  BY <2>2, <3>1, <3>2, <3>3
  <2> QED  BY <2>1, <2>2
<1> DEFINE at == CHOOSE h : h = G(h)
<1>6. TableAt(tb, root, v, level) = at[level]
  BY DEF TableAt
<1>7. at = G(at)
  <2>1. \E h : h = G(h)
    <3> HIDE DEF g, G
    <3> QED  BY <1>5
  <2> HIDE DEF G
  <2> QED  BY <2>1
<1> HIDE DEF at
<1> DEFINE u == [j \in 0 .. N |-> at[L - 1 - j]]
<1>8. u[0] \in S[0]
  <2>1. 0 \in 0 .. N /\ L - 1 \in level .. L - 1 /\ L - 1 - 0 = L - 1
    BY <1>1
  <2>2. at[L - 1] = root
    BY <1>7, <2>1
  <2> HIDE DEF S
  <2> QED  BY <1>2, <2>1, <2>2
<1>9. ASSUME NEW j \in 1 .. N, u[j - 1] \in S[j - 1]
      PROVE  u[j] \in S[j]
  <2> DEFINE l == L - 1 - j
  <2>1. l \in level .. L - 1 /\ l # L - 1 /\ l + 1 = L - j /\ L - 1 - (j - 1) = l + 1 /\ j \in 0 .. N /\ j - 1 \in 0 .. N
    BY <1>1
  <2>2. at[l] = IF at[l + 1] = NULL THEN NULL ELSE tb[at[l + 1]][PMLX_GET_INDEX(v, l + 1)]
    BY <1>7, <2>1
  <2>3. u[j] = at[l] /\ u[j - 1] = at[l + 1]
    BY <2>1
  <2> HIDE DEF S, u
  <2> QED  BY <1>3, <1>9, <2>1, <2>2, <2>3
<1>10. u[N] \in S[N]
  <2>1. N \in Nat /\ N \in 0 .. N
    BY <1>1
  <2> HIDE DEF u, S, N
  <2> QED  BY <1>8, <1>9, <2>1, RunStays
<1>11. N \in 0 .. N /\ L - 1 - N = level
  BY <1>1
<1>12. at[L - 1] = root /\ at[level] \in S[N]
  <2>1. L - 1 \in level .. L - 1
    BY <1>1
  <2> HIDE DEF S
  <2> QED  BY <1>7, <1>10, <1>11, <2>1
<1>13. at[level] = NULL \/ (at[level] \in DOMAIN tb /\ pl[at[level]] = PlaceAt(root, v, level))
  BY <1>11, <1>12
<1>14. \A l \in level .. L - 1 : l # L - 1 =>
          at[l] = IF at[l + 1] = NULL THEN NULL ELSE tb[at[l + 1]][PMLX_GET_INDEX(v, l + 1)]
  BY <1>7
<1> HIDE DEF S, N
<1> QED  BY <1>6, <1>12, <1>13, <1>14


LEMMA WalkEnds ==
    ASSUME NEW tb, NEW pl, Tree(tb, pl),
           NEW root \in DOMAIN tb, root \in Int, pl[root] = RootPlace(root),
           NEW v \in 0 .. VirtPages - 1, NEW level \in Levels,
           TableAt(tb, root, v, level) # NULL
    PROVE  /\ TableAt(tb, root, v, level) \in DOMAIN tb
           /\ pl[TableAt(tb, root, v, level)] = PlaceAt(root, v, level)
BY WalkRuns

\* A walk to a level is a walk to the level above and one entry more.
LEMMA WalkSteps ==
    ASSUME NEW tb, NEW pl, Tree(tb, pl),
           NEW root \in DOMAIN tb, root \in Int, pl[root] = RootPlace(root),
           NEW v \in 0 .. VirtPages - 1
    PROVE  /\ TableAt(tb, root, v, limit_pml - 1) = root
           /\ \A l \in 0 .. limit_pml - 2 :
                 TableAt(tb, root, v, l) =
                    IF TableAt(tb, root, v, l + 1) = NULL THEN NULL
                    ELSE tb[TableAt(tb, root, v, l + 1)][PMLX_GET_INDEX(v, l + 1)]
<1> DEFINE L == limit_pml
           T(l) == TableAt(tb, root, v, l)
           Step(x, l) == IF x = NULL THEN NULL ELSE tb[x][PMLX_GET_INDEX(v, l + 1)]
<1>1. L \in Nat /\ L >= 2 /\ L - 1 \in Levels
  BY LevelFacts
<1>2. T(L - 1) = root
  BY <1>1, WalkRuns
<1>3. ASSUME NEW l \in 0 .. L - 2
      PROVE  T(l) = Step(T(l + 1), l)
  <2>1. l \in Levels /\ l + 1 \in Levels /\ l \in l .. L - 1 /\ l # L - 1
    BY <1>1 DEF Levels
  <2>2. PICK at : /\ T(l) = at[l] /\ at[L - 1] = root
                  /\ \A k \in l .. L - 1 : k # L - 1 => at[k] = Step(at[k + 1], k)
    BY <2>1, WalkRuns
  <2>3. PICK up : /\ T(l + 1) = up[l + 1] /\ up[L - 1] = root
                  /\ \A k \in l + 1 .. L - 1 : k # L - 1 => up[k] = Step(up[k + 1], k)
    BY <2>1, WalkRuns
  <2> HIDE DEF T, Step
  <2> DEFINE N == L - 2 - l
             S == [j \in 0 .. N |-> {up[L - 1 - j]}]
             u == [j \in 0 .. N |-> at[L - 1 - j]]
  <2>4. N \in Nat /\ N \in 0 .. N /\ 0 \in 0 .. N /\ L - 1 - 0 = L - 1 /\ L - 1 - N = l + 1
    BY <1>1
  <2>5. u[0] \in S[0]
    BY <2>2, <2>3, <2>4
  <2>6. ASSUME NEW j \in 1 .. N, u[j - 1] \in S[j - 1]
        PROVE  u[j] \in S[j]
    <3> DEFINE k == L - 1 - j
    <3>1. k \in l .. L - 1 /\ k \in l + 1 .. L - 1 /\ k # L - 1 /\ L - 1 - (j - 1) = k + 1
          /\ j \in 0 .. N /\ j - 1 \in 0 .. N
      BY <1>1
    <3>2. at[k] = Step(at[k + 1], k) /\ up[k] = Step(up[k + 1], k)
      BY <2>2, <2>3, <3>1
    <3>3. at[k + 1] = up[k + 1]
      BY <2>6, <3>1
    <3> QED  BY <3>1, <3>2, <3>3
  <2>7. u[N] \in S[N]
    <3> HIDE DEF u, S, N
    <3> QED  BY <2>4, <2>5, <2>6, RunStays
  <2>8. at[l + 1] = up[l + 1]
    BY <2>4, <2>7
  <2> QED  BY <2>1, <2>2, <2>3, <2>8
<1> QED  BY <1>2, <1>3

\* The last table that a walk reaches tells the region, and the space but for
\* the shared part.
LEMMA RegionPlace ==
    ASSUME NEW s, NEW r \in Regions
    PROVE  /\ r * ENTRIES \in 0 .. VirtPages - 1
           /\ PlaceAt(s, r * ENTRIES, 0) =
                 [own |-> IF r \in SharedRegions THEN kernel_pml ELSE s, lev |-> 0, pre |-> r]
<1> DEFINE L == limit_pml
           E == ENTRIES
           a == Span[L - 1]
           c == Span[L - 2]
           v == r * E
<1>1. a \in Nat /\ c \in Nat /\ a >= 1 /\ c >= 1 /\ a = E * c /\ Span[L] = E * a /\ Span[1] = E
  <2>1. L - 1 \in 1 .. L /\ L - 2 \in 0 .. L /\ L - 1 - 1 = L - 2 /\ L \in 1 .. L /\ 1 \in 1 .. L /\ 1 - 1 = 0 /\ L - 1 \in 0 .. L
    BY LevelFacts
  <2>2. Span[1] = E * 1
    BY <2>1, SpanFacts
  <2> QED  BY <2>1, <2>2, SpanFacts, LevelFacts
<1>2. r \in Nat /\ r < a /\ E \in Nat /\ E >= 2
  BY <1>1, LevelFacts DEF Regions
<1>3. v \in 0 .. VirtPages - 1
  <2>1. VirtPages = E * a
    BY <1>1 DEF VirtPages
  <2> HIDE DEF a, E
  <2>2. r * E \in 0 .. E * a - 1
    BY ONLY <1>1, <1>2, Z3
  <2> QED  BY <2>1, <2>2
<1>4. v \div E = r
  <2> HIDE DEF E
  <2>1. (r * E + 0) \div E = r
    BY <1>2, DivisionBack
  <2>2. r * E + 0 = r * E
    BY <1>2
  <2> QED  BY <2>1, <2>2
<1>5. v \div a = r \div c
  <2>1. v \in Nat
    BY <1>3
  <2> HIDE DEF E, c, v, a
  <2>2. (v \div E) \div c = v \div (c * E)
    <3>1. v \in Nat /\ E \in Nat /\ E >= 1 /\ c \in Nat /\ c >= 1
      BY <1>1, <1>2, <2>1
    <3> QED  BY ONLY <3>1, DivisionTwice
  <2>3. c * E = a
    BY <1>1, <1>2
  <2> QED  BY <1>4, <2>2, <2>3
<1>6. v \div a >= FirstCopied <=> r \in SharedRegions
  BY <1>5 DEF SharedRegions
<1>7. 0 < L - 1 /\ 0 + 1 = 1
  BY LevelFacts
<1> HIDE DEF a, v
<1>8. PlaceAt(s, v, 0) = [own |-> IF r \in SharedRegions THEN kernel_pml ELSE s, lev |-> 0, pre |-> r]
  BY <1>1, <1>4, <1>6, <1>7 DEF PlaceAt, a
<1> QED  BY <1>3, <1>8 DEF v

LEMMA RegionEnds ==
    ASSUME NEW tb, NEW pl, Tree(tb, pl),
           NEW s \in DOMAIN tb, s \in Int, pl[s] = RootPlace(s),
           NEW r \in Regions,
           TableAt(tb, s, r * ENTRIES, 0) # NULL
    PROVE  /\ TableAt(tb, s, r * ENTRIES, 0) \in DOMAIN tb
           /\ pl[TableAt(tb, s, r * ENTRIES, 0)] =
                 [own |-> IF r \in SharedRegions THEN kernel_pml ELSE s, lev |-> 0, pre |-> r]
<1>1. r * ENTRIES \in 0 .. VirtPages - 1 /\ 0 \in Levels
  BY RegionPlace, LevelFacts
<1> QED  BY <1>1, WalkEnds, RegionPlace

\* Going down from level N, one level at a time.
LEMMA Downwards ==
    ASSUME NEW N \in Nat, NEW S, N \in S, \A l \in 1 .. N : l \in S => l - 1 \in S
    PROVE  \A l \in 0 .. N : l \in S
<1> DEFINE T == {j \in 0 .. N : N - j \notin S}
<1>1. SUFFICES ASSUME T # {}
               PROVE  FALSE
  <2> SUFFICES ASSUME NEW l \in 0 .. N, l \notin S
               PROVE  FALSE
    OBVIOUS
  <2>1. N - l \in 0 .. N /\ N - (N - l) = l
    OBVIOUS
  <2>2. N - l \in T
    BY <2>1
  <2> QED  BY <1>1, <2>2
<1>2. T \subseteq Nat
  OBVIOUS
<1>3. PICK j \in T : \A k \in T : j <= k
  <2> HIDE DEF T
  <2> QED  BY <1>1, <1>2, LeastNumber
<1>4. j \in 0 .. N /\ N - j \notin S
  BY <1>3
<1>5. j # 0
  BY <1>4
<1>6. j - 1 \in 0 .. N /\ ~ (j <= j - 1) /\ N - (j - 1) \in 1 .. N /\ N - (j - 1) - 1 = N - j
  BY <1>4, <1>5
<1>7. N - (j - 1) \in S
  BY <1>3, <1>6
<1> QED  BY <1>4, <1>6, <1>7

\* The addresses of the entries that every space shares.
Shared(v) == v \div Span[limit_pml - 1] >= FirstCopied

\* An address is that of an entry of a last table.
LEMMA AddressParts ==
    ASSUME NEW v \in 0 .. VirtPages - 1
    PROVE  /\ v \in Nat /\ v \div ENTRIES \in Regions
           /\ PMLX_GET_INDEX(v, 0) = v % ENTRIES /\ v % ENTRIES \in Entries
           /\ v = (v \div ENTRIES) * ENTRIES + (v % ENTRIES)
           /\ Shared(v) <=> v \div ENTRIES \in SharedRegions
           /\ \A s : PlaceAt(s, v, 0) =
                 [own |-> IF Shared(v) THEN kernel_pml ELSE s, lev |-> 0, pre |-> v \div ENTRIES]
           /\ \A l \in 1 .. limit_pml - 1 :
                 PMLX_GET_INDEX(v, l) = ((v \div ENTRIES) \div Span[l - 1]) % ENTRIES
<1> DEFINE L == limit_pml
           E == ENTRIES
           r == v \div E
           a == Span[L - 1]
           c == Span[L - 2]
<1>1. a \in Nat /\ c \in Nat /\ a >= 1 /\ c >= 1 /\ a = E * c /\ Span[L] = E * a /\ Span[1] = E
      /\ E \in Nat /\ E >= 2 /\ Span[0] = 1
  <2>1. L - 1 \in 1 .. L /\ L - 2 \in 0 .. L /\ L - 1 - 1 = L - 2 /\ L \in 1 .. L /\ 1 \in 1 .. L /\ 1 - 1 = 0 /\ L - 1 \in 0 .. L
    BY LevelFacts
  <2>2. Span[1] = E * 1
    BY <2>1, SpanFacts
  <2> QED  BY <2>1, <2>2, SpanFacts, LevelFacts
<1>2. v \in Nat /\ v < E * a /\ VirtPages = E * a
  BY <1>1 DEF VirtPages
<1>3. r \in Nat /\ v % E \in 0 .. E - 1 /\ v = r * E + (v % E) /\ r < a
  <2>1. a * E = E * a
    BY <1>1
  <2> HIDE DEF a, E
  <2>2. v \in Nat /\ E \in Nat /\ E >= 1 /\ a \in Nat /\ v < a * E
    BY <1>1, <1>2, <2>1
  <2> QED  BY ONLY <2>2, Division
<1>4. r \in Regions
  <2> HIDE DEF r, a
  <2> QED  BY <1>1, <1>3 DEF Regions, a
<1>5. PMLX_GET_INDEX(v, 0) = v % E
  <2>1. v \div 1 = v
    <3> DEFINE k == 1
    <3>1. v \div k = v
      BY <1>2
    <3> QED  BY <3>1
  <2> QED  BY <1>1, <2>1 DEF PMLX_GET_INDEX
<1>6. \A l \in 1 .. L - 1 : PMLX_GET_INDEX(v, l) = (r \div Span[l - 1]) % E
  <2> SUFFICES ASSUME NEW l \in 1 .. L - 1
               PROVE  PMLX_GET_INDEX(v, l) = (r \div Span[l - 1]) % E
    OBVIOUS
  <2> DEFINE d == Span[l - 1]
  <2>1. l \in 1 .. L /\ l - 1 \in 0 .. L
    BY LevelFacts
  <2>2. Span[l] = E * d /\ d \in Nat /\ d >= 1
    BY <2>1, SpanFacts
  <2> HIDE DEF d, E
  <2>3. v \in Nat /\ E \in Nat /\ E >= 1
    BY <1>1, <1>2
  <2>4. (v \div E) \div d = v \div (d * E)
    BY ONLY <2>2, <2>3, DivisionTwice
  <2>5. d * E = Span[l]
    BY <2>2, <2>3
  <2> QED  BY <2>4, <2>5 DEF PMLX_GET_INDEX, d, E
<1>7. Shared(v) <=> r \in SharedRegions
  <2> HIDE DEF a, c, E
  <2>1. v \in Nat /\ E \in Nat /\ E >= 1 /\ c \in Nat /\ c >= 1
    BY <1>1, <1>2
  <2>2. (v \div E) \div c = v \div (c * E)
    BY ONLY <2>1, DivisionTwice
  <2>3. c * E = a
    BY <1>1
  <2>4. v \div a = r \div c
    BY <2>2, <2>3
  <2> QED  BY <1>4, <2>4 DEF Shared, SharedRegions, a, c
<1>8. 0 < L - 1 /\ 0 + 1 = 1
  BY LevelFacts
<1>9. \A s : PlaceAt(s, v, 0) = [own |-> IF Shared(v) THEN kernel_pml ELSE s, lev |-> 0, pre |-> r]
  BY <1>1, <1>8 DEF PlaceAt, Shared
<1> HIDE DEF r
<1> QED  BY <1>2, <1>3, <1>4, <1>5, <1>6, <1>7, <1>9 DEF Entries, r

\* The addresses of one last table are reached by one walk.
LEMMA SameRegion ==
    ASSUME NEW tb, NEW pl, Tree(tb, pl),
           NEW root \in DOMAIN tb, root \in Int, pl[root] = RootPlace(root),
           NEW v \in 0 .. VirtPages - 1, NEW w \in 0 .. VirtPages - 1,
           v \div ENTRIES = w \div ENTRIES
    PROVE  TableAt(tb, root, v, 0) = TableAt(tb, root, w, 0)
<1> DEFINE L == limit_pml
           S == {l \in 0 .. L - 1 : TableAt(tb, root, v, l) = TableAt(tb, root, w, l)}
<1>1. L - 1 \in Nat /\ L - 1 \in 0 .. L - 1
  BY LevelFacts
<1>2. L - 1 \in S
  BY <1>1, WalkSteps
<1>3. ASSUME NEW l \in 1 .. L - 1, l \in S
      PROVE  l - 1 \in S
  <2>1. l - 1 \in 0 .. L - 2 /\ l - 1 \in 0 .. L - 1 /\ l - 1 + 1 = l
    BY LevelFacts
  <2>2. PMLX_GET_INDEX(v, l) = PMLX_GET_INDEX(w, l)
    BY AddressParts
  <2>3. TableAt(tb, root, v, l) = TableAt(tb, root, w, l)
    BY <1>3
  <2>4. TableAt(tb, root, v, l - 1) = TableAt(tb, root, w, l - 1)
    BY <2>1, <2>2, <2>3, WalkSteps
  <2> QED  BY <2>1, <2>4
<1> HIDE DEF S
<1>4. 0 \in S
  <2>1. 0 \in 0 .. L - 1
    BY LevelFacts
  <2> QED  BY <1>1, <1>2, <1>3, <2>1, Downwards
<1> QED  BY <1>4 DEF S

\* The roots of the spaces are where the walks start.
Roots(tb, pl) == \A s \in spaces : s \in DOMAIN tb /\ s \in Int /\ pl[s] = RootPlace(s)

LEMMA TreeIsPrivate ==
    ASSUME NEW pl, Tree(tables, pl), Roots(tables, pl)
    PROVE  PrivateTables
<1> SUFFICES ASSUME NEW x \in Walks, NEW y \in Walks, x[1] = y[1], x[1] # NULL
             PROVE  x = y
  BY DEF PrivateTables
<1> DEFINE W(s, r) == <<TableAt(tables, s, r * ENTRIES, 0), r, IF r \in SharedRegions THEN kernel_pml ELSE s>>
<1>1. PICK s \in spaces, r \in Regions : x = W(s, r)
  BY DEF Walks
<1>2. PICK t \in spaces, q \in Regions : y = W(t, q)
  BY DEF Walks
<1>3. pl[x[1]] = [own |-> x[3], lev |-> 0, pre |-> x[2]]
  BY <1>1, RegionEnds DEF Roots
<1>4. pl[y[1]] = [own |-> y[3], lev |-> 0, pre |-> y[2]]
  BY <1>2, RegionEnds DEF Roots
<1>5. x[3] = y[3] /\ x[2] = y[2]
  BY <1>3, <1>4
<1> QED  BY <1>1, <1>2, <1>5

-----------------------------------------------------------------------------
Machines == [tables : Tables, used : SUBSET Memory, last_index : Nat,
             at : Int, panic : BOOLEAN, fault : BOOLEAN]

LEMMA MinIs ==
    ASSUME NEW S, S \subseteq Nat, S # {}
    PROVE  Min(S) \in S /\ \A x \in S : Min(S) <= x
<1>1. \E x \in S : \A y \in S : x <= y
  BY LeastNumber
<1> QED  BY <1>1 DEF Min

LEMMA MemoryFacts ==
    /\ Memory \subseteq Nat /\ kernel_pml \in Memory /\ kernel_pml \in Int
    /\ \A p \in Memory : p # NULL /\ p \in Int
<1>1. Memory \subseteq Nat /\ Memory # {}
  BY VmmAssumption
<1>2. kernel_pml \in Memory
  BY <1>1, MinIs DEF kernel_pml
<1>3. \A p \in Nat : p # NULL /\ p \in Int
  BY DEF NULL
<1> QED  BY <1>1, <1>2, <1>3

\* What pmm_alloc returns: pages that were free, which are used now.
LEMMA AllocFacts ==
    ASSUME NEW n \in Machines, NEW k \in Nat, NEW x, x = pmm_alloc(n, k)
    PROVE  /\ x \in Machines
           /\ x.tables = n.tables /\ x.panic = n.panic
           /\ x.at = NULL => x.used = n.used
           /\ x.at # NULL => /\ x.at \in Memory
                             /\ x.at .. x.at + k - 1 \subseteq Memory \ n.used
                             /\ x.used = n.used \cup (x.at .. x.at + k - 1)
<1> DEFINE Free(from) == {b \in Memory : b >= from /\ b .. b + k - 1 \subseteq Memory \ n.used}
           Take(b) == [n EXCEPT !.used = @ \cup (b .. b + k - 1), !.last_index = b + k, !.at = b]
<1>1. x = IF Free(n.last_index) # {} THEN Take(Min(Free(n.last_index)))
          ELSE IF Free(0) # {} THEN Take(Min(Free(0)))
          ELSE [n EXCEPT !.last_index = 0, !.at = NULL]
  BY DEF pmm_alloc
<1>2. n = [tables |-> n.tables, used |-> n.used, last_index |-> n.last_index, at |-> n.at,
           panic |-> n.panic, fault |-> n.fault]
      /\ n.tables \in Tables /\ n.used \in SUBSET Memory /\ n.last_index \in Nat
      /\ n.at \in Int /\ n.panic \in BOOLEAN /\ n.fault \in BOOLEAN
  BY DEF Machines
<1>3. ASSUME NEW b \in Memory, b .. b + k - 1 \subseteq Memory \ n.used, x = Take(b)
      PROVE  /\ x \in Machines
             /\ x.tables = n.tables /\ x.panic = n.panic
             /\ x.at = NULL => x.used = n.used
             /\ x.at # NULL => /\ x.at \in Memory
                               /\ x.at .. x.at + k - 1 \subseteq Memory \ n.used
                               /\ x.used = n.used \cup (x.at .. x.at + k - 1)
  <2>1. b \in Nat /\ b + k \in Nat /\ b # NULL
    BY MemoryFacts
  <2>2. x = [tables |-> n.tables, used |-> n.used \cup (b .. b + k - 1), last_index |-> b + k,
             at |-> b, panic |-> n.panic, fault |-> n.fault]
    BY <1>2, <1>3
  <2>3. n.used \cup (b .. b + k - 1) \in SUBSET Memory
    BY <1>2, <1>3
  <2>4. x \in Machines
    BY <1>2, <2>1, <2>2, <2>3 DEF Machines
  <2> QED  BY <1>3, <2>1, <2>2, <2>4
<1>4. ASSUME NEW from \in Nat, Free(from) # {}
      PROVE  /\ Min(Free(from)) \in Memory
             /\ Min(Free(from)) .. Min(Free(from)) + k - 1 \subseteq Memory \ n.used
  <2>1. Free(from) \subseteq Nat
    BY MemoryFacts
  <2>2. Min(Free(from)) \in Free(from)
    <3> HIDE DEF Free
    <3> QED  BY <1>4, <2>1, MinIs
  <2> QED  BY <2>2
<1>5. CASE Free(n.last_index) # {}
  <2> HIDE DEF Free, Take
  <2>1. x = Take(Min(Free(n.last_index)))
    BY <1>1, <1>5
  <2> QED  BY <1>2, <1>3, <1>4, <1>5, <2>1
<1>6. CASE Free(n.last_index) = {} /\ Free(0) # {}
  <2> HIDE DEF Free, Take
  <2>1. x = Take(Min(Free(0))) /\ 0 \in Nat
    BY <1>1, <1>6
  <2> QED  BY <1>3, <1>4, <1>6, <2>1
<1>7. CASE Free(n.last_index) = {} /\ Free(0) = {}
  <2>1. x = [n EXCEPT !.last_index = 0, !.at = NULL]
    <3> HIDE DEF Free, Take
    <3> QED  BY <1>1, <1>7
  <2>2. x = [tables |-> n.tables, used |-> n.used, last_index |-> 0,
             at |-> NULL, panic |-> n.panic, fault |-> n.fault]
    BY <1>2, <2>1
  <2>3. 0 \in Nat /\ NULL \in Int
    BY DEF NULL
  <2>4. x \in Machines
    BY <1>2, <2>2, <2>3 DEF Machines
  <2> QED  BY <2>2, <2>4
<1> HIDE DEF Free, Take
<1> QED  BY <1>5, <1>6, <1>7

\* A machine is the record of its fields.
LEMMA MachineIs ==
    ASSUME NEW n \in Machines
    PROVE  /\ n = [tables |-> n.tables, used |-> n.used, last_index |-> n.last_index,
                   at |-> n.at, panic |-> n.panic, fault |-> n.fault]
           /\ n.tables \in Tables /\ n.used \in SUBSET Memory /\ n.last_index \in Nat
           /\ n.at \in Int /\ n.panic \in BOOLEAN /\ n.fault \in BOOLEAN
BY DEF Machines

LEMMA WrittenFacts ==
    ASSUME NEW n \in Machines, NEW base, NEW k, NEW x, x = Written(n, base, k)
    PROVE  /\ x \in Machines
           /\ x.tables = n.tables /\ x.used = n.used /\ x.at = n.at /\ x.panic = n.panic
<1> DEFINE b == n.fault \/ \E p \in base .. base + k - 1 :
                   Translate(n.tables, kernel_pml, mmap_phys_to_kernel(p)) = NULL
<1>1. x = [n EXCEPT !.fault = b]
  BY DEF Written
<1>2. b \in BOOLEAN
  OBVIOUS
<1> HIDE DEF b
<1>3. x = [tables |-> n.tables, used |-> n.used, last_index |-> n.last_index,
           at |-> n.at, panic |-> n.panic, fault |-> b]
  BY <1>1, MachineIs
<1>4. x \in Machines
  BY <1>2, <1>3, MachineIs DEF Machines
<1> QED  BY <1>3, <1>4

LEMMA PanicFacts ==
    ASSUME NEW n \in Machines, NEW x, x = [n EXCEPT !.panic = TRUE]
    PROVE  /\ x \in Machines
           /\ x.tables = n.tables /\ x.used = n.used /\ x.at = n.at /\ x.panic
<1> DEFINE b == TRUE
<1>1. x = [n EXCEPT !.panic = b] /\ b \in BOOLEAN /\ b
  OBVIOUS
<1> HIDE DEF b
<1>2. x = [tables |-> n.tables, used |-> n.used, last_index |-> n.last_index,
           at |-> n.at, panic |-> b, fault |-> n.fault]
  BY <1>1, MachineIs
<1>3. x \in Machines
  BY <1>1, <1>2, MachineIs DEF Machines
<1> QED  BY <1>1, <1>2, <1>3

LEMMA UsedFacts ==
    ASSUME NEW n \in Machines, NEW U, NEW x, x = [n EXCEPT !.used = U]
    PROVE  x.tables = n.tables /\ x.used = U /\ x.panic = n.panic
BY MachineIs

\* Table maps: what makes one, and what one consists of.
LEMMA TablesFacts ==
    ASSUME NEW tb
    PROVE  /\ tb \in Tables => /\ DOMAIN tb \subseteq Memory
                               /\ tb = [p \in DOMAIN tb |-> tb[p]]
                               /\ \A p \in DOMAIN tb : tb[p] \in [Entries -> Int]
           /\ (/\ DOMAIN tb \subseteq Memory
               /\ tb = [p \in DOMAIN tb |-> tb[p]]
               /\ \A p \in DOMAIN tb : tb[p] \in [Entries -> Int]) => tb \in Tables
<1>1. ASSUME tb \in Tables
      PROVE  /\ DOMAIN tb \subseteq Memory
             /\ tb = [p \in DOMAIN tb |-> tb[p]]
             /\ \A p \in DOMAIN tb : tb[p] \in [Entries -> Int]
  <2>1. PICK D \in SUBSET Memory : tb \in [D -> [Entries -> Int]]
    BY <1>1 DEF Tables
  <2> QED  BY <2>1
<1>2. ASSUME DOMAIN tb \subseteq Memory, tb = [p \in DOMAIN tb |-> tb[p]],
             \A p \in DOMAIN tb : tb[p] \in [Entries -> Int]
      PROVE  tb \in Tables
  <2> DEFINE D == DOMAIN tb
  <2>1. tb \in [D -> [Entries -> Int]] /\ D \in SUBSET Memory
    BY <1>2
  <2> HIDE DEF D
  <2> QED  BY <2>1 DEF Tables
<1> QED  BY <1>1, <1>2

LEMMA ClearedFacts ==
    ASSUME NEW n \in Machines, ~ n.panic, n.at \in Memory, NEW x, x = Cleared(n)
    PROVE  /\ x \in Machines
           /\ ~ x.panic /\ x.used = n.used /\ x.at = n.at
           /\ DOMAIN x.tables = DOMAIN n.tables \cup {n.at}
           /\ x.tables[n.at] = Empty
           /\ \A p \in DOMAIN n.tables : p # n.at => x.tables[p] = n.tables[p]
<1> DEFINE D == DOMAIN n.tables \cup {n.at}
           tb == [p \in D |-> IF p = n.at THEN Empty ELSE n.tables[p]]
           y == [n EXCEPT !.tables = [p \in DOMAIN @ \cup {n.at} |->
                                          IF p = n.at THEN Empty ELSE @[p]]]
<1>1. y = [tables |-> tb, used |-> n.used, last_index |-> n.last_index,
           at |-> n.at, panic |-> n.panic, fault |-> n.fault]
  BY MachineIs
<1>2. tb \in Tables
  <2>1. Empty \in [Entries -> Int]
    BY DEF Empty, Entries, NULL
  <2>2. DOMAIN n.tables \subseteq Memory /\ \A p \in DOMAIN n.tables : n.tables[p] \in [Entries -> Int]
    BY MachineIs, TablesFacts
  <2>3. tb = [p \in DOMAIN tb |-> tb[p]] /\ DOMAIN tb \subseteq Memory
    BY <2>2
  <2>4. \A p \in DOMAIN tb : tb[p] \in [Entries -> Int]
    BY <2>1, <2>2
  <2> HIDE DEF tb
  <2> QED  BY <2>3, <2>4, TablesFacts
<1>3. DOMAIN tb = D /\ tb[n.at] = Empty /\ \A p \in DOMAIN n.tables : p # n.at => tb[p] = n.tables[p]
  OBVIOUS
<1> HIDE DEF tb
<1>4. y \in Machines
  BY <1>1, <1>2, MachineIs DEF Machines
<1>5. y.tables = tb /\ y.used = n.used /\ y.at = n.at /\ y.panic = n.panic
  BY <1>1
<1>6. x = Written(y, n.at, 1)
  BY DEF Cleared
<1> HIDE DEF y
<1>7. x \in Machines /\ x.tables = y.tables /\ x.used = y.used /\ x.at = y.at /\ x.panic = y.panic
  BY <1>4, <1>6, WrittenFacts
<1> QED  BY <1>3, <1>5, <1>7

\* A page that becomes a table was free.
LEMMA NewTable ==
    ASSUME NEW n \in Machines, ~ n.panic, DOMAIN n.tables \subseteq n.used,
           NEW x, x = Cleared(UNWRAP_OR_PANIC(pmm_alloc(n, 1)))
    PROVE  /\ x \in Machines
           /\ x.panic => x.tables = n.tables /\ x.used = n.used
           /\ ~ x.panic => /\ x.at \in Memory \ n.used
                           /\ x.used = n.used \cup {x.at}
                           /\ DOMAIN x.tables = DOMAIN n.tables \cup {x.at}
                           /\ x.tables[x.at] = Empty
                           /\ \A p \in DOMAIN n.tables : x.tables[p] = n.tables[p]
<1> DEFINE y == pmm_alloc(n, 1)
<1>1. /\ y \in Machines
      /\ y.tables = n.tables /\ y.panic = n.panic
      /\ y.at = NULL => y.used = n.used
      /\ y.at # NULL => /\ y.at \in Memory
                        /\ y.at .. y.at + 1 - 1 \subseteq Memory \ n.used
                        /\ y.used = n.used \cup (y.at .. y.at + 1 - 1)
  <2> HIDE DEF y
  <2>1. y = pmm_alloc(n, 1)
    BY DEF y
  <2> QED  BY <2>1, AllocFacts
<1>2. x = Cleared(UNWRAP_OR_PANIC(y))
  OBVIOUS
<1> HIDE DEF y
<1>3. CASE y.at = NULL
  <2> DEFINE z == [y EXCEPT !.panic = TRUE]
  <2>1. UNWRAP_OR_PANIC(y) = z
    BY <1>3 DEF UNWRAP_OR_PANIC
  <2>2. z \in Machines /\ z.panic /\ z.tables = y.tables /\ z.used = y.used
    BY <1>1, PanicFacts
  <2> HIDE DEF z
  <2>5. x = z
    BY <1>2, <2>1, <2>2 DEF Cleared
  <2> QED  BY <1>1, <1>3, <2>2, <2>5
<1>4. CASE y.at # NULL
  <2>1. UNWRAP_OR_PANIC(y) = y
    BY <1>4 DEF UNWRAP_OR_PANIC
  <2>2. y.at \in Int /\ y.at + 1 - 1 = y.at /\ y.at .. y.at = {y.at}
    BY <1>1, MachineIs
  <2>3. y.at \in Memory \ n.used /\ y.used = n.used \cup {y.at} /\ y.at \notin DOMAIN n.tables
    BY <1>1, <1>4, <2>2
  <2>4. x = Cleared(y) /\ ~ y.panic /\ y.at \in Memory
    BY <1>1, <1>2, <2>1, <2>3
  <2>5. /\ x \in Machines
        /\ ~ x.panic /\ x.used = y.used /\ x.at = y.at
        /\ DOMAIN x.tables = DOMAIN y.tables \cup {y.at}
        /\ x.tables[y.at] = Empty
        /\ \A p \in DOMAIN y.tables : p # y.at => x.tables[p] = y.tables[p]
    BY <1>1, <2>4, ClearedFacts
  <2> QED  BY <1>1, <2>3, <2>5
<1> QED  BY <1>3, <1>4

-----------------------------------------------------------------------------
\* The table x gets page `phys' in entry i when the addresses and pages W are
\* mapped in a space.
Writes(W, space, x, i, phys) ==
    \E v \in 0 .. VirtPages - 1 :
        x = PlaceAt(space, v, 0) /\ i = PMLX_GET_INDEX(v, 0) /\ <<v, phys>> \in W

\* Memory n, with the places rl of its tables, may have come of memory m with
\* the places pl, when the addresses and pages W were mapped in a space: tables
\* are added on pages that were free, the others stay where they are, an entry
\* of a last table changes as W says, and one above it stays when it is set,
\* or leads to a table that is new.
From(m, pl, n, rl, space, W) ==
    /\ n \in Machines
    /\ Tree(n.tables, rl)
    /\ DOMAIN m.tables \subseteq DOMAIN n.tables
    /\ \A p \in DOMAIN m.tables : rl[p] = pl[p]
    /\ n.used = m.used \cup DOMAIN n.tables
    /\ DOMAIN n.tables \cap m.used \subseteq DOMAIN m.tables
    /\ \A p \in DOMAIN m.tables : \A i \in Entries :
          rl[p].lev > 0 /\ m.tables[p][i] # NULL => n.tables[p][i] = m.tables[p][i]
    /\ \A p \in DOMAIN n.tables : \A i \in Entries :
          \/ p \in DOMAIN m.tables /\ n.tables[p][i] = m.tables[p][i]
          \/ p \notin DOMAIN m.tables /\ n.tables[p][i] = NULL
          \/ rl[p].lev > 0 /\ n.tables[p][i] \notin DOMAIN m.tables
          \/ rl[p].lev = 0 /\ Writes(W, space, rl[p], i, n.tables[p][i])

LEMMA FromStart ==
    ASSUME NEW m \in Machines, NEW pl, Tree(m.tables, pl), DOMAIN m.tables \subseteq m.used,
           NEW space, NEW W
    PROVE  From(m, pl, m, pl, space, W)
BY DEF From

\* From looks only at the tables and at the pages in use.
LEMMA FromSame ==
    ASSUME NEW m, NEW pl, NEW n, NEW rl, NEW space, NEW W, From(m, pl, n, rl, space, W),
           NEW x \in Machines, x.tables = n.tables, x.used = n.used
    PROVE  From(m, pl, x, rl, space, W)
BY DEF From

LEMMA FromTrans ==
    ASSUME NEW m, NEW pl, NEW n, NEW ql, NEW y, NEW rl, NEW space, NEW W, NEW V,
           From(m, pl, n, ql, space, W), From(n, ql, y, rl, space, V), V \subseteq W
    PROVE  From(m, pl, y, rl, space, W)
<1>1. /\ y \in Machines /\ Tree(y.tables, rl) /\ DOMAIN m.tables \subseteq DOMAIN y.tables
      /\ \A p \in DOMAIN m.tables : rl[p] = pl[p]
  BY DEF From
<1>2. y.used = m.used \cup DOMAIN y.tables /\ DOMAIN y.tables \cap m.used \subseteq DOMAIN m.tables
  BY DEF From
<1>3. \A p \in DOMAIN m.tables : \A i \in Entries :
          rl[p].lev > 0 /\ m.tables[p][i] # NULL => y.tables[p][i] = m.tables[p][i]
  <2> SUFFICES ASSUME NEW p \in DOMAIN m.tables, NEW i \in Entries,
                      rl[p].lev > 0, m.tables[p][i] # NULL
               PROVE  y.tables[p][i] = m.tables[p][i]
    OBVIOUS
  <2>1. p \in DOMAIN n.tables /\ rl[p] = ql[p]
    BY DEF From
  <2>2. n.tables[p][i] = m.tables[p][i]
    BY <2>1 DEF From
  <2> QED  BY <2>1, <2>2 DEF From
<1>4. ASSUME NEW p \in DOMAIN y.tables, NEW i \in Entries
      PROVE  \/ p \in DOMAIN m.tables /\ y.tables[p][i] = m.tables[p][i]
             \/ p \notin DOMAIN m.tables /\ y.tables[p][i] = NULL
             \/ rl[p].lev > 0 /\ y.tables[p][i] \notin DOMAIN m.tables
             \/ rl[p].lev = 0 /\ Writes(W, space, rl[p], i, y.tables[p][i])
  <2>0. DOMAIN m.tables \subseteq DOMAIN n.tables
    BY DEF From
  <2>1. \A x, j, phys : Writes(V, space, x, j, phys) => Writes(W, space, x, j, phys)
    BY DEF Writes
  <2>2. \/ p \in DOMAIN n.tables /\ y.tables[p][i] = n.tables[p][i]
        \/ p \notin DOMAIN n.tables /\ y.tables[p][i] = NULL
        \/ rl[p].lev > 0 /\ y.tables[p][i] \notin DOMAIN n.tables
        \/ rl[p].lev = 0 /\ Writes(V, space, rl[p], i, y.tables[p][i])
    BY DEF From
  <2>3. CASE p \in DOMAIN n.tables /\ y.tables[p][i] = n.tables[p][i]
    <3>1. rl[p] = ql[p]
      BY <2>3 DEF From
    <3>2. \/ p \in DOMAIN m.tables /\ n.tables[p][i] = m.tables[p][i]
          \/ p \notin DOMAIN m.tables /\ n.tables[p][i] = NULL
          \/ ql[p].lev > 0 /\ n.tables[p][i] \notin DOMAIN m.tables
          \/ ql[p].lev = 0 /\ Writes(W, space, ql[p], i, n.tables[p][i])
      BY <2>3 DEF From
    <3> QED  BY <2>3, <3>1, <3>2
  <2> QED  BY <2>0, <2>1, <2>2, <2>3
<1> QED  BY <1>1, <1>2, <1>3, <1>4 DEF From

\* What a walk finds after a mapping: what it found before, or new tables.
LEMMA WalkStays ==
    ASSUME NEW m, NEW pl, Tree(m.tables, pl), NEW n, NEW rl, NEW space, NEW W,
           From(m, pl, n, rl, space, W),
           NEW root \in DOMAIN m.tables, root \in Int, pl[root] = RootPlace(root),
           NEW v \in 0 .. VirtPages - 1, NEW level \in Levels
    PROVE  /\ TableAt(m.tables, root, v, level) # NULL =>
                 TableAt(n.tables, root, v, level) = TableAt(m.tables, root, v, level)
           /\ TableAt(m.tables, root, v, level) = NULL =>
                 \/ TableAt(n.tables, root, v, level) = NULL
                 \/ TableAt(n.tables, root, v, level) \notin DOMAIN m.tables
<1> DEFINE L == limit_pml
           X(l) == TableAt(m.tables, root, v, l)
           Y(l) == TableAt(n.tables, root, v, l)
           Fits(x, y) == /\ x # NULL => y = x
                         /\ x = NULL => y = NULL \/ y \notin DOMAIN m.tables
           S == {l \in 0 .. L - 1 : Fits(X(l), Y(l))}
<1>1. L - 1 \in Nat /\ L - 1 \in 0 .. L - 1
  BY LevelFacts
<1>2. Tree(n.tables, rl) /\ root \in DOMAIN n.tables /\ rl[root] = RootPlace(root)
  BY DEF From
<1>3. L - 1 \in S
  <2>1. X(L - 1) = root /\ Y(L - 1) = root
    BY <1>2, WalkSteps
  <2> QED  BY <1>1, <2>1
<1>4. ASSUME NEW l \in 1 .. L - 1, l \in S
      PROVE  l - 1 \in S
  <2> DEFINE i == PMLX_GET_INDEX(v, l)
             x == X(l)
             y == Y(l)
  <2>1. l - 1 \in 0 .. L - 2 /\ l - 1 \in 0 .. L - 1 /\ l - 1 + 1 = l /\ l \in Levels /\ l > 0
    BY LevelFacts DEF Levels
  <2>2. i \in Entries
    BY <2>1, PlacesOnTheWay
  <2>3. X(l - 1) = IF x = NULL THEN NULL ELSE m.tables[x][i]
    BY <2>1, WalkSteps
  <2>4. Y(l - 1) = IF y = NULL THEN NULL ELSE n.tables[y][i]
    BY <1>2, <2>1, WalkSteps
  <2>10. PlaceAt(root, v, l).lev = l
    BY DEF PlaceAt
  <2>5. x # NULL => x \in DOMAIN m.tables /\ pl[x].lev = l
    <3>1. x # NULL => x \in DOMAIN m.tables /\ pl[x] = PlaceAt(root, v, l)
      BY <2>1, WalkEnds
    <3> HIDE DEF x
    <3> QED  BY <2>10, <3>1
  <2>6. y # NULL => y \in DOMAIN n.tables /\ rl[y].lev = l
    <3>1. y # NULL => y \in DOMAIN n.tables /\ rl[y] = PlaceAt(root, v, l)
      BY <1>2, <2>1, WalkEnds
    <3> HIDE DEF y
    <3> QED  BY <2>10, <3>1
  <2>7. Fits(x, y)
    BY <1>4
  <2> HIDE DEF i, x, y
  <2>8. Fits(IF x = NULL THEN NULL ELSE m.tables[x][i], IF y = NULL THEN NULL ELSE n.tables[y][i])
    <3>1. CASE x # NULL
      <4>1. y = x /\ x \in DOMAIN m.tables /\ rl[x].lev > 0
        BY <2>1, <2>5, <2>6, <2>7, <3>1
      <4>2. m.tables[x][i] # NULL => n.tables[x][i] = m.tables[x][i]
        BY <2>2, <4>1 DEF From
      <4>3. \/ n.tables[x][i] = m.tables[x][i]
            \/ n.tables[x][i] \notin DOMAIN m.tables
        <5>1. x \in DOMAIN n.tables
          BY <4>1 DEF From
        <5> QED  BY <2>2, <4>1, <5>1 DEF From
      <4> QED  BY <3>1, <4>1, <4>2, <4>3
    <3>2. CASE x = NULL /\ y = NULL
      BY <3>2
    <3>3. CASE x = NULL /\ y # NULL
      <4>1. y \in DOMAIN n.tables /\ rl[y].lev > 0 /\ y \notin DOMAIN m.tables
        BY <2>1, <2>6, <2>7, <3>3
      <4>2. n.tables[y][i] = NULL \/ n.tables[y][i] \notin DOMAIN m.tables
        BY <2>2, <4>1 DEF From
      <4> QED  BY <3>3, <4>2
    <3> QED  BY <3>1, <3>2, <3>3
  <2>9. Fits(X(l - 1), Y(l - 1))
    <3> HIDE DEF X, Y, Fits
    <3> QED  BY <2>3, <2>4, <2>8
  <2> HIDE DEF Fits, X, Y
  <2> QED  BY <2>1, <2>9
<1> HIDE DEF S
<1>5. level \in S
  BY <1>1, <1>3, <1>4, Downwards DEF Levels
<1> QED  BY <1>5 DEF S

\* What an address means after a mapping.
LEMMA Translated ==
    ASSUME NEW m, NEW pl, Tree(m.tables, pl), NEW n, NEW rl, NEW space, NEW W,
           From(m, pl, n, rl, space, W),
           NEW root \in DOMAIN m.tables, root \in Int, pl[root] = RootPlace(root),
           NEW v \in 0 .. VirtPages - 1
    PROVE  \/ Translate(n.tables, root, v) = Translate(m.tables, root, v)
           \/ <<v, Translate(n.tables, root, v)>> \in W /\ (Shared(v) \/ root = space)
<1> DEFINE x == TableAt(m.tables, root, v, 0)
           y == TableAt(n.tables, root, v, 0)
           i == PMLX_GET_INDEX(v, 0)
<1>1. /\ x # NULL => y = x
      /\ x = NULL => y = NULL \/ y \notin DOMAIN m.tables
  BY WalkStays, LevelFacts
<1>2. /\ Translate(m.tables, root, v) = IF x = NULL THEN NULL ELSE m.tables[x][i]
      /\ Translate(n.tables, root, v) = IF y = NULL THEN NULL ELSE n.tables[y][i]
  BY DEF Translate
<1>3. Tree(n.tables, rl) /\ root \in DOMAIN n.tables /\ rl[root] = RootPlace(root)
  BY DEF From
<1>4. x # NULL => x \in DOMAIN m.tables
  BY WalkEnds, LevelFacts
<1>5. y # NULL => y \in DOMAIN n.tables /\ rl[y] = PlaceAt(root, v, 0)
  BY <1>3, WalkEnds, LevelFacts
<1>6. i \in Entries
  BY PlacesOnTheWay, LevelFacts
<1> HIDE DEF x, y
<1>7. CASE y = NULL
  BY <1>1, <1>2, <1>7
<1>8. CASE y # NULL
  <2>1. PlaceAt(root, v, 0).lev = 0
    BY DEF PlaceAt
  <2>2. \/ y \in DOMAIN m.tables /\ n.tables[y][i] = m.tables[y][i]
        \/ y \notin DOMAIN m.tables /\ n.tables[y][i] = NULL
        \/ Writes(W, space, PlaceAt(root, v, 0), i, n.tables[y][i])
    BY <1>5, <1>6, <1>8, <2>1 DEF From
  <2>3. CASE y \in DOMAIN m.tables /\ n.tables[y][i] = m.tables[y][i]
    BY <1>1, <1>2, <1>8, <2>3
  <2>4. CASE y \notin DOMAIN m.tables /\ n.tables[y][i] = NULL
    BY <1>1, <1>2, <1>4, <1>8, <2>4
  <2>5. CASE Writes(W, space, PlaceAt(root, v, 0), i, n.tables[y][i])
    <3>1. PICK w \in 0 .. VirtPages - 1 : /\ PlaceAt(root, v, 0) = PlaceAt(space, w, 0)
                                          /\ i = PMLX_GET_INDEX(w, 0)
                                          /\ <<w, n.tables[y][i]>> \in W
      BY <2>5 DEF Writes
    <3>2. /\ PlaceAt(root, v, 0) = [own |-> IF Shared(v) THEN kernel_pml ELSE root, lev |-> 0, pre |-> v \div ENTRIES]
          /\ PlaceAt(space, w, 0) = [own |-> IF Shared(w) THEN kernel_pml ELSE space, lev |-> 0, pre |-> w \div ENTRIES]
          /\ v = (v \div ENTRIES) * ENTRIES + (v % ENTRIES) /\ w = (w \div ENTRIES) * ENTRIES + (w % ENTRIES)
          /\ PMLX_GET_INDEX(v, 0) = v % ENTRIES /\ PMLX_GET_INDEX(w, 0) = w % ENTRIES
      BY AddressParts
    <3>3. v \div ENTRIES = w \div ENTRIES /\ v % ENTRIES = w % ENTRIES
          /\ (IF Shared(v) THEN kernel_pml ELSE root) = (IF Shared(w) THEN kernel_pml ELSE space)
      <4> DEFINE A == IF Shared(v) THEN kernel_pml ELSE root
                 B == IF Shared(w) THEN kernel_pml ELSE space
                 q == v \div ENTRIES
                 k == w \div ENTRIES
      <4>1. [own |-> A, lev |-> 0, pre |-> q] = [own |-> B, lev |-> 0, pre |-> k]
        BY <3>1, <3>2
      <4> HIDE DEF A, B, q, k
      <4>2. A = B /\ q = k
        BY <4>1
      <4> QED  BY <3>1, <3>2, <4>2 DEF A, B, q, k
    <3>4. v = w
      BY <3>2, <3>3
    <3> QED  BY <1>2, <1>8, <3>1, <3>3, <3>4
  <2> QED  BY <2>2, <2>3, <2>4, <2>5
<1> QED  BY <1>7, <1>8

LEMMA BelowIsPlace ==
    ASSUME NEW x \in Places, x.lev > 0, NEW i \in Entries
    PROVE  Below(x, i) \in Places
<1>1. x.lev - 1 \in Levels
  BY LevelFacts DEF Places, Levels
<1>2. x.pre \in Nat /\ i \in Nat /\ ENTRIES \in Nat
  BY LevelFacts DEF Places, Entries
<1>3. x.pre * ENTRIES + i \in Nat
  BY ONLY <1>2, Z3
<1>4. (IF x.lev = limit_pml - 1 /\ i >= FirstCopied THEN kernel_pml ELSE x.own) \in Int
  BY MemoryFacts DEF Places
<1> QED  BY <1>1, <1>3, <1>4 DEF Below, Places

\* The walk has gone from memory n through entry i to memory y.
Stepped(n, ql, i, y, space, W) ==
    \E rl : /\ From(n, ql, y, rl, space, W)
            /\ ~ y.panic => ~ n.panic /\ y.at = y.tables[n.at][i] /\ y.at # NULL

\* A step of the walk: the entry's table, or a new one, is where it belongs.
LEMMA EntryTable ==
    ASSUME NEW n \in Machines, NEW ql, Tree(n.tables, ql), DOMAIN n.tables \subseteq n.used,
           NEW space, NEW W, NEW x \in Places, x.lev > 0,
           ~ n.panic => n.at \in DOMAIN n.tables /\ ql[n.at] = x,
           NEW i \in Entries, NEW y, y = vmm_get_pml_alloc(n, i)
    PROVE  Stepped(n, ql, i, y, space, W)
<1> USE DEF Stepped
<1> DEFINE new == Cleared(UNWRAP_OR_PANIC(pmm_alloc(n, 1)))
           a == n.at
           entry == n.tables[a][i]
<1>1. y = IF n.panic THEN n
          ELSE IF entry # NULL THEN [n EXCEPT !.at = entry]
          ELSE IF new.panic THEN new
          ELSE [new EXCEPT !.tables[a][i] = new.at]
  BY DEF vmm_get_pml_alloc, Linked
<1>2. n \in Machines /\ From(n, ql, n, ql, space, W)
  BY FromStart
<1>3. CASE n.panic
  BY <1>1, <1>2, <1>3
<1>4. CASE ~ n.panic /\ entry # NULL
  <2>1. y = [n EXCEPT !.at = entry]
    BY <1>1, <1>4
  <2>2. entry \in DOMAIN n.tables /\ ql[entry] = Below(x, i)
    BY <1>4 DEF Tree
  <2>3. entry \in Int
    BY <2>2, MachineIs, TablesFacts, MemoryFacts
  <2> HIDE DEF entry
  <2>4. y = [tables |-> n.tables, used |-> n.used, last_index |-> n.last_index,
             at |-> entry, panic |-> n.panic, fault |-> n.fault]
    BY <1>2, <2>1, MachineIs
  <2>5. y \in Machines
    BY <1>2, <2>3, <2>4, MachineIs DEF Machines
  <2>6. From(n, ql, y, ql, space, W)
    BY <1>2, <2>4, <2>5, FromSame
  <2>7. y.at = entry /\ y.tables = n.tables
    BY <2>4
  <2> QED  BY <1>4, <2>6, <2>7 DEF entry
<1> HIDE DEF new
<1>5. ASSUME ~ n.panic
      PROVE  /\ new \in Machines
             /\ new.panic => new.tables = n.tables /\ new.used = n.used
             /\ ~ new.panic => /\ new.at \in Memory \ n.used
                               /\ new.used = n.used \cup {new.at}
                               /\ DOMAIN new.tables = DOMAIN n.tables \cup {new.at}
                               /\ new.tables[new.at] = Empty
                               /\ \A p \in DOMAIN n.tables : new.tables[p] = n.tables[p]
  BY <1>2, <1>5, NewTable DEF new
<1>6. CASE ~ n.panic /\ entry = NULL /\ new.panic
  <2>1. y = new
    BY <1>1, <1>6
  <2>2. From(n, ql, y, ql, space, W)
    BY <1>2, <1>5, <1>6, <2>1, FromSame
  <2> QED  BY <1>6, <2>1, <2>2
<1>7. CASE ~ n.panic /\ entry = NULL /\ ~ new.panic
  <2> DEFINE q == new.at
             D == DOMAIN n.tables
             tb == [new.tables EXCEPT ![a][i] = q]
             rl == [p \in D \cup {q} |-> IF p = q THEN Below(x, i) ELSE ql[p]]
  <2>1. y = [new EXCEPT !.tables[a][i] = q]
    BY <1>1, <1>7
  <2>2. /\ q \in Memory /\ q \notin D /\ q \notin n.used /\ q \in Int /\ a \in D /\ a # q /\ ql[a] = x
        /\ new.used = n.used \cup {q} /\ DOMAIN new.tables = D \cup {q}
        /\ new.tables[q] = Empty /\ \A p \in D : new.tables[p] = n.tables[p]
    BY <1>5, <1>7, MemoryFacts
  <2>3. new \in Machines /\ ~ new.panic
    BY <1>5, <1>7
  <2> HIDE DEF q
  <2>4. new.tables \in Tables
    BY <2>3, MachineIs
  <2>5. /\ DOMAIN tb = D \cup {q} /\ tb = [p \in DOMAIN tb |-> tb[p]]
        /\ \A p \in D \cup {q} : \A j \in Entries :
              tb[p][j] = IF p = q THEN NULL ELSE IF p = a /\ j = i THEN q ELSE n.tables[p][j]
        /\ \A p \in D \cup {q} : tb[p] \in [Entries -> Int]
    <3>1. DOMAIN new.tables = D \cup {q} /\ \A p \in D \cup {q} : new.tables[p] \in [Entries -> Int]
      BY <2>2, <2>4, TablesFacts
    <3>2. \A p \in D \cup {q} : tb[p] = IF p = a THEN [new.tables[a] EXCEPT ![i] = q] ELSE new.tables[p]
      BY <2>2, <3>1
    <3>3. DOMAIN tb = D \cup {q} /\ tb = [p \in DOMAIN tb |-> tb[p]]
      BY <3>1
    <3> HIDE DEF tb
    <3>4. ASSUME NEW p \in D \cup {q}
          PROVE  tb[p] \in [Entries -> Int]
      BY <2>2, <3>1, <3>2
    <3>5. ASSUME NEW p \in D \cup {q}, NEW j \in Entries
          PROVE  tb[p][j] = IF p = q THEN NULL ELSE IF p = a /\ j = i THEN q ELSE n.tables[p][j]
      <4>1. Empty[j] = NULL
        BY DEF Empty, Entries
      <4>2. CASE p = q
        BY <2>2, <3>2, <4>1, <4>2
      <4>3. CASE p # q /\ p = a
        BY <2>2, <3>1, <3>2, <4>3
      <4>4. CASE p # q /\ p # a
        BY <2>2, <3>2, <4>4
      <4> QED  BY <4>2, <4>3, <4>4
    <3> QED  BY <3>3, <3>4, <3>5
  <2>6. tb \in Tables
    <3>1. D \subseteq Memory
      BY <1>2, MachineIs, TablesFacts
    <3> HIDE DEF tb, D
    <3> QED  BY <2>2, <2>5, <3>1, TablesFacts
  <2>7. y = [tables |-> tb, used |-> new.used, last_index |-> new.last_index,
             at |-> q, panic |-> new.panic, fault |-> new.fault]
    <3>1. new = [tables |-> new.tables, used |-> new.used, last_index |-> new.last_index,
                 at |-> q, panic |-> new.panic, fault |-> new.fault]
      BY <2>3, MachineIs DEF q
    <3> QED  BY <2>1, <3>1
  <2> HIDE DEF tb
  <2>8. y \in Machines
    BY <2>2, <2>3, <2>6, <2>7, MachineIs DEF Machines
  <2>9. y.tables = tb /\ y.at = q /\ y.used = n.used \cup {q}
    BY <2>2, <2>7
  <2>10. /\ DOMAIN rl = D \cup {q} /\ rl[q] = Below(x, i)
         /\ \A p \in D : rl[p] = ql[p]
         /\ rl \in [D \cup {q} -> Places]
    <3>1. ql \in [D -> Places] /\ Below(x, i) \in Places
      BY <1>2, BelowIsPlace DEF Tree
    <3> HIDE DEF D
    <3> QED  BY <2>2, <3>1
  <2> HIDE DEF rl
  <2>11. Tree(tb, rl)
    <3> SUFFICES ASSUME NEW p \in D \cup {q}, NEW j \in Entries, rl[p].lev > 0, tb[p][j] # NULL
                 PROVE  tb[p][j] \in D \cup {q} /\ rl[tb[p][j]] = Below(rl[p], j)
      BY <2>5, <2>6, <2>10 DEF Tree
    <3>1. p # q /\ p \in D
      BY <2>5
    <3>2. CASE p = a /\ j = i
      BY <2>2, <2>5, <2>10, <3>1, <3>2
    <3>3. CASE ~ (p = a /\ j = i)
      <4>1. tb[p][j] = n.tables[p][j] /\ rl[p] = ql[p]
        BY <2>5, <2>10, <3>1, <3>3
      <4>2. tb[p][j] \in D /\ ql[tb[p][j]] = Below(ql[p], j)
        BY <1>2, <3>1, <4>1 DEF Tree
      <4> QED  BY <2>10, <4>1, <4>2
    <3> QED  BY <3>2, <3>3
  <2>12. From(n, ql, y, rl, space, W)
    <3>1. D \subseteq D \cup {q} /\ y.used = n.used \cup (D \cup {q}) /\ (D \cup {q}) \cap n.used \subseteq D
      BY <2>2, <2>9
    <3>2. ASSUME NEW p \in D, NEW j \in Entries, n.tables[p][j] # NULL
          PROVE  tb[p][j] = n.tables[p][j]
      <4>1. p # q /\ ~ (p = a /\ j = i)
        BY <1>7, <2>2, <3>2
      <4> QED  BY <2>5, <3>2, <4>1
    <3>3. ASSUME NEW p \in D \cup {q}, NEW j \in Entries
          PROVE  \/ p \in D /\ tb[p][j] = n.tables[p][j]
                 \/ p \notin D /\ tb[p][j] = NULL
                 \/ rl[p].lev > 0 /\ tb[p][j] \notin D
      <4>1. CASE p = q
        BY <2>2, <2>5, <4>1
      <4>2. CASE p # q /\ p = a /\ j = i
        <5>1. rl[p].lev > 0 /\ tb[p][j] = q
          BY <2>2, <2>5, <2>10, <4>2
        <5> QED  BY <2>2, <5>1
      <4>3. CASE p # q /\ ~ (p = a /\ j = i)
        BY <2>5, <4>3
      <4> QED  BY <4>1, <4>2, <4>3
    <3>4. DOMAIN tb = D \cup {q}
      BY <2>5
    <3> HIDE DEF D
    <3> QED  BY <2>8, <2>9, <2>10, <2>11, <3>1, <3>2, <3>3, <3>4 DEF From, D
  <2>13. y.tables[n.at][i] = q /\ y.at = q /\ q # NULL
    <3>1. tb[a][i] = q
      BY <2>2, <2>5
    <3> QED  BY <2>2, <2>9, <3>1, MemoryFacts DEF a
  <2> QED  BY <1>7, <2>12, <2>13
<1> QED  BY <1>3, <1>4, <1>6, <1>7

-----------------------------------------------------------------------------
\* The walk for v in a space has come from memory n down to a level in memory y.
Walked(n, ql, y, space, W, v, l) ==
    /\ \E rl : From(n, ql, y, rl, space, W)
    /\ ~ y.panic => ~ n.panic /\ y.at = TableAt(y.tables, space, v, l) /\ y.at # NULL

LEMMA PlaceAtIsPlace ==
    ASSUME NEW s \in Int, NEW v \in 0 .. VirtPages - 1, NEW l \in Levels
    PROVE  PlaceAt(s, v, l) \in Places
<1>1. v \in Nat /\ Span[l + 1] \in Nat /\ Span[l + 1] >= 1
  BY LevelFacts, SpanFacts DEF VirtPages
<1>2. v \div Span[l + 1] \in Nat
  <2> DEFINE a == Span[l + 1]
  <2>1. a \in Nat /\ a >= 1
    BY <1>1
  <2> HIDE DEF a
  <2>2. v \div a \in Nat
    BY <1>1, <2>1, Division
  <2> QED  BY <2>2 DEF a
<1> QED  BY <1>2, MemoryFacts DEF PlaceAt, Places

LEMMA WalkMakesTables ==
    ASSUME NEW n \in Machines, NEW ql, Tree(n.tables, ql), DOMAIN n.tables \subseteq n.used,
           NEW space \in DOMAIN n.tables, space \in Int, ql[space] = RootPlace(space),
           NEW W, NEW v \in 0 .. VirtPages - 1, NEW y, y = vmm_walk(n, space, v)
    PROVE  Walked(n, ql, y, space, W, v, 0)
<1> DEFINE L == limit_pml
           N == L - 1
           S == [j \in 0 .. N |-> {z \in Machines : Walked(n, ql, z, space, W, v, N - j)}]
           top == [n EXCEPT !.at = space]
           G(at) == [level \in 1 .. L |->
                        IF level = L THEN top
                        ELSE vmm_get_pml_alloc(at[level + 1], PMLX_GET_INDEX(v, level))]
           F == [j \in 1 .. N |-> [z \in S[j - 1] |-> vmm_get_pml_alloc(z, PMLX_GET_INDEX(v, L - j))]]
<1>1. L \in Nat /\ L >= 2 /\ N \in Nat /\ N >= 1
  BY LevelFacts
<1>2. top \in S[0]
  <2>2. top = [tables |-> n.tables, used |-> n.used, last_index |-> n.last_index,
               at |-> space, panic |-> n.panic, fault |-> n.fault]
    BY MachineIs
  <2>3. top \in Machines
    BY <2>2, MachineIs DEF Machines
  <2>4. top.at = space /\ top.tables = n.tables /\ top.used = n.used /\ top.panic = n.panic
    BY <2>2
  <2> HIDE DEF top
  <2>5. From(n, ql, top, ql, space, W)
    BY <2>3, <2>4, FromStart, FromSame
  <2>6. TableAt(n.tables, space, v, N) = space /\ N - 0 = N /\ 0 \in 0 .. N
    BY <1>1, WalkSteps
  <2>7. space # NULL
    BY MachineIs, TablesFacts, MemoryFacts
  <2>8. Walked(n, ql, top, space, W, v, N)
    BY <2>4, <2>5, <2>6, <2>7 DEF Walked
  <2> HIDE DEF N
  <2> QED  BY <2>3, <2>6, <2>8
<1>3. ASSUME NEW j \in 1 .. N, NEW z \in S[j - 1]
      PROVE  vmm_get_pml_alloc(z, PMLX_GET_INDEX(v, L - j)) \in S[j]
  <2> DEFINE i == PMLX_GET_INDEX(v, L - j)
             x == PlaceAt(space, v, L - j)
             w == vmm_get_pml_alloc(z, i)
  <2>1. j \in 0 .. N /\ j - 1 \in 0 .. N /\ N - (j - 1) = L - j /\ L - j \in 1 .. N /\ L - j \in Levels
        /\ N - j \in 0 .. L - 2 /\ N - j + 1 = L - j
    BY <1>1 DEF Levels
  <2>2. Walked(n, ql, z, space, W, v, L - j) /\ z \in Machines
    BY <2>1
  <2>3. i \in Entries /\ x \in Places
    BY <2>1, PlacesOnTheWay, PlaceAtIsPlace
  <2>4. x.lev > 0
    BY <2>1 DEF PlaceAt
  <2>5. PICK ul : From(n, ql, z, ul, space, W)
    BY <2>2 DEF Walked
  <2>6. /\ Tree(z.tables, ul) /\ DOMAIN z.tables \subseteq z.used
        /\ space \in DOMAIN z.tables /\ ul[space] = RootPlace(space)
    BY <2>5 DEF From
  <2>7. ~ z.panic => z.at \in DOMAIN z.tables /\ ul[z.at] = x
    BY <2>1, <2>2, <2>6, WalkEnds DEF Walked
  <2>8. i = PMLX_GET_INDEX(v, L - j) /\ w = vmm_get_pml_alloc(z, i)
    OBVIOUS
  <2> HIDE DEF x, i, N, w
  <2>9. PICK sl : /\ From(z, ul, w, sl, space, W)
                  /\ ~ w.panic => ~ z.panic /\ w.at = w.tables[z.at][i] /\ w.at # NULL
    <3>1. z \in Machines /\ Tree(z.tables, ul) /\ DOMAIN z.tables \subseteq z.used
      BY <2>2, <2>6
    <3>2. Stepped(z, ul, i, w, space, W)
      BY <2>3, <2>4, <2>7, <2>8, <3>1, EntryTable
    <3> QED  BY <3>2 DEF Stepped
  <2>10. From(n, ql, w, sl, space, W)
    BY <2>5, <2>9, FromTrans
  <2>11. /\ w \in Machines /\ Tree(w.tables, sl)
         /\ space \in DOMAIN w.tables /\ sl[space] = RootPlace(space)
    BY <2>10 DEF From
  <2>12. ASSUME ~ w.panic
         PROVE  ~ n.panic /\ w.at = TableAt(w.tables, space, v, N - j) /\ w.at # NULL
    <3>1. ~ z.panic /\ w.at = w.tables[z.at][i] /\ w.at # NULL
      BY <2>9, <2>12
    <3>2. ~ n.panic /\ z.at = TableAt(z.tables, space, v, L - j) /\ z.at # NULL
      BY <2>2, <3>1 DEF Walked
    <3>3. TableAt(w.tables, space, v, L - j) = z.at
      BY <2>1, <2>6, <2>9, <3>2, WalkStays
    <3>4. TableAt(w.tables, space, v, N - j) = w.tables[z.at][i]
      BY <2>1, <2>8, <2>11, <3>2, <3>3, WalkSteps
    <3> QED  BY <3>1, <3>2, <3>4
  <2>13. w \in S[j]
    BY <2>1, <2>10, <2>11, <2>12 DEF Walked
  <2> QED  BY <2>13 DEF w, i
<1>4. PICK f : Run(f, N, S, F, top)
  <2>1. \A j \in 1 .. N : \A z \in S[j - 1] : F[j][z] \in S[j]
    <3> HIDE DEF S
    <3> QED  BY <1>3
  <2> HIDE DEF N, S, F, top
  <2> QED  BY <1>1, <1>2, <2>1, RunExists
<1> DEFINE g == [level \in 1 .. L |-> f[L - level]]
<1> HIDE DEF top
<1>5. g = G(g)
  <2> SUFFICES ASSUME NEW l \in 1 .. L
               PROVE  f[L - l] = IF l = L THEN top
                        ELSE vmm_get_pml_alloc(g[l + 1], PMLX_GET_INDEX(v, l))
    OBVIOUS
  <2>1. CASE l = L
    <3>1. L - l = 0
      BY <1>1, <2>1
    <3> QED  BY <1>4, <2>1, <3>1 DEF Run
  <2>2. CASE l # L
    <3> DEFINE j == L - l
    <3>1. l + 1 \in 1 .. L /\ j \in 1 .. N /\ j - 1 \in 0 .. N /\ L - (l + 1) = j - 1 /\ L - j = l
      BY <1>1, <2>2
    <3>2. f[j] = F[j][f[j - 1]] /\ f[j - 1] \in S[j - 1]
      <4> HIDE DEF S, F, j, N
      <4> QED  BY <1>4, <3>1 DEF Run
    <3>3. g[l + 1] = f[j - 1]
      BY <3>1
    <3> HIDE DEF S, g
    <3> QED  BY <2>2, <3>1, <3>2, <3>3
  <2> QED  BY <2>1, <2>2
<1> DEFINE at == CHOOSE h : h = G(h)
<1>6. y = at[1]
  BY DEF vmm_walk, top
<1>7. at = G(at)
  <2>1. \E h : h = G(h)
    <3> HIDE DEF g, G
    <3> QED  BY <1>5
  <2> HIDE DEF G
  <2> QED  BY <2>1
<1> HIDE DEF at
<1> DEFINE u == [j \in 0 .. N |-> at[L - j]]
<1>8. u[0] \in S[0]
  <2>1. 0 \in 0 .. N /\ L \in 1 .. L /\ L - 0 = L
    BY <1>1
  <2>2. at[L] = top
    BY <1>7, <2>1
  <2> HIDE DEF S
  <2> QED  BY <1>2, <2>1, <2>2
<1>9. ASSUME NEW j \in 1 .. N, u[j - 1] \in S[j - 1]
      PROVE  u[j] \in S[j]
  <2> DEFINE l == L - j
  <2>1. l \in 1 .. L /\ l # L /\ l + 1 = L - (j - 1) /\ j \in 0 .. N /\ j - 1 \in 0 .. N
    BY <1>1
  <2>2. at[l] = vmm_get_pml_alloc(at[l + 1], PMLX_GET_INDEX(v, l))
    BY <1>7, <2>1
  <2>3. u[j] = at[l] /\ u[j - 1] = at[l + 1]
    BY <2>1
  <2> HIDE DEF S, u
  <2> QED  BY <1>3, <1>9, <2>2, <2>3
<1>10. u[N] \in S[N]
  <2>1. N \in 0 .. N
    BY <1>1
  <2> HIDE DEF u, S, N
  <2> QED  BY <1>1, <1>8, <1>9, <2>1, RunStays
<1>11. N \in 0 .. N /\ L - N = 1 /\ N - N = 0
  BY <1>1
<1> QED  BY <1>6, <1>10, <1>11

-----------------------------------------------------------------------------
LEMMA DivisionAtLeast ==
    ASSUME NEW x \in Int, NEW b \in Nat, b >= 1, NEW q \in Int, x >= q * b
    PROVE  x \div b \in Int /\ x \div b >= q
BY Z3

\* The tables from virt \div ENTRIES on, to the last that the range is in.
LEMMA RangeOfTables ==
    ASSUME NEW virt \in Nat, NEW n \in Nat
    PROVE  /\ virt \div ENTRIES \in Nat
           /\ (virt + n - 1) \div ENTRIES \in Int
           /\ (virt + n - 1) \div ENTRIES >= virt \div ENTRIES - 1
<1> DEFINE E == ENTRIES
           q == virt \div E
           x == virt + n - 1
<1>1. E \in Nat /\ E >= 1
  BY LevelFacts
<1> HIDE DEF E
<1>2. q \in Nat /\ virt % E \in 0 .. E - 1 /\ virt = q * E + (virt % E)
  BY ONLY <1>1, Division
<1> HIDE DEF q
<1>3. virt >= q * E
  BY ONLY <1>1, <1>2, Z3
<1>4. x \in Int /\ q - 1 \in Int
  BY <1>2
<1>5. x >= (q - 1) * E
  <2>1. (q - 1) * E = q * E - E /\ q * E \in Int
    BY ONLY <1>1, <1>2, Z3
  <2> QED  BY ONLY <1>1, <1>3, <1>2, <2>1
<1> HIDE DEF x
<1>6. x \div E \in Int /\ x \div E >= q - 1
  BY ONLY <1>1, <1>4, <1>5, DivisionAtLeast
<1> QED  BY <1>2, <1>6 DEF E, q, x

\* The entries of the table at the end of the walk change as W says.
LEMMA EntriesChange ==
    ASSUME NEW n \in Machines, NEW rl, Tree(n.tables, rl), DOMAIN n.tables \subseteq n.used,
           NEW space, NEW W, n.at \in DOMAIN n.tables, rl[n.at].lev = 0,
           NEW e \in [Entries -> Int],
           \A i \in Entries : e[i] = n.tables[n.at][i] \/ Writes(W, space, rl[n.at], i, e[i]),
           NEW y, y = [n EXCEPT !.tables[n.at] = e]
    PROVE  /\ From(n, rl, y, rl, space, W)
           /\ y.panic = n.panic /\ y.tables[n.at] = e
<1> DEFINE a == n.at
           D == DOMAIN n.tables
           tb == [n.tables EXCEPT ![a] = e]
<1>2. /\ n.tables \in Tables /\ D \subseteq Memory
      /\ n.tables = [p \in D |-> n.tables[p]] /\ \A p \in D : n.tables[p] \in [Entries -> Int]
  <2>1. n.tables \in Tables
    BY MachineIs
  <2> QED  BY <2>1, TablesFacts
<1>3. DOMAIN tb = D /\ tb = [p \in DOMAIN tb |-> tb[p]]
      /\ \A p \in D : tb[p] = IF p = a THEN e ELSE n.tables[p]
  BY <1>2
<1>4. y = [tables |-> tb, used |-> n.used, last_index |-> n.last_index,
           at |-> a, panic |-> n.panic, fault |-> n.fault]
  BY MachineIs
<1> HIDE DEF tb
<1>5. tb \in Tables
  <2>1. \A p \in D : tb[p] \in [Entries -> Int]
    BY <1>2, <1>3
  <2> HIDE DEF D
  <2> QED  BY <1>2, <1>3, <2>1, TablesFacts
<1>6. y \in Machines /\ y.tables = tb /\ y.used = n.used /\ y.panic = n.panic
  <2>1. y \in Machines
    BY <1>4, <1>5, MachineIs DEF Machines
  <2> QED  BY <1>4, <2>1
<1>7. Tree(tb, rl)
  <2> SUFFICES ASSUME NEW p \in D, NEW i \in Entries, rl[p].lev > 0, tb[p][i] # NULL
               PROVE  tb[p][i] \in D /\ rl[tb[p][i]] = Below(rl[p], i)
    BY <1>3, <1>5 DEF Tree
  <2>1. p # a
    <3>1. rl[a].lev = 0
      OBVIOUS
    <3> HIDE DEF a
    <3> QED  BY <3>1
  <2>2. tb[p] = n.tables[p]
    BY <1>3, <2>1
  <2> QED  BY <2>2 DEF Tree
<1>8. ASSUME NEW p \in D, NEW i \in Entries
      PROVE  /\ rl[p].lev > 0 => tb[p][i] = n.tables[p][i]
             /\ tb[p][i] = n.tables[p][i] \/ (rl[p].lev = 0 /\ Writes(W, space, rl[p], i, tb[p][i]))
  <2>1. CASE p = a
    <3>1. tb[p] = e
      BY <1>3, <2>1
    <3> QED  BY <2>1, <3>1
  <2>2. CASE p # a
    BY <1>3, <2>2
  <2> QED  BY <2>1, <2>2
<1>9. From(n, rl, y, rl, space, W)
  BY <1>3, <1>6, <1>7, <1>8 DEF From
<1> QED  BY <1>3, <1>6, <1>9

\* The addresses of the t-th table, after they have gone around.
LEMMA RangeAddress ==
    ASSUME NEW t \in Nat, NEW v, v = (t * ENTRIES) % VirtPages, NEW i \in Entries
    PROVE  /\ v \in 0 .. VirtPages - 1 /\ v + i \in 0 .. VirtPages - 1
           /\ (t * ENTRIES + i) % VirtPages = v + i
           /\ (v + i) \div ENTRIES = v \div ENTRIES
           /\ (v + i) % ENTRIES = i
<1> DEFINE E == ENTRIES
           a == Span[limit_pml - 1]
           q == t \div a
           r == t % a
           V == VirtPages
<1>1. a \in Nat /\ a >= 1 /\ E \in Nat /\ E >= 1 /\ V = E * a
  <2>1. limit_pml - 1 \in 0 .. limit_pml /\ limit_pml \in 1 .. limit_pml
    BY LevelFacts
  <2> QED  BY <2>1, SpanFacts, LevelFacts DEF VirtPages
<1>2. i \in 0 .. E - 1
  BY DEF Entries
<1> HIDE DEF a, E, V
<1>3. q \in Nat /\ r \in 0 .. a - 1 /\ t = q * a + r
  BY ONLY <1>1, Division
<1> HIDE DEF q, r
<1>4. r \in Nat /\ r + 1 <= a
  BY <1>1, <1>3
<1>5. (r + 1) * E <= E * a
  BY ONLY <1>1, <1>4, Z3
<1>6. (r + 1) * E = r * E + E /\ r * E \in Nat
  BY ONLY <1>1, <1>4, Z3
<1>7. t * E = q * V + r * E
  BY ONLY <1>1, <1>3, <1>4, Z3
<1>8. V \in Nat /\ q * V \in Nat
  BY ONLY <1>1, <1>3, Z3
<1>9. r * E \in 0 .. V - 1 /\ r * E + i \in 0 .. V - 1
  BY ONLY <1>1, <1>2, <1>5, <1>6, <1>8
<1>10. (q * V + r * E) % V = r * E /\ (q * V + (r * E + i)) % V = r * E + i
  <2>1. q \in Int
    BY <1>3
  <2> DEFINE x == r * E
  <2>2. x \in 0 .. V - 1 /\ x + i \in 0 .. V - 1
    BY <1>9
  <2> HIDE DEF x
  <2>3. (q * V + x) % V = x /\ (q * V + (x + i)) % V = x + i
    BY ONLY <1>8, <2>1, <2>2, DivisionBack
  <2> QED  BY <2>3 DEF x
<1>11. v = r * E
  BY <1>7, <1>10 DEF E, V
<1>12. (t * E + i) % V = v + i
  <2>1. t * E + i = q * V + (r * E + i)
    <3> DEFINE x == r * E
               z == q * V
    <3>1. x \in Nat /\ z \in Nat /\ i \in Int /\ t * E = z + x
      BY <1>2, <1>6, <1>7, <1>8
    <3> HIDE DEF x, z
    <3>2. t * E + i = z + (x + i)
      BY <3>1
    <3> QED  BY <3>2 DEF x, z
  <2> QED  BY <1>10, <1>11, <2>1
<1>13. (r * E + i) \div E = r /\ (r * E + i) % E = i /\ (r * E + 0) \div E = r
  BY ONLY <1>1, <1>2, <1>4, DivisionBack
<1>14. r * E + 0 = r * E
  BY <1>6
<1> QED  BY <1>9, <1>11, <1>12, <1>13, <1>14 DEF E, V

LEMMA DivisionMonotone ==
    ASSUME NEW x \in Int, NEW y \in Int, x <= y, NEW b \in Nat, b >= 1
    PROVE  x \div b <= y \div b /\ x \div b \in Int /\ y \div b \in Int
BY Z3

\* Two addresses of a range are not the same unless it goes all around.
LEMMA RangeApart ==
    ASSUME NEW x \in Nat, NEW y \in Nat, NEW V \in Nat, V >= 1, x % V = y % V,
           x - y < V, y - x < V
    PROVE  x = y
<1>1. x = (x \div V) * V + (x % V) /\ y = (y \div V) * V + (y % V)
      /\ x \div V \in Nat /\ y \div V \in Nat /\ x % V \in Nat /\ y % V \in Nat
  <2>1. \A z \in Nat : z \div V \in Nat /\ z % V \in 0 .. V - 1 /\ z = (z \div V) * V + (z % V)
    BY ONLY V \in Nat, V >= 1, Division
  <2> QED  BY <2>1
<1> DEFINE p == x \div V
           q == y \div V
           r == y % V
<1>2. x = p * V + r /\ y = q * V + r /\ p \in Nat /\ q \in Nat /\ r \in Nat
  BY <1>1
<1> HIDE DEF p, q, r
<1>3. x - y = (p - q) * V /\ y - x = (q - p) * V
  BY ONLY <1>2, Z3
<1>4. ~ (p - q >= 1) /\ ~ (q - p >= 1)
  <2>1. ASSUME NEW d \in Int, d >= 1, d * V < V
        PROVE  FALSE
    BY ONLY <2>1, Z3
  <2> QED  BY <1>2, <1>3, <2>1
<1>5. p = q
  BY <1>2, <1>4
<1> QED  BY <1>2, <1>5

\* The addresses and pages of a range.
Moves(virt, phys, k) == {<<(virt + j) % VirtPages, phys + j>> : j \in 0 .. k - 1}

\* Each of the addresses means its page.
Means(tb, space, virt, phys, k) ==
    \A j \in 0 .. k - 1 : Translate(tb, space, (virt + j) % VirtPages) = phys + j

\* Mapping a range of pages in a space.  Each of its addresses comes to mean its
\* page, if the range does not go all around.
LEMMA MapRange ==
    ASSUME NEW n \in Machines, NEW ql, Tree(n.tables, ql), DOMAIN n.tables \subseteq n.used,
           NEW space \in DOMAIN n.tables, space \in Int, ql[space] = RootPlace(space),
           NEW virt \in Nat, NEW phys \in Int, NEW k \in Nat,
           NEW y, y = vmm_map_range(n, space, virt, phys, k)
    PROVE  /\ \E rl : From(n, ql, y, rl, space, Moves(virt, phys, k))
           /\ ~ y.panic => ~ n.panic
           /\ ~ y.panic /\ k <= VirtPages => Means(y.tables, space, virt, phys, k)
<1> DEFINE first == virt \div ENTRIES
           last == (virt + k - 1) \div ENTRIES
           N == last - (first - 1)
           W == Moves(virt, phys, k)
           Virtuals == virt .. virt + k - 1
           Done(z, t) == \A x \in Virtuals : x \div ENTRIES <= t =>
                            Translate(z.tables, space, x % VirtPages) = phys + x - virt
           All(t) == {z \in Machines :
                         /\ \E rl : From(n, ql, z, rl, space, W)
                         /\ ~ z.panic => ~ n.panic
                         /\ ~ z.panic /\ k <= VirtPages => Done(z, t)}
           Filled(walk, t) == Mapped(walk, t, virt, phys, k)
           Pass(z, t) == Filled(vmm_walk(z, space, (t * ENTRIES) % VirtPages), t)
           G(mapped) == [t \in first - 1 .. last |->
                            IF t < first THEN n ELSE Pass(mapped[t - 1], t)]
           S == [j \in 0 .. N |-> All(first - 1 + j)]
           F == [j \in 1 .. N |-> [z \in S[j - 1] |-> Pass(z, first - 1 + j)]]
<1>1. first \in Nat /\ last \in Int /\ N \in Nat
  <2>1. first \in Nat /\ last \in Int /\ last >= first - 1
    BY RangeOfTables
  <2> HIDE DEF first, last
  <2> QED  BY <2>1
<1>20. \A x \in Virtuals : /\ x \in Nat /\ x % VirtPages \in 0 .. VirtPages - 1
                       /\ x \div ENTRIES >= first /\ x \div ENTRIES <= last
                       /\ x \div ENTRIES \in Nat
  <2> SUFFICES ASSUME NEW x \in Virtuals
               PROVE  /\ x \in Nat /\ x % VirtPages \in 0 .. VirtPages - 1
                      /\ x \div ENTRIES >= first /\ x \div ENTRIES <= last
                      /\ x \div ENTRIES \in Nat
    OBVIOUS
  <2> DEFINE b == VirtPages
             E == ENTRIES
             z == virt + k - 1
  <2>1. b \in Nat /\ b >= 1 /\ E \in Nat /\ E >= 1
    BY SpanFacts, LevelFacts DEF VirtPages
  <2>2. x \in Nat /\ virt <= x /\ x <= z /\ z \in Int /\ x \in Int /\ virt \in Int
    OBVIOUS
  <2> HIDE DEF b, E, z
  <2>3. x % b \in 0 .. b - 1 /\ x \div E \in Nat
    BY ONLY <2>1, <2>2, Division
  <2>4. virt \div E <= x \div E /\ x \div E <= z \div E
    BY ONLY <2>1, <2>2, DivisionMonotone
  <2>5. virt \div E \in Nat
    BY ONLY <2>1, virt \in Nat, Division
  <2> QED  BY <2>2, <2>3, <2>4, <2>5 DEF b, E, z
<1>21. ASSUME NEW v, NEW x, <<v, x>> \in W, NEW w \in Virtuals, v = w % VirtPages, k <= VirtPages
       PROVE  x = phys + w - virt
  <2>1. PICK j \in 0 .. k - 1 : <<v, x>> = <<(virt + j) % VirtPages, phys + j>>
    BY <1>21 DEF Moves
  <2> DEFINE b == VirtPages
             u == virt + j
  <2>2. b \in Nat /\ b >= 1 /\ u \in Nat /\ w \in Nat /\ u - w < b /\ w - u < b
    <3>1. b \in Nat /\ b >= 1
      BY SpanFacts, LevelFacts DEF VirtPages
    <3>2. k <= b
      BY <1>21
    <3> HIDE DEF b
    <3> QED  BY <3>1, <3>2
  <2>3. u % b = w % b
    BY <1>21, <2>1
  <2> HIDE DEF b, u
  <2>4. u = w
    BY ONLY <2>2, <2>3, RangeApart
  <2>5. x = phys + j /\ w = virt + j
    BY <2>1, <2>4 DEF u
  <2> QED  BY <2>5
<1> HIDE DEF W
<1>2. n \in All(first - 1)
  <2>1. From(n, ql, n, ql, space, W)
    BY FromStart
  <2>2. Done(n, first - 1)
    <3> SUFFICES ASSUME NEW x \in Virtuals, x \div ENTRIES <= first - 1
                 PROVE  FALSE
      OBVIOUS
    <3> DEFINE q == x \div ENTRIES
    <3>1. q >= first /\ q \in Nat /\ q <= first - 1
      BY <1>20
    <3> HIDE DEF first, q
    <3> QED  BY <1>1, <3>1
  <2> HIDE DEF Done
  <2> QED  BY <2>1, <2>2
<1>3. ASSUME NEW t \in Nat, NEW z \in All(t - 1)
      PROVE  Pass(z, t) \in All(t)
  <2> DEFINE v == (t * ENTRIES) % VirtPages
             w == vmm_walk(z, space, v)
             a == w.at
             e == [i \in Entries |->
                     IF t * ENTRIES + i \in virt .. virt + k - 1 THEN phys + (t * ENTRIES + i) - virt
                     ELSE w.tables[a][i]]
  <2>1. /\ v \in 0 .. VirtPages - 1
        /\ \A i \in Entries : /\ v + i \in 0 .. VirtPages - 1
                              /\ (t * ENTRIES + i) % VirtPages = v + i
                              /\ (v + i) \div ENTRIES = v \div ENTRIES
                              /\ (v + i) % ENTRIES = i
    <3>1. 0 \in Entries
      BY LevelFacts DEF Entries
    <3> DEFINE u == v
    <3>2. u = (t * ENTRIES) % VirtPages
      OBVIOUS
    <3> HIDE DEF u
    <3>3. /\ u \in 0 .. VirtPages - 1
          /\ \A i \in Entries : /\ u + i \in 0 .. VirtPages - 1
                                /\ (t * ENTRIES + i) % VirtPages = u + i
                                /\ (u + i) \div ENTRIES = u \div ENTRIES
                                /\ (u + i) % ENTRIES = i
      BY <3>1, <3>2, RangeAddress
    <3> QED  BY <3>3 DEF u
  <2> HIDE DEF v
  <2>2. PICK ul : From(n, ql, z, ul, space, W)
    OBVIOUS
  <2>3. /\ z \in Machines /\ Tree(z.tables, ul) /\ DOMAIN z.tables \subseteq z.used
        /\ space \in DOMAIN z.tables /\ ul[space] = RootPlace(space)
    BY <2>2 DEF From
  <2>4. /\ ~ z.panic => ~ n.panic
        /\ ~ z.panic /\ k <= VirtPages => Done(z, t - 1)
    OBVIOUS
  <2>5. Walked(z, ul, w, space, W, v, 0)
    BY <2>1, <2>3, WalkMakesTables
  <2>6. Pass(z, t) = Filled(w, t)
    BY DEF v, w
  <2> HIDE DEF w, All, Pass, Done
  <2>7. PICK rl : From(z, ul, w, rl, space, W)
    BY <2>5 DEF Walked
  <2>8. /\ w \in Machines /\ Tree(w.tables, rl) /\ DOMAIN w.tables \subseteq w.used
        /\ space \in DOMAIN w.tables /\ rl[space] = RootPlace(space)
    BY <2>3, <2>7 DEF From
  <2>9. CASE w.panic
    <3>1. Filled(w, t) = w
      BY <2>9 DEF Mapped
    <3>2. From(n, ql, w, rl, space, W)
      BY <2>2, <2>7, FromTrans
    <3>3. w \in All(t)
      BY <2>8, <2>9, <3>2 DEF All
    <3> QED  BY <2>6, <3>1, <3>3
  <2>10. CASE ~ w.panic
    <3>1. ~ z.panic /\ a = TableAt(w.tables, space, v, 0) /\ a # NULL
      BY <2>5, <2>10 DEF Walked
    <3>2. a \in DOMAIN w.tables /\ rl[a] = PlaceAt(space, v, 0)
      <4> HIDE DEF a
      <4> QED  BY <2>1, <2>8, <3>1, WalkEnds, LevelFacts
    <3>3. w.tables[a] \in [Entries -> Int]
      BY <2>8, <3>2, MachineIs, TablesFacts
    <3>4. Filled(w, t) = [w EXCEPT !.tables[a] = e]
      <4>1. DOMAIN w.tables[a] = Entries
        BY <3>3
      <4> QED  BY <2>8, <2>10, <3>2, <4>1 DEF Mapped
    <3>5. \A i \in Entries : t * ENTRIES + i \in Nat /\ i \in Nat
      <4> SUFFICES ASSUME NEW i \in Entries
                   PROVE  t * ENTRIES + i \in Nat /\ i \in Nat
        OBVIOUS
      <4>1. t \in Nat /\ ENTRIES \in Nat /\ i \in Nat
        BY LevelFacts DEF Entries
      <4> QED  BY ONLY <4>1, Z3
    <3>6. ASSUME NEW i \in Entries
          PROVE  /\ e[i] \in Int
                 /\ e[i] = w.tables[a][i] \/ Writes(W, space, rl[a], i, e[i])
      <4> DEFINE x == t * ENTRIES + i
      <4>1. x \in Nat /\ x % VirtPages = v + i /\ v + i \in 0 .. VirtPages - 1
        BY <2>1, <3>5
      <4>2. e[i] = IF x \in virt .. virt + k - 1 THEN phys + x - virt ELSE w.tables[a][i]
        OBVIOUS
      <4> HIDE DEF x, e, a
      <4>3. CASE x \in virt .. virt + k - 1
        <5> DEFINE j == x - virt
        <5>1. j \in 0 .. k - 1 /\ virt + j = x /\ e[i] = phys + j
          BY <4>1, <4>2, <4>3
        <5>2. <<v + i, e[i]>> \in W
          BY <4>1, <5>1 DEF W, Moves
        <5>3. PlaceAt(space, v + i, 0) = PlaceAt(space, v, 0) /\ i = PMLX_GET_INDEX(v + i, 0)
          <6>1. (v + i) \div ENTRIES = v \div ENTRIES /\ (v + i) % ENTRIES = i
            BY <2>1
          <6>2. Shared(v + i) <=> Shared(v)
            BY <2>1, <6>1, AddressParts
          <6> QED  BY <2>1, <6>1, <6>2, AddressParts
        <5>4. Writes(W, space, rl[a], i, e[i])
          BY <3>2, <4>1, <5>2, <5>3 DEF Writes
        <5>5. e[i] \in Int
          BY <5>1
        <5> QED  BY <5>4, <5>5
      <4>4. CASE ~ (x \in virt .. virt + k - 1)
        BY <3>3, <4>2, <4>4
      <4> QED  BY <4>3, <4>4
    <3>7. e \in [Entries -> Int]
      <4>1. e = [i \in Entries |-> e[i]]
        OBVIOUS
      <4> HIDE DEF e
      <4> QED  BY <3>6, <4>1
    <3>8. rl[a].lev = 0
      BY <3>2 DEF PlaceAt
    <3>9. \A i \in Entries : t * ENTRIES + i \in Virtuals => e[i] = phys + (t * ENTRIES + i) - virt
      OBVIOUS
    <3> HIDE DEF e, Filled
    <3> DEFINE x == Filled(w, t)
    <3>10. x = [w EXCEPT !.tables[w.at] = e]
      BY <3>4
    <3> HIDE DEF x
    <3>11. From(w, rl, x, rl, space, W) /\ x.panic = w.panic /\ x.tables[a] = e
      BY <2>8, <3>2, <3>6, <3>7, <3>8, <3>10, EntriesChange
    <3>12. From(z, ul, x, rl, space, W)
      BY <2>7, <3>11, FromTrans
    <3>13. From(n, ql, x, rl, space, W)
      BY <2>2, <3>12, FromTrans
    <3>14. x \in Machines /\ Tree(x.tables, rl) /\ space \in DOMAIN x.tables
      BY <2>8, <3>11 DEF From
    <3>15. TableAt(x.tables, space, v, 0) = a
      <4> DEFINE l == 0
      <4>1. l \in Levels /\ v \in 0 .. VirtPages - 1
        BY <2>1, LevelFacts DEF Levels
      <4> HIDE DEF a, l
      <4>2. TableAt(w.tables, space, v, l) # NULL =>
               TableAt(x.tables, space, v, l) = TableAt(w.tables, space, v, l)
        BY ONLY <2>8, <3>11, <4>1, space \in Int, WalkStays
      <4> QED  BY <3>1, <4>2 DEF l
    <3>16. ASSUME k <= VirtPages
           PROVE  Done(x, t)
      <4> SUFFICES ASSUME NEW u \in Virtuals, u \div ENTRIES <= t
                   PROVE  Translate(x.tables, space, u % VirtPages) = phys + u - virt
        BY DEF Done
      <4>1. u \in Nat /\ u % VirtPages \in 0 .. VirtPages - 1 /\ u \div ENTRIES \in Nat
        BY <1>20
      <4>2. CASE u \div ENTRIES <= t - 1
        <5>1. Translate(z.tables, space, u % VirtPages) = phys + u - virt
          BY <2>4, <3>1, <3>16, <4>2 DEF Done
        <5>2. \/ Translate(x.tables, space, u % VirtPages) = Translate(z.tables, space, u % VirtPages)
              \/ <<u % VirtPages, Translate(x.tables, space, u % VirtPages)>> \in W
          <6> DEFINE c == u % VirtPages
          <6>1. c \in 0 .. VirtPages - 1
            BY <4>1
          <6> HIDE DEF c
          <6>2. \/ Translate(x.tables, space, c) = Translate(z.tables, space, c)
                \/ <<c, Translate(x.tables, space, c)>> \in W
            BY ONLY <2>3, <3>12, <6>1, space \in Int, Translated
          <6> QED  BY <6>2 DEF c
        <5> QED  BY <1>21, <3>16, <5>1, <5>2
      <4>3. CASE ~ (u \div ENTRIES <= t - 1)
        <5> DEFINE i == u % ENTRIES
                   q == u \div ENTRIES
        <5>1. i \in Entries /\ u = q * ENTRIES + i
          <6> DEFINE E == ENTRIES
          <6>1. E \in Nat /\ E >= 1
            BY LevelFacts
          <6>2. Entries = 0 .. E - 1
            BY DEF Entries
          <6> HIDE DEF E
          <6>3. u % E \in 0 .. E - 1 /\ u = (u \div E) * E + (u % E)
            BY ONLY <4>1, <6>1, Division
          <6> QED  BY <6>2, <6>3 DEF E
        <5> HIDE DEF q
        <5>2. q = t
          BY <4>1, <4>3 DEF q
        <5> HIDE DEF i
        <5>3. u % VirtPages = v + i /\ v + i \in 0 .. VirtPages - 1
              /\ (v + i) \div ENTRIES = v \div ENTRIES /\ (v + i) % ENTRIES = i
          BY <2>1, <5>1, <5>2
        <5>4. TableAt(x.tables, space, v + i, 0) = a
          BY <2>1, <3>11, <3>14, <2>8, <3>15, <5>3, SameRegion
        <5>5. PMLX_GET_INDEX(v + i, 0) = i
          BY <5>3, AddressParts
        <5>6. Translate(x.tables, space, v + i) = e[i]
          BY <3>1, <3>11, <5>4, <5>5 DEF Translate
        <5>7. e[i] = phys + u - virt
          BY <3>9, <5>1, <5>2
        <5> QED  BY <5>3, <5>6, <5>7
      <4> QED  BY <4>2, <4>3
    <3>17. x \in All(t)
      BY <2>4, <2>10, <3>1, <3>13, <3>14, <3>16 DEF All
    <3> QED  BY <2>6, <3>17 DEF x
  <2> QED  BY <2>9, <2>10
<1> HIDE DEF All, Pass
<1>4. PICK f : Run(f, N, S, F, n)
  <2>1. n \in S[0]
    <3>1. 0 \in 0 .. N /\ first - 1 + 0 = first - 1
      <4> HIDE DEF first, last
      <4> QED  BY <1>1
    <3>2. S[0] = All(first - 1 + 0)
      BY <3>1
    <3> QED  BY <1>2, <3>1, <3>2
  <2>3. \A j \in 1 .. N : j \in 0 .. N /\ j - 1 \in 0 .. N /\ first - 1 + j \in Nat
    <3> HIDE DEF first, last
    <3> QED  BY <1>1
  <2>2. \A j \in 1 .. N : \A z \in S[j - 1] : F[j][z] \in S[j]
    <3> SUFFICES ASSUME NEW j \in 1 .. N, NEW z \in S[j - 1]
                 PROVE  F[j][z] \in S[j]
      OBVIOUS
    <3> DEFINE t == first - 1 + j
    <3>1. j \in 0 .. N /\ j - 1 \in 0 .. N /\ t \in Nat
      BY <2>3
    <3>2. t - 1 = first - 1 + (j - 1)
      <4> HIDE DEF first, last
      <4> QED  BY <1>1
    <3>3. S[j - 1] = All(first - 1 + (j - 1)) /\ S[j] = All(t)
      BY <3>1
    <3>4. z \in All(t - 1)
      BY <3>2, <3>3
    <3>5. F[j][z] = Pass(z, t)
      OBVIOUS
    <3> HIDE DEF S, F, t
    <3> QED  BY <1>3, <3>1, <3>3, <3>4, <3>5
  <2> HIDE DEF N, S, F
  <2> QED  BY <1>1, <2>1, <2>2, RunExists
<1> DEFINE g == [t \in first - 1 .. last |-> f[t - (first - 1)]]
<1> HIDE DEF first, last
<1>5. g = G(g)
  <2> SUFFICES ASSUME NEW t \in first - 1 .. last
               PROVE  f[t - (first - 1)] = IF t < first THEN n ELSE Pass(g[t - 1], t)
    OBVIOUS
  <2>1. CASE t < first
    <3>1. t - (first - 1) = 0
      BY <1>1, <2>1
    <3> QED  BY <1>4, <2>1, <3>1 DEF Run
  <2>2. CASE ~ (t < first)
    <3> DEFINE j == t - (first - 1)
    <3>1. t - 1 \in first - 1 .. last /\ j \in 1 .. N /\ j - 1 \in 0 .. N /\ t - 1 - (first - 1) = j - 1
          /\ first - 1 + j = t
      BY <1>1, <2>2
    <3>2. f[j] = F[j][f[j - 1]] /\ f[j - 1] \in S[j - 1]
      <4> HIDE DEF S, F, j, N
      <4> QED  BY <1>4, <3>1 DEF Run
    <3>3. g[t - 1] = f[j - 1]
      BY <3>1
    <3>4. F[j] = [z \in S[j - 1] |-> Pass(z, first - 1 + j)]
      BY <3>1
    <3>5. F[j][f[j - 1]] = Pass(f[j - 1], first - 1 + j)
      <4> HIDE DEF S, F, j
      <4> QED  BY <3>2, <3>4
    <3> HIDE DEF g, F, S
    <3> QED  BY <2>2, <3>1, <3>2, <3>3, <3>5
  <2> QED  BY <2>1, <2>2
<1> DEFINE mapped == CHOOSE h : h = G(h)
<1>6. y = mapped[last]
  BY Zenon DEF vmm_map_range, Pass, first, last
<1>7. mapped = G(mapped)
  <2>1. \E h : h = G(h)
    <3> HIDE DEF g, G
    <3> QED  BY <1>5
  <2> HIDE DEF G
  <2> QED  BY <2>1
<1> HIDE DEF mapped
<1> DEFINE u == [j \in 0 .. N |-> mapped[first - 1 + j]]
<1>8. u[0] \in S[0]
  <2>1. 0 \in 0 .. N /\ first - 1 \in first - 1 .. last /\ first - 1 + 0 = first - 1 /\ first - 1 < first
    BY <1>1
  <2>2. mapped[first - 1] = n
    BY <1>7, <2>1
  <2>3. S[0] = All(first - 1) /\ u[0] = mapped[first - 1]
    BY <2>1
  <2> QED  BY <1>2, <2>2, <2>3
<1>9. ASSUME NEW j \in 1 .. N, u[j - 1] \in S[j - 1]
      PROVE  u[j] \in S[j]
  <2> DEFINE t == first - 1 + j
  <2>1. t \in first - 1 .. last /\ ~ (t < first) /\ t - 1 = first - 1 + (j - 1) /\ j \in 0 .. N /\ j - 1 \in 0 .. N /\ t \in Nat
    BY <1>1
  <2>2. mapped[t] = Pass(mapped[t - 1], t)
    BY <1>7, <2>1
  <2>3. u[j] = mapped[t] /\ u[j - 1] = mapped[t - 1]
    BY <2>1
  <2>4. S[j - 1] = All(t - 1) /\ S[j] = All(t)
    BY <2>1
  <2> HIDE DEF u, S, t
  <2> QED  BY <1>3, <1>9, <2>1, <2>2, <2>3, <2>4
<1>10. u[N] \in S[N]
  <2>1. N \in 0 .. N
    BY <1>1
  <2> HIDE DEF u, S, N
  <2> QED  BY <1>1, <1>8, <1>9, <2>1, RunStays
<1>11. N \in 0 .. N /\ first - 1 + N = last
  BY <1>1
<1>12. y \in All(last)
  <2>1. S[N] = All(last) /\ u[N] = mapped[last]
    BY <1>11
  <2> QED  BY <1>6, <1>10, <2>1
<1>13. /\ \E rl : From(n, ql, y, rl, space, W)
       /\ ~ y.panic => ~ n.panic
       /\ ~ y.panic /\ k <= VirtPages => Done(y, last)
  <2> HIDE DEF Done
  <2> QED  BY <1>12 DEF All
<1>14. ASSUME ~ y.panic, k <= VirtPages, NEW j \in 0 .. k - 1
       PROVE  Translate(y.tables, space, (virt + j) % VirtPages) = phys + j
  <2> DEFINE x == virt + j
  <2>1. x \in Virtuals /\ phys + x - virt = phys + j
    OBVIOUS
  <2>2. x \div ENTRIES <= last
    BY <1>20, <2>1
  <2>3. Translate(y.tables, space, x % VirtPages) = phys + x - virt
    BY <1>13, <1>14, <2>1, <2>2
  <2> QED  BY <2>1, <2>3
<1>15. ~ y.panic /\ k <= VirtPages => Means(y.tables, space, virt, phys, k)
  BY <1>14 DEF Means
<1> QED  BY <1>13, <1>15 DEF W

-----------------------------------------------------------------------------
Ranges == [base : Nat, pages : Nat]
PagesOf(rs) == UNION {Pages(r) : r \in rs}

\* The table x has page `phys' in entry i since a message has named it.
Called(x, i, phys) == phys = x.pre * ENTRIES + i /\ phys \in PagesOf(Named)

\* An entry of a last table that is no part of what all spaces share, and that
\* no message has named.
Leaf(tb, pl, p, i) ==
    /\ p \in DOMAIN tb /\ i \in Entries /\ pl[p].lev = 0 /\ pl[p].own # kernel_pml
    /\ tb[p][i] # NULL /\ ~ Called(pl[p], i, tb[p][i])

\* What makes the spaces separate: their entries hold pages that are in use,
\* but not as tables or by the heap, and two spaces have no page in common
\* unless it is shared.  Tables, blocks and shared memory keep apart.
Apart(tb, us, pl, bl, sh) ==
    /\ Tree(tb, pl)
    /\ DOMAIN tb \subseteq us
    /\ bl \subseteq Ranges /\ sh \subseteq Ranges
    /\ PagesOf(sh) \subseteq us \ DOMAIN tb
    /\ \A b \in bl : Pages(b) \subseteq us \ DOMAIN tb /\ Pages(b) \cap PagesOf(sh) = {}
    /\ \A b, c \in bl : b # c => Pages(b) \cap Pages(c) = {}
    /\ \A p, i : Leaf(tb, pl, p, i) =>
          tb[p][i] \in us \ DOMAIN tb /\ \A b \in bl : tb[p][i] \notin Pages(b)
    /\ \A p, i, q, j :
          Leaf(tb, pl, p, i) /\ Leaf(tb, pl, q, j) /\ pl[p].own # pl[q].own /\ tb[p][i] = tb[q][j] =>
              tb[p][i] \in PagesOf(sh)

\* Memory n has come of memory m by calls that map the pages R in a space, and
\* may have allocated them.
Grown(m, pl, n, rl, space, R) ==
    /\ n \in Machines
    /\ Tree(n.tables, rl)
    /\ DOMAIN m.tables \subseteq DOMAIN n.tables
    /\ \A p \in DOMAIN m.tables : rl[p] = pl[p]
    /\ m.used \cup DOMAIN n.tables \cup R \subseteq n.used
    /\ DOMAIN n.tables \cap m.used \subseteq DOMAIN m.tables
    /\ R \cap DOMAIN n.tables = {}
    /\ \A p, i : Leaf(n.tables, rl, p, i) =>
          \/ p \in DOMAIN m.tables /\ m.tables[p][i] = n.tables[p][i]
          \/ rl[p].own = space /\ n.tables[p][i] \in R

\* An entry that the call has not changed was one before.
LEMMA OldLeaf ==
    ASSUME NEW m, NEW pl, NEW n, NEW rl, NEW space, NEW R, Grown(m, pl, n, rl, space, R),
           NEW p, NEW i, Leaf(n.tables, rl, p, i),
           ~ (rl[p].own = space /\ n.tables[p][i] \in R)
    PROVE  Leaf(m.tables, pl, p, i) /\ m.tables[p][i] = n.tables[p][i] /\ rl[p] = pl[p]
BY DEF Grown, Leaf

\* Mapping pages that were free, or that are shared, keeps the spaces apart.
LEMMA ApartAfter ==
    ASSUME NEW m, NEW pl, NEW bl, NEW sh, Apart(m.tables, m.used, pl, bl, sh),
           NEW n, NEW rl, NEW space, NEW R, Grown(m, pl, n, rl, space, R),
           R \cap m.used \subseteq PagesOf(sh)
    PROVE  Apart(n.tables, n.used, rl, bl, sh)
<1> DEFINE new(p, i) == rl[p].own = space /\ n.tables[p][i] \in R
<1>1. Tree(n.tables, rl) /\ DOMAIN n.tables \subseteq n.used /\ bl \subseteq Ranges /\ sh \subseteq Ranges
  BY DEF Apart, Grown
<1>2. PagesOf(sh) \subseteq n.used \ DOMAIN n.tables
  BY DEF Apart, Grown
<1>3. \A b \in bl : Pages(b) \subseteq n.used \ DOMAIN n.tables /\ Pages(b) \cap PagesOf(sh) = {}
  BY DEF Apart, Grown
<1>4. \A b, c \in bl : b # c => Pages(b) \cap Pages(c) = {}
  BY DEF Apart
<1>5. ASSUME NEW p, NEW i, Leaf(n.tables, rl, p, i)
      PROVE  n.tables[p][i] \in n.used \ DOMAIN n.tables /\ \A b \in bl : n.tables[p][i] \notin Pages(b)
  <2>1. CASE new(p, i)
    BY <2>1 DEF Grown, Apart
  <2>2. CASE ~ new(p, i)
    <3>1. Leaf(m.tables, pl, p, i) /\ m.tables[p][i] = n.tables[p][i]
      BY <1>5, <2>2, OldLeaf
    <3> QED  BY <3>1 DEF Grown, Apart
  <2> QED  BY <2>1, <2>2
<1>6. ASSUME NEW p, NEW i, NEW q, NEW j, Leaf(n.tables, rl, p, i), Leaf(n.tables, rl, q, j),
             rl[p].own # rl[q].own, n.tables[p][i] = n.tables[q][j]
      PROVE  n.tables[p][i] \in PagesOf(sh)
  <2>1. ASSUME NEW x, NEW y, new(x, y), NEW z, NEW w, Leaf(n.tables, rl, z, w), ~ new(z, w),
               n.tables[x][y] = n.tables[z][w]
        PROVE  n.tables[x][y] \in PagesOf(sh)
    <3>1. Leaf(m.tables, pl, z, w) /\ m.tables[z][w] = n.tables[z][w]
      BY <2>1, OldLeaf
    <3>2. n.tables[z][w] \in m.used
      BY <3>1 DEF Apart
    <3> QED  BY <2>1, <3>2
  <2>2. ~ (new(p, i) /\ new(q, j))
    BY <1>6
  <2>3. CASE ~ new(p, i) /\ ~ new(q, j)
    <3>1. Leaf(m.tables, pl, p, i) /\ m.tables[p][i] = n.tables[p][i] /\ rl[p] = pl[p]
      BY <1>6, <2>3, OldLeaf
    <3>2. Leaf(m.tables, pl, q, j) /\ m.tables[q][j] = n.tables[q][j] /\ rl[q] = pl[q]
      BY <1>6, <2>3, OldLeaf
    <3> QED  BY <1>6, <3>1, <3>2 DEF Apart
  <2> HIDE DEF new
  <2> QED  BY <1>6, <2>1, <2>2, <2>3
<1> QED  BY <1>1, <1>2, <1>3, <1>4, <1>5, <1>6 DEF Apart

\* Pages that were allocated and mapped in one space may become shared.
LEMMA ApartShared ==
    ASSUME NEW m, NEW pl, NEW bl, NEW sh, Apart(m.tables, m.used, pl, bl, sh),
           NEW n, NEW rl, NEW space, NEW R, Grown(m, pl, n, rl, space, R),
           R \cap m.used = {}, NEW r \in Ranges, Pages(r) = R
    PROVE  Apart(n.tables, n.used, rl, bl, sh \cup {r})
<1>1. Apart(n.tables, n.used, rl, bl, sh)
  BY ApartAfter
<1>2. PagesOf(sh \cup {r}) = PagesOf(sh) \cup R
  BY DEF PagesOf
<1>3. R \subseteq n.used \ DOMAIN n.tables
  BY DEF Grown
<1>4. \A b \in bl : Pages(b) \cap R = {}
  BY DEF Apart
<1> QED  BY <1>1, <1>2, <1>3, <1>4 DEF Apart

\* Pages that were allocated for the heap become a block of it.
LEMMA ApartBlock ==
    ASSUME NEW m, NEW pl, NEW bl, NEW sh, Apart(m.tables, m.used, pl, bl, sh),
           NEW n, NEW rl, NEW R, Grown(m, pl, n, rl, kernel_pml, R),
           R \cap m.used = {}, NEW b \in Ranges, Pages(b) = R
    PROVE  Apart(n.tables, n.used, rl, bl \cup {b}, sh)
<1>1. Apart(n.tables, n.used, rl, bl, sh)
  BY ApartAfter
<1>2. R \subseteq n.used \ DOMAIN n.tables
  BY DEF Grown
<1>3. R \cap PagesOf(sh) = {} /\ \A c \in bl : Pages(c) \cap R = {}
  BY DEF Apart
<1>4. ASSUME NEW p, NEW i, Leaf(n.tables, rl, p, i)
      PROVE  n.tables[p][i] \notin R
  <2>1. rl[p].own # kernel_pml
    BY <1>4 DEF Leaf
  <2>2. Leaf(m.tables, pl, p, i) /\ m.tables[p][i] = n.tables[p][i]
    BY <1>4, <2>1, OldLeaf
  <2> QED  BY <2>2 DEF Apart
<1>5. \A c, d \in bl \cup {b} : c # d => Pages(c) \cap Pages(d) = {}
  BY <1>1, <1>3 DEF Apart
<1>6. \A c \in bl \cup {b} : Pages(c) \subseteq n.used \ DOMAIN n.tables /\ Pages(c) \cap PagesOf(sh) = {}
  BY <1>1, <1>2, <1>3 DEF Apart
<1>7. \A p, i : Leaf(n.tables, rl, p, i) =>
         n.tables[p][i] \in n.used \ DOMAIN n.tables /\ \A c \in bl \cup {b} : n.tables[p][i] \notin Pages(c)
  BY <1>1, <1>4 DEF Apart
<1> QED  BY <1>1, <1>5, <1>6, <1>7 DEF Apart

\* A block is given back, and an entry of a last table becomes clear.
LEMMA ApartFreed ==
    ASSUME NEW tb, NEW us, NEW pl, NEW bl, NEW sh, Apart(tb, us, pl, bl, sh),
           NEW b \in bl, NEW last \in DOMAIN tb, pl[last].lev = 0, NEW i \in Entries,
           NEW x, x = [tb EXCEPT ![last][i] = NULL]
    PROVE  Apart(x, us \ Pages(b), pl, bl \ {b}, sh)
<1>1. /\ tb \in Tables /\ DOMAIN tb \subseteq Memory
      /\ tb = [p \in DOMAIN tb |-> tb[p]] /\ \A p \in DOMAIN tb : tb[p] \in [Entries -> Int]
  <2>1. tb \in Tables
    BY DEF Apart, Tree
  <2> QED  BY <2>1, TablesFacts
<1>2. /\ DOMAIN x = DOMAIN tb /\ x = [p \in DOMAIN x |-> x[p]]
      /\ \A p \in DOMAIN tb : x[p] \in [Entries -> Int]
      /\ \A p \in DOMAIN tb : \A j \in Entries :
            x[p][j] = IF p = last /\ j = i THEN NULL ELSE tb[p][j]
  <2>1. DOMAIN x = DOMAIN tb /\ x = [p \in DOMAIN x |-> x[p]]
    BY <1>1
  <2>2. \A p \in DOMAIN tb : x[p] = IF p = last THEN [tb[last] EXCEPT ![i] = NULL] ELSE tb[p]
    BY <1>1
  <2>3. NULL \in Int
    BY DEF NULL
  <2> QED  BY <1>1, <2>1, <2>2, <2>3
<1>3. x \in Tables
  BY <1>1, <1>2, TablesFacts
<1>4. Tree(x, pl)
  <2> SUFFICES ASSUME NEW p \in DOMAIN x, NEW j \in Entries, pl[p].lev > 0, x[p][j] # NULL
               PROVE  x[p][j] \in DOMAIN x /\ pl[x[p][j]] = Below(pl[p], j)
    BY <1>2, <1>3 DEF Tree, Apart
  <2>1. p # last
    OBVIOUS
  <2>2. x[p][j] = tb[p][j]
    BY <1>2, <2>1
  <2> QED  BY <1>2, <2>2 DEF Tree, Apart
<1>5. \A p, j : Leaf(x, pl, p, j) => Leaf(tb, pl, p, j) /\ x[p][j] = tb[p][j]
  BY <1>2 DEF Leaf
<1>6. DOMAIN x \subseteq us \ Pages(b)
  BY <1>2 DEF Apart
<1>7. \A c \in bl \ {b} : Pages(c) \subseteq (us \ Pages(b)) \ DOMAIN x /\ Pages(c) \cap PagesOf(sh) = {}
  BY <1>2 DEF Apart
<1>8. PagesOf(sh) \subseteq (us \ Pages(b)) \ DOMAIN x
  BY <1>2 DEF Apart
<1>9. ASSUME NEW p, NEW j, Leaf(x, pl, p, j)
      PROVE  x[p][j] \in (us \ Pages(b)) \ DOMAIN x /\ \A c \in bl \ {b} : x[p][j] \notin Pages(c)
  <2>1. Leaf(tb, pl, p, j) /\ x[p][j] = tb[p][j]
    BY ONLY <1>5, <1>9
  <2>3. DOMAIN x = DOMAIN tb
    BY <1>2
  <2>2. tb[p][j] \in us \ DOMAIN tb /\ \A c \in bl : tb[p][j] \notin Pages(c)
    BY <2>1 DEF Apart
  <2> QED  BY ONLY <2>1, <2>2, <2>3
<1>10. \A p, j, q, k :
          Leaf(x, pl, p, j) /\ Leaf(x, pl, q, k) /\ pl[p].own # pl[q].own /\ x[p][j] = x[q][k] =>
              x[p][j] \in PagesOf(sh)
  BY <1>5 DEF Apart
<1> QED  BY <1>4, <1>6, <1>7, <1>8, <1>9, <1>10 DEF Apart

-----------------------------------------------------------------------------
\* From what a call of vmm_map_range adds to what the whole call adds.
LEMMA FromGrown ==
    ASSUME NEW m \in Machines, NEW pl, DOMAIN m.tables \subseteq m.used,
           NEW y, y.tables = m.tables, NEW R, y.used = m.used \cup R,
           R \cap DOMAIN m.tables = {},
           NEW n, NEW rl, NEW space, NEW W, From(y, pl, n, rl, space, W),
           \A v, x : <<v, x>> \in W => x \in R \/ (x = v /\ x \in PagesOf(Named))
    PROVE  Grown(m, pl, n, rl, space, R)
<1>1. n \in Machines /\ Tree(n.tables, rl) /\ DOMAIN m.tables \subseteq DOMAIN n.tables
      /\ \A p \in DOMAIN m.tables : rl[p] = pl[p]
  BY DEF From
<1>2. n.used = (m.used \cup R) \cup DOMAIN n.tables
      /\ DOMAIN n.tables \cap (m.used \cup R) \subseteq DOMAIN m.tables
  BY DEF From
<1>3. R \cap DOMAIN n.tables = {}
  BY <1>2
<1>4. ASSUME NEW p, NEW i, Leaf(n.tables, rl, p, i)
      PROVE  \/ p \in DOMAIN m.tables /\ m.tables[p][i] = n.tables[p][i]
             \/ rl[p].own = space /\ n.tables[p][i] \in R
  <2>1. p \in DOMAIN n.tables /\ i \in Entries /\ rl[p].lev = 0 /\ rl[p].own # kernel_pml
        /\ n.tables[p][i] # NULL /\ ~ Called(rl[p], i, n.tables[p][i])
    BY <1>4 DEF Leaf
  <2>2. \/ p \in DOMAIN m.tables /\ n.tables[p][i] = m.tables[p][i]
        \/ Writes(W, space, rl[p], i, n.tables[p][i])
    BY <2>1 DEF From
  <2>3. CASE Writes(W, space, rl[p], i, n.tables[p][i])
    <3>1. PICK v \in 0 .. VirtPages - 1 :
             rl[p] = PlaceAt(space, v, 0) /\ i = PMLX_GET_INDEX(v, 0) /\ <<v, n.tables[p][i]>> \in W
      BY <2>3 DEF Writes
    <3>2. rl[p].own = kernel_pml \/ rl[p].own = space
      BY <3>1 DEF PlaceAt
    <3>3. v = rl[p].pre * ENTRIES + i
      BY <3>1, AddressParts
    <3>4. n.tables[p][i] \in R
      BY <2>1, <3>1, <3>3 DEF Called
    <3> QED  BY <2>1, <3>2, <3>4
  <2> QED  BY <2>2, <2>3
<1> QED  BY <1>1, <1>2, <1>3, <1>4 DEF Grown

\* The places and the roots of the spaces at one moment.
Root(m, pl, s) == s \in DOMAIN m.tables /\ s \in Int /\ pl[s] = RootPlace(s)

LEMMA RootStays ==
    ASSUME NEW m, NEW pl, NEW n, NEW rl, NEW space, NEW R, Grown(m, pl, n, rl, space, R),
           NEW s, Root(m, pl, s)
    PROVE  Root(n, rl, s)
BY DEF Root, Grown

Ready(m, pl) == m \in Machines /\ Tree(m.tables, pl) /\ DOMAIN m.tables \subseteq m.used

\* What the addresses of the spaces mean after a call that maps the addresses
\* and pages W in a space.
Kept(m, pl, n, space, W) ==
    \A s : Root(m, pl, s) => \A v \in 0 .. VirtPages - 1 :
        /\ TableAt(m.tables, s, v, 0) # NULL =>
              TableAt(n.tables, s, v, 0) = TableAt(m.tables, s, v, 0)
        /\ \/ Translate(n.tables, s, v) = Translate(m.tables, s, v)
           \/ <<v, Translate(n.tables, s, v)>> \in W /\ (Shared(v) \/ s = space)

LEMMA FromKept ==
    ASSUME NEW m, NEW pl, Ready(m, pl), NEW y, y.tables = m.tables,
           NEW n, NEW rl, NEW space, NEW W, From(y, pl, n, rl, space, W)
    PROVE  Kept(m, pl, n, space, W)
<1> SUFFICES ASSUME NEW s, Root(m, pl, s), NEW v \in 0 .. VirtPages - 1
             PROVE  /\ TableAt(m.tables, s, v, 0) # NULL =>
                          TableAt(n.tables, s, v, 0) = TableAt(m.tables, s, v, 0)
                    /\ \/ Translate(n.tables, s, v) = Translate(m.tables, s, v)
                       \/ <<v, Translate(n.tables, s, v)>> \in W /\ (Shared(v) \/ s = space)
  BY DEF Kept
<1>1. Tree(y.tables, pl) /\ s \in DOMAIN y.tables /\ s \in Int /\ pl[s] = RootPlace(s)
  BY DEF Ready, Root
<1>2. TableAt(y.tables, s, v, 0) # NULL => TableAt(n.tables, s, v, 0) = TableAt(y.tables, s, v, 0)
  <2> DEFINE l == 0
  <2>1. l \in Levels
    BY LevelFacts DEF Levels
  <2> HIDE DEF l
  <2>2. TableAt(y.tables, s, v, l) # NULL => TableAt(n.tables, s, v, l) = TableAt(y.tables, s, v, l)
    BY <1>1, <2>1, WalkStays
  <2> QED  BY <2>2 DEF l
<1>3. \/ Translate(n.tables, s, v) = Translate(y.tables, s, v)
      \/ <<v, Translate(n.tables, s, v)>> \in W /\ (Shared(v) \/ s = space)
  BY <1>1, Translated
<1> QED  BY <1>2, <1>3

\* The addresses and pages of a mapping.
LEMMA MovesPages ==
    ASSUME NEW virt \in Nat, NEW phys \in Int, NEW k \in Nat,
           NEW v, NEW x, <<v, x>> \in Moves(virt, phys, k)
    PROVE  /\ x \in phys .. phys + k - 1
           /\ \E j \in 0 .. k - 1 : v = (virt + j) % VirtPages /\ x = phys + j
<1>1. PICK j \in 0 .. k - 1 : <<v, x>> = <<(virt + j) % VirtPages, phys + j>>
  BY DEF Moves
<1>2. v = (virt + j) % VirtPages /\ x = phys + j
  BY <1>1
<1> QED  BY <1>2

\* The addresses of programs: none is shared.
LEMMA UserMoves ==
    ASSUME NEW virt \in Nat, NEW phys \in Int, NEW k \in Nat,
           \A j \in 0 .. k - 1 : (virt + j) \div Span[limit_pml - 1] < FirstCopied,
           NEW v, NEW x, <<v, x>> \in Moves(virt, phys, k)
    PROVE  ~ Shared(v) /\ v \in Nat /\ x - phys = v - virt /\ x \in phys .. phys + k - 1
<1>1. PICK j \in 0 .. k - 1 : v = (virt + j) % VirtPages /\ x = phys + j
  <2>1. PICK j \in 0 .. k - 1 : <<v, x>> = <<(virt + j) % VirtPages, phys + j>>
    BY DEF Moves
  <2> QED  BY <2>1
<1> DEFINE a == Span[limit_pml - 1]
           E == ENTRIES
           V == VirtPages
           u == virt + j
<1>2. a \in Nat /\ a >= 1 /\ E \in Nat /\ E >= 1 /\ V = E * a /\ FirstCopied \in Nat /\ FirstCopied < E
  <2>1. limit_pml - 1 \in 0 .. limit_pml /\ limit_pml \in 1 .. limit_pml
    BY LevelFacts
  <2> QED  BY <2>1, SpanFacts, LevelFacts, VmmAssumption DEF VirtPages
<1>3. u \in Nat /\ u \div a < FirstCopied
  OBVIOUS
<1>4. v = u % V /\ x = phys + (u - virt) /\ x \in phys .. phys + k - 1
  BY <1>1
<1>5. Shared(v) <=> v \div a >= FirstCopied
  BY DEF Shared
<1> HIDE DEF a, E, V, u
<1>6. u \div a \in Nat /\ u % a \in 0 .. a - 1 /\ u = (u \div a) * a + (u % a)
  BY ONLY <1>2, <1>3, Division
<1> DEFINE q == u \div a
           r == u % a
<1>7. q \in Nat /\ q + 1 <= E /\ r \in Nat /\ r < a /\ u = q * a + r
  BY <1>2, <1>3, <1>6
<1> HIDE DEF q, r
<1>8. u < V
  BY ONLY <1>2, <1>7, Z3
<1>9. V \in Nat /\ V >= 1
  BY ONLY <1>2, Z3
<1>10. u % V = u
  BY ONLY <1>3, <1>8, <1>9, Z3
<1> QED  BY <1>2, <1>3, <1>4, <1>5, <1>10

\* Two walks that agree on a level, and on the entries they take from there.
LEMMA SameWalk ==
    ASSUME NEW tb, NEW pl, Tree(tb, pl),
           NEW r \in DOMAIN tb, r \in Int, pl[r] = RootPlace(r),
           NEW tc, NEW ql, Tree(tc, ql),
           NEW s \in DOMAIN tc, s \in Int, ql[s] = RootPlace(s),
           NEW v \in 0 .. VirtPages - 1, NEW N \in Levels,
           TableAt(tb, r, v, N) = TableAt(tc, s, v, N),
           \A l \in 1 .. N : \A t \in DOMAIN tb :
              t = TableAt(tb, r, v, l) => tc[t][PMLX_GET_INDEX(v, l)] = tb[t][PMLX_GET_INDEX(v, l)]
    PROVE  TableAt(tc, s, v, 0) = TableAt(tb, r, v, 0)
<1> DEFINE S == {l \in 0 .. N : TableAt(tb, r, v, l) = TableAt(tc, s, v, l)}
<1>1. N \in Nat /\ N <= limit_pml - 1 /\ N \in S
  BY LevelFacts DEF Levels
<1>2. ASSUME NEW l \in 1 .. N, l \in S
      PROVE  l - 1 \in S
  <2>1. l - 1 \in 0 .. limit_pml - 2 /\ l - 1 + 1 = l /\ l - 1 \in 0 .. N /\ l \in Levels
    BY <1>1, LevelFacts DEF Levels
  <2> DEFINE x == TableAt(tb, r, v, l)
             i == PMLX_GET_INDEX(v, l)
             k == l - 1
  <2>2. TableAt(tb, r, v, k) = IF x = NULL THEN NULL ELSE tb[x][i]
    BY <2>1, WalkSteps
  <2>3. TableAt(tc, s, v, k) = IF x = NULL THEN NULL ELSE tc[x][i]
    <3>1. TableAt(tc, s, v, l) = x
      BY <1>2
    <3>2. TableAt(tc, s, v, k) = IF TableAt(tc, s, v, l) = NULL THEN NULL ELSE tc[TableAt(tc, s, v, l)][i]
      BY <2>1, WalkSteps
    <3> QED  BY <3>1, <3>2
  <2>4. x # NULL => x \in DOMAIN tb
    BY <2>1, WalkEnds
  <2>5. x # NULL => tc[x][i] = tb[x][i]
    BY <2>4
  <2> HIDE DEF x, i, k
  <2>6. TableAt(tb, r, v, k) = TableAt(tc, s, v, k)
    BY <2>2, <2>3, <2>5
  <2> QED  BY <2>1, <2>6 DEF k
<1> HIDE DEF S
<1>3. 0 \in S
  <2>1. 0 \in 0 .. N
    BY <1>1
  <2> QED  BY <1>1, <1>2, <2>1, Downwards
<1> QED  BY <1>3 DEF S

\* Memory x, with the places rl, has come of memory m by mapping k pages in a
\* space, the pages R that were free.
Added(m, pl, x, rl, R, space, virt, k) ==
    /\ Grown(m, pl, x, rl, space, R)
    /\ R \cap m.used = {}
    /\ \E at \in Int : /\ Kept(m, pl, x, space, Moves(virt, at, k))
                       /\ ~ x.panic /\ k <= VirtPages => Means(x.tables, space, virt, at, k)

LEMMA SameKept ==
    ASSUME NEW m, NEW pl, NEW n, n.tables = m.tables, NEW space, NEW W
    PROVE  Kept(m, pl, n, space, W)
BY DEF Kept

\* MapNew maps pages that were free.
LEMMA MapNewGrows ==
    ASSUME NEW m, NEW pl, Ready(m, pl), NEW space, Root(m, pl, space),
           NEW virt \in Nat, NEW k \in Nat, NEW x, x = MapNew(m, space, virt, k)
    PROVE  \E rl, R : Added(m, pl, x, rl, R, space, virt, k)
<1> DEFINE y == pmm_alloc(m, k)
           new == UNWRAP_OR_PANIC(y)
           z == vmm_map_range(new, space, virt, new.at, k)
<1>1. x = IF m.panic \/ new.panic THEN [m EXCEPT !.panic = TRUE] ELSE [z EXCEPT !.at = new.at]
  BY DEF MapNew
<1>2. m \in Machines /\ Tree(m.tables, pl) /\ DOMAIN m.tables \subseteq m.used
  BY DEF Ready
<1>3. /\ y \in Machines /\ y.tables = m.tables /\ y.panic = m.panic
      /\ y.at # NULL => /\ y.at \in Memory
                        /\ y.at .. y.at + k - 1 \subseteq Memory \ m.used
                        /\ y.used = m.used \cup (y.at .. y.at + k - 1)
  <2> HIDE DEF y
  <2>1. y = pmm_alloc(m, k)
    BY DEF y
  <2> QED  BY <1>2, <2>1, AllocFacts
<1> HIDE DEF y, new
<1>4. CASE m.panic \/ new.panic
  <2>1. x = [m EXCEPT !.panic = TRUE]
    BY <1>1, <1>4
  <2>2. x \in Machines /\ x.tables = m.tables /\ x.used = m.used /\ x.panic
    BY <1>2, <2>1, PanicFacts
  <2>3. Grown(m, pl, x, pl, space, {})
    BY <1>2, <2>2 DEF Grown, Leaf
  <2> DEFINE W == Moves(virt, 0, k)
  <2>4. Kept(m, pl, x, space, W)
    BY <2>2, SameKept
  <2> HIDE DEF W
  <2>5. Added(m, pl, x, pl, {}, space, virt, k)
    <3>1. 0 \in Int
      OBVIOUS
    <3> QED  BY <2>2, <2>3, <2>4, <3>1 DEF Added, W
  <2> QED  BY <2>5
<1>5. CASE ~ (m.panic \/ new.panic)
  <2>1. y.at # NULL /\ new = y
    <3>1. CASE y.at = NULL
      <4>1. new = [y EXCEPT !.panic = TRUE]
        BY <3>1 DEF new, UNWRAP_OR_PANIC
      <4> QED  BY <1>3, <1>5, <4>1, PanicFacts
    <3>2. CASE y.at # NULL
      BY <3>2 DEF new, UNWRAP_OR_PANIC
    <3> QED  BY <3>1, <3>2
  <2> DEFINE R == y.at .. y.at + k - 1
  <2>2. R \cap m.used = {} /\ y.used = m.used \cup R /\ y.at \in Int /\ R \subseteq Memory
    BY <1>3, <2>1, MemoryFacts
  <2> HIDE DEF R
  <2>3. DOMAIN y.tables \subseteq y.used /\ space \in DOMAIN y.tables /\ space \in Int /\ pl[space] = RootPlace(space)
    BY <1>2, <1>3, <2>2 DEF Root
  <2> DEFINE W == Moves(virt, y.at, k)
  <2>4. z = vmm_map_range(y, space, virt, y.at, k)
    BY <2>1
  <2> HIDE DEF z
  <2>5. PICK rl : From(y, pl, z, rl, space, W)
    <3>1. y \in Machines /\ Tree(y.tables, pl)
      BY <1>2, <1>3
    <3> QED  BY <2>2, <2>3, <2>4, <3>1, MapRange
  <2>6. \A v, p : <<v, p>> \in W => p \in R
    BY <2>2, MovesPages DEF R
  <2> HIDE DEF W
  <2>7. z \in Machines
    BY <2>5 DEF From
  <2>8. x = [z EXCEPT !.at = y.at]
    BY <1>1, <1>5, <2>1
  <2>9. x = [tables |-> z.tables, used |-> z.used, last_index |-> z.last_index,
             at |-> y.at, panic |-> z.panic, fault |-> z.fault]
    BY <2>7, <2>8, MachineIs
  <2>10. x \in Machines
    BY <2>2, <2>7, <2>9, MachineIs DEF Machines
  <2>11. x.tables = z.tables /\ x.used = z.used
    BY <2>9
  <2>12. From(y, pl, x, rl, space, W)
    BY <2>5, <2>10, <2>11, FromSame
  <2>13. R \cap DOMAIN m.tables = {}
    BY <1>2, <2>2
  <2>14. Grown(m, pl, x, rl, space, R)
    BY <1>2, <1>3, <2>2, <2>6, <2>12, <2>13, FromGrown
  <2>15. Kept(m, pl, x, space, W)
    BY <1>3, <2>12, FromKept
  <2>17. ~ x.panic /\ k <= VirtPages => Means(x.tables, space, virt, y.at, k)
    <3>1. y \in Machines /\ Tree(y.tables, pl) /\ x.panic = z.panic
      BY <1>2, <1>3, <2>9
    <3> QED  BY <2>2, <2>3, <2>4, <2>11, <3>1, MapRange
  <2>16. Added(m, pl, x, rl, R, space, virt, k)
    BY <2>2, <2>14, <2>15, <2>17 DEF Added, W
  <2> QED  BY <2>16
<1> QED  BY <1>4, <1>5

\* Memory x, with the places rl, has come of memory m by making a space.
Spaced(m, pl, x, rl) ==
    /\ Grown(m, pl, x, rl, x.at, {})
    /\ Root(x, rl, x.at) /\ x.at \notin m.used
    /\ Kept(m, pl, x, x.at, {})
    /\ \A v \in 0 .. VirtPages - 1 :
          /\ Shared(v) => TableAt(x.tables, x.at, v, 0) = TableAt(x.tables, kernel_pml, v, 0)
          /\ ~ Shared(v) => Translate(x.tables, x.at, v) = NULL

LEMMA TopIndex ==
    ASSUME NEW v \in 0 .. VirtPages - 1
    PROVE  /\ PMLX_GET_INDEX(v, limit_pml - 1) \in Entries
           /\ Shared(v) <=> PMLX_GET_INDEX(v, limit_pml - 1) >= FirstCopied
<1> DEFINE a == Span[limit_pml - 1]
           E == ENTRIES
           V == VirtPages
           q == v \div a
<1>1. a \in Nat /\ a >= 1 /\ E \in Nat /\ E >= 1 /\ V = E * a
  <2>1. limit_pml - 1 \in 0 .. limit_pml /\ limit_pml \in 1 .. limit_pml
    BY LevelFacts
  <2> QED  BY <2>1, SpanFacts, LevelFacts DEF VirtPages
<1>2. v \in Nat /\ v < V
  <2>1. V \in Nat
    BY SpanFacts, LevelFacts DEF VirtPages
  <2> QED  BY <2>1
<1>3. PMLX_GET_INDEX(v, limit_pml - 1) = q % E /\ (Shared(v) <=> q >= FirstCopied) /\ Entries = 0 .. E - 1
  BY DEF PMLX_GET_INDEX, Shared, Entries
<1> HIDE DEF a, E, V
<1>4. q \in Nat /\ v % a \in Nat /\ v = q * a + (v % a)
  <2>1. q \in Nat /\ v % a \in 0 .. a - 1 /\ v = q * a + (v % a)
    BY ONLY <1>1, <1>2, Division
  <2> QED  BY <1>1, <2>1
<1> DEFINE r == v % a
<1>5. r \in Nat /\ v = q * a + r
  BY <1>4
<1> HIDE DEF q, r
<1>6. q < E
  BY ONLY <1>1, <1>2, <1>4, <1>5, Z3
<1>7. q % E = q /\ q \in 0 .. E - 1
  BY <1>1, <1>4, <1>6
<1> QED  BY <1>3, <1>7

\* A new space: its root, with the entries that all spaces share.
LEMMA SpaceGrows ==
    ASSUME NEW m, NEW pl, Ready(m, pl), ~ m.panic, Root(m, pl, kernel_pml),
           NEW x, x = vmm_create_space(m), ~ x.panic
    PROVE  \E rl : Spaced(m, pl, x, rl)
<1> DEFINE new == Cleared(UNWRAP_OR_PANIC(pmm_alloc(m, 1)))
           D == DOMAIN m.tables
           q == new.at
           e == [i \in Entries |-> IF i >= FirstCopied THEN m.tables[kernel_pml][i] ELSE NULL]
           tb == [new.tables EXCEPT ![q] = e]
           rl == [p \in D \cup {q} |-> IF p = q THEN RootPlace(q) ELSE pl[p]]
           raw == [new EXCEPT !.tables[q] =
                      [i \in DOMAIN @ |-> IF i >= FirstCopied THEN m.tables[kernel_pml][i] ELSE @[i]]]
<1>1. x = IF new.panic THEN new ELSE raw
  BY DEF vmm_create_space
<1>2. /\ m \in Machines /\ Tree(m.tables, pl) /\ D \subseteq m.used
      /\ kernel_pml \in D /\ pl[kernel_pml] = RootPlace(kernel_pml)
  BY DEF Ready, Root
<1> HIDE DEF new
<1>3. /\ new \in Machines
      /\ ~ new.panic => /\ new.at \in Memory \ m.used
                        /\ new.used = m.used \cup {new.at}
                        /\ DOMAIN new.tables = D \cup {new.at}
                        /\ new.tables[new.at] = Empty
                        /\ \A p \in D : new.tables[p] = m.tables[p]
  BY <1>2, NewTable DEF new
<1>4. ~ new.panic
  <2> HIDE DEF raw
  <2> QED  BY <1>1
<1>5. /\ q \in Memory /\ q \notin D /\ q \notin m.used /\ q \in Int /\ q # kernel_pml
      /\ new.used = m.used \cup {q} /\ DOMAIN new.tables = D \cup {q}
      /\ new.tables[q] = Empty /\ \A p \in D : new.tables[p] = m.tables[p]
  BY <1>2, <1>3, <1>4, MemoryFacts
<1>6. x = [new EXCEPT !.tables[q] = e]
  <2>1. raw = [new EXCEPT !.tables[q] = e]
    <3>1. [i \in DOMAIN new.tables[q] |-> IF i >= FirstCopied THEN m.tables[kernel_pml][i] ELSE new.tables[q][i]] = e
      <4>1. DOMAIN Empty = Entries /\ \A i \in Entries : Empty[i] = NULL
        BY DEF Empty, Entries
      <4> HIDE DEF q
      <4> QED  BY <1>5, <4>1
    <3>2. q \in DOMAIN new.tables /\ new = [tables |-> new.tables, used |-> new.used, last_index |-> new.last_index,
                 at |-> new.at, panic |-> new.panic, fault |-> new.fault]
      BY <1>3, <1>5, MachineIs
    <3> HIDE DEF e
    <3> QED  BY <3>1, <3>2
  <2> HIDE DEF raw
  <2> QED  BY <1>1, <1>4, <2>1
<1> HIDE DEF raw
<1>7. new.tables \in Tables /\ m.tables \in Tables
  BY <1>2, <1>3, MachineIs
<1>8. e \in [Entries -> Int]
  <2>1. m.tables[kernel_pml] \in [Entries -> Int] /\ NULL \in Int
    BY <1>2, <1>7, TablesFacts DEF NULL
  <2> QED  BY <2>1
<1> HIDE DEF q, e
<1>9. /\ DOMAIN tb = D \cup {q} /\ tb = [p \in DOMAIN tb |-> tb[p]]
      /\ \A p \in D \cup {q} : tb[p] = IF p = q THEN e ELSE m.tables[p]
      /\ \A p \in D \cup {q} : tb[p] \in [Entries -> Int]
  <2>1. \A p \in D \cup {q} : new.tables[p] \in [Entries -> Int]
    BY <1>5, <1>7, TablesFacts
  <2>2. DOMAIN tb = D \cup {q} /\ tb = [p \in DOMAIN tb |-> tb[p]]
    BY <1>5
  <2>3. \A p \in D \cup {q} : tb[p] = IF p = q THEN e ELSE m.tables[p]
    BY <1>5
  <2> HIDE DEF tb
  <2> QED  BY <1>5, <1>8, <2>1, <2>2, <2>3
<1>10. tb \in Tables
  <2>1. D \subseteq Memory
    BY <1>7, TablesFacts
  <2> HIDE DEF tb, D
  <2> QED  BY <1>5, <1>9, <2>1, TablesFacts
<1>11. x = [tables |-> tb, used |-> new.used, last_index |-> new.last_index,
            at |-> q, panic |-> new.panic, fault |-> new.fault]
  <2>1. new = [tables |-> new.tables, used |-> new.used, last_index |-> new.last_index,
               at |-> q, panic |-> new.panic, fault |-> new.fault]
    BY <1>3, MachineIs DEF q
  <2> QED  BY <1>6, <2>1
<1> HIDE DEF tb
<1>12. x \in Machines
  BY <1>3, <1>5, <1>10, <1>11, MachineIs DEF Machines
<1>13. x.tables = tb /\ x.at = q /\ x.used = m.used \cup {q}
  BY <1>5, <1>11
<1>14. /\ DOMAIN rl = D \cup {q} /\ rl[q] = RootPlace(q)
       /\ \A p \in D : rl[p] = pl[p]
       /\ rl \in [D \cup {q} -> Places]
  <2>1. RootPlace(q) \in Places
    BY <1>5, LevelFacts DEF RootPlace, Places
  <2>2. pl \in [D -> Places]
    BY <1>2 DEF Tree
  <2> HIDE DEF D
  <2> QED  BY <1>5, <2>1, <2>2
<1> HIDE DEF rl
<1>15. Tree(tb, rl)
  <2> SUFFICES ASSUME NEW p \in D \cup {q}, NEW i \in Entries, rl[p].lev > 0, tb[p][i] # NULL
               PROVE  tb[p][i] \in D \cup {q} /\ rl[tb[p][i]] = Below(rl[p], i)
    <3> HIDE DEF D
    <3>1. DOMAIN tb = D \cup {q} /\ rl \in [D \cup {q} -> Places]
      BY <1>9, <1>14
    <3> QED  BY <1>10, <3>1 DEF Tree
  <2>1. CASE p = q
    <3>1. tb[p][i] = m.tables[kernel_pml][i] /\ i >= FirstCopied
      BY <1>9, <2>1 DEF e
    <3>2. RootPlace(kernel_pml).lev > 0
      BY LevelFacts DEF RootPlace
    <3>3. m.tables[kernel_pml][i] \in D /\ pl[m.tables[kernel_pml][i]] = Below(RootPlace(kernel_pml), i)
      BY <1>2, <3>1, <3>2 DEF Tree
    <3>4. Below(RootPlace(kernel_pml), i) = Below(RootPlace(q), i)
      BY <3>1 DEF Below, RootPlace
    <3> QED  BY <1>14, <2>1, <3>1, <3>3, <3>4
  <2>2. CASE p # q
    <3>1. p \in D /\ tb[p][i] = m.tables[p][i] /\ rl[p] = pl[p]
      BY <1>9, <1>14, <2>2
    <3>2. m.tables[p][i] \in D /\ pl[m.tables[p][i]] = Below(pl[p], i)
      BY <1>2, <3>1 DEF Tree
    <3> QED  BY <1>14, <3>1, <3>2
  <2> QED  BY <2>1, <2>2
<1>16. ASSUME NEW p, NEW i, Leaf(tb, rl, p, i)
       PROVE  p \in D /\ m.tables[p][i] = tb[p][i]
  <2>1. p \in D \cup {q} /\ rl[p].lev = 0
    BY <1>9, <1>16 DEF Leaf
  <2>2. p # q
    BY <1>14, <2>1, LevelFacts DEF RootPlace
  <2> QED  BY <1>9, <2>1, <2>2
<1>17. Grown(m, pl, x, rl, x.at, {})
  <2>1. D \subseteq D \cup {q} /\ (D \cup {q}) \cap m.used \subseteq D /\ m.used \cup (D \cup {q}) \subseteq x.used
    BY <1>2, <1>5, <1>13
  <2>2. DOMAIN x.tables = D \cup {q}
    BY <1>9, <1>13
  <2> QED  BY <1>12, <1>13, <1>14, <1>15, <1>16, <2>1, <2>2 DEF Grown
<1>18. Root(x, rl, x.at)
  BY <1>5, <1>9, <1>13, <1>14 DEF Root
<1>19. ASSUME NEW s, Root(m, pl, s), NEW v \in 0 .. VirtPages - 1
       PROVE  /\ TableAt(tb, s, v, 0) = TableAt(m.tables, s, v, 0)
              /\ Translate(tb, s, v) = Translate(m.tables, s, v)
  <2>1. /\ Tree(m.tables, pl) /\ s \in D /\ s \in Int /\ pl[s] = RootPlace(s)
        /\ Tree(tb, rl) /\ s \in DOMAIN tb /\ rl[s] = RootPlace(s)
    BY <1>2, <1>9, <1>14, <1>15, <1>19 DEF Root
  <2> DEFINE N == limit_pml - 1
  <2>2. N \in Levels
    BY LevelFacts DEF Levels
  <2>3. TableAt(m.tables, s, v, N) = TableAt(tb, s, v, N)
    BY <2>1, WalkSteps
  <2>4. \A t \in D : tb[t] = m.tables[t]
    BY <1>5, <1>9
  <2>5. TableAt(tb, s, v, 0) = TableAt(m.tables, s, v, 0)
    <3> HIDE DEF N
    <3>1. \A l \in 1 .. N : \A t \in D :
             t = TableAt(m.tables, s, v, l) => tb[t][PMLX_GET_INDEX(v, l)] = m.tables[t][PMLX_GET_INDEX(v, l)]
      BY <2>4
    <3> QED  BY <2>1, <2>2, <2>3, <3>1, SameWalk
  <2> DEFINE y == TableAt(m.tables, s, v, 0)
             l == 0
  <2>6. y # NULL => y \in D
    <3> HIDE DEF D
    <3>1. l \in Levels
      BY LevelFacts DEF Levels
    <3> HIDE DEF l
    <3>2. TableAt(m.tables, s, v, l) # NULL => TableAt(m.tables, s, v, l) \in DOMAIN m.tables
      BY <2>1, <3>1, WalkEnds DEF D
    <3> QED  BY <3>2 DEF l, D
  <2>7. Translate(m.tables, s, v) = (IF y = NULL THEN NULL ELSE m.tables[y][PMLX_GET_INDEX(v, 0)])
    BY DEF Translate
  <2>8. Translate(tb, s, v) = (IF y = NULL THEN NULL ELSE tb[y][PMLX_GET_INDEX(v, 0)])
    BY <2>5 DEF Translate
  <2> HIDE DEF y
  <2> QED  BY <2>4, <2>5, <2>6, <2>7, <2>8 DEF y
<1>20. Kept(m, pl, x, x.at, {})
  BY <1>13, <1>19 DEF Kept
<1>21. ASSUME NEW v \in 0 .. VirtPages - 1, Shared(v)
       PROVE  TableAt(tb, q, v, 0) = TableAt(tb, kernel_pml, v, 0)
  <2>1. /\ Tree(tb, rl) /\ q \in DOMAIN tb /\ q \in Int /\ rl[q] = RootPlace(q)
        /\ kernel_pml \in DOMAIN tb /\ kernel_pml \in Int /\ rl[kernel_pml] = RootPlace(kernel_pml)
    BY <1>2, <1>5, <1>9, <1>14, <1>15, MemoryFacts
  <2> DEFINE T == limit_pml - 1
             N == limit_pml - 2
             i == PMLX_GET_INDEX(v, T)
  <2>2. N \in Levels /\ N \in 0 .. limit_pml - 2 /\ N + 1 = T
    BY LevelFacts DEF Levels
  <2>3. TableAt(tb, q, v, T) = q /\ TableAt(tb, kernel_pml, v, T) = kernel_pml
    BY <2>1, WalkSteps
  <2>4. q # NULL /\ kernel_pml # NULL
    BY <1>5, MemoryFacts
  <2>5. TableAt(tb, q, v, N) = tb[q][i] /\ TableAt(tb, kernel_pml, v, N) = tb[kernel_pml][i]
    <3> HIDE DEF N, i, T
    <3>1. TableAt(tb, q, v, N) = IF TableAt(tb, q, v, N + 1) = NULL THEN NULL
                                 ELSE tb[TableAt(tb, q, v, N + 1)][PMLX_GET_INDEX(v, N + 1)]
      BY <2>1, <2>2, WalkSteps
    <3>2. TableAt(tb, kernel_pml, v, N) = IF TableAt(tb, kernel_pml, v, N + 1) = NULL THEN NULL
                                 ELSE tb[TableAt(tb, kernel_pml, v, N + 1)][PMLX_GET_INDEX(v, N + 1)]
      BY <2>1, <2>2, WalkSteps
    <3> QED  BY <2>2, <2>3, <2>4, <3>1, <3>2 DEF i
  <2>6. i \in Entries /\ i >= FirstCopied
    BY <1>21, TopIndex
  <2>7. tb[q][i] = tb[kernel_pml][i]
    <3> HIDE DEF i
    <3>1. tb[q][i] = m.tables[kernel_pml][i]
      BY <1>9, <2>6 DEF e
    <3> QED  BY <1>2, <1>5, <1>9, <3>1
  <2>8. \A l \in 1 .. N : \A t \in DOMAIN tb :
           t = TableAt(tb, kernel_pml, v, l) => tb[t][PMLX_GET_INDEX(v, l)] = tb[t][PMLX_GET_INDEX(v, l)]
    OBVIOUS
  <2>9. TableAt(tb, kernel_pml, v, N) = TableAt(tb, q, v, N)
    BY <2>5, <2>7
  <2> HIDE DEF N
  <2> QED  BY <2>1, <2>2, <2>8, <2>9, SameWalk
<1>22. ASSUME NEW v \in 0 .. VirtPages - 1, ~ Shared(v)
       PROVE  Translate(tb, q, v) = NULL
  <2>1. Tree(tb, rl) /\ q \in DOMAIN tb /\ q \in Int /\ rl[q] = RootPlace(q)
    BY <1>5, <1>9, <1>14, <1>15
  <2> DEFINE T == limit_pml - 1
             N == limit_pml - 2
             i == PMLX_GET_INDEX(v, T)
             X(l) == TableAt(tb, q, v, l)
             C == {l \in 0 .. N : X(l) = NULL}
  <2>2. N \in Nat /\ N \in 0 .. N /\ N + 1 = T /\ 0 \in 0 .. N
    BY LevelFacts
  <2>3. X(T) = q /\ \A l \in 0 .. N : X(l) = IF X(l + 1) = NULL THEN NULL
                                             ELSE tb[X(l + 1)][PMLX_GET_INDEX(v, l + 1)]
    BY <2>1, WalkSteps
  <2>4. i \in Entries /\ ~ (i >= FirstCopied)
    BY <1>22, TopIndex
  <2>5. tb[q][i] = NULL
    <3> HIDE DEF i
    <3> QED  BY <1>9, <2>4 DEF e
  <2> HIDE DEF X, i, T, N
  <2>6. N \in C
    <3>1. X(N) = IF X(N + 1) = NULL THEN NULL ELSE tb[X(N + 1)][PMLX_GET_INDEX(v, N + 1)]
      BY <2>2, <2>3
    <3> QED  BY <2>2, <2>3, <2>5, <3>1 DEF i
  <2>7. \A l \in 1 .. N : l \in C => l - 1 \in C
    <3> SUFFICES ASSUME NEW l \in 1 .. N, X(l) = NULL
                 PROVE  l - 1 \in C
      OBVIOUS
    <3>1. l - 1 \in 0 .. N /\ l - 1 + 1 = l
      BY <2>2
    <3> QED  BY <2>3, <3>1
  <2>8. \A l \in 0 .. N : l \in C
    <3> HIDE DEF C
    <3> QED  BY <2>2, <2>6, <2>7, Downwards
  <2>9. TableAt(tb, q, v, 0) = NULL
    <3>1. 0 \in C
      BY <2>2, <2>8
    <3> QED  BY <3>1 DEF X
  <2> QED  BY <2>9 DEF Translate
<1> QED  BY <1>5, <1>13, <1>17, <1>18, <1>20, <1>21, <1>22 DEF Spaced

-----------------------------------------------------------------------------
\* Every space has the window to the pages handed out, and an address of it
\* means its page, if it means any.
Window(tb, sp) ==
    \A p \in Memory :
        /\ TableAt(tb, kernel_pml, mmap_phys_to_kernel(p), 0) # NULL
        /\ Translate(tb, kernel_pml, mmap_phys_to_kernel(p)) \in {NULL, p}
        /\ \A s \in sp : TableAt(tb, s, mmap_phys_to_kernel(p), 0) =
                         TableAt(tb, kernel_pml, mmap_phys_to_kernel(p), 0)

\* The pages of the heap can be reached through the window.
HeapPart(tb, bl) ==
    \A b \in bl : /\ b.pages > 0
                  /\ \A p \in Pages(b) : Translate(tb, kernel_pml, mmap_phys_to_kernel(p)) = p

\* The ranges of shared memory have the lengths that programs ask for.
SharedPart(sh) == \A r \in sh : r.pages \in Lengths

VmmInv ==
    /\ Now \in Machines
    /\ kernel_pml \in spaces
    /\ \E pl : Apart(tables, used, pl, blocks, shared) /\ Roots(tables, pl)
    /\ Window(tables, spaces)
    /\ HeapPart(tables, blocks)
    /\ SharedPart(shared)

\* What a step may do to the addresses, as StaysMapped has it.
Stays ==
    \A s \in spaces, v \in 0 .. VirtPages - 1 :
        LET p == Translate(tables, s, v)
            after == Translate(tables', s, v)
        IN  \/ p \in {NULL, after}
            \/ after = NULL /\ \E b \in blocks \ blocks' : v = mmap_phys_to_kernel(b.base)
            \/ after = v /\ \E r \in shared' \cup Named : v \in Pages(r)

LEMMA NowIs ==
    /\ Now.tables = tables /\ Now.used = used /\ Now.panic = FALSE
    /\ \A pl, s : Root(Now, pl, s) <=> s \in DOMAIN tables /\ s \in Int /\ pl[s] = RootPlace(s)
BY DEF Now, Root

-----------------------------------------------------------------------------
\* The steps of the address spaces.
Refined == [Abstract!SpacesNext]_View

RegionOf(tb, s, r) ==
    LET last == TableAt(tb, s, r * ENTRIES, 0) IN IF last = NULL THEN Empty ELSE tb[last]

\* The roots of the spaces sp in a tree of tables.
Rooted(tb, pl, sp) ==
    /\ Tree(tb, pl)
    /\ \A s \in sp : s \in DOMAIN tb /\ s \in Int /\ pl[s] = RootPlace(s)

Maps == [Regions -> [Entries -> Int]]

\* What the view of a space says of an address is what the walk finds.
LEMMA RegionReads ==
    ASSUME NEW tb, NEW pl, NEW sp, Rooted(tb, pl, sp), NEW s \in sp
    PROVE  /\ [r \in Regions |-> RegionOf(tb, s, r)] \in Maps
           /\ \A v \in 0 .. VirtPages - 1 :
                 RegionOf(tb, s, v \div ENTRIES)[v % ENTRIES] = Translate(tb, s, v)
<1>1. /\ Tree(tb, pl) /\ s \in DOMAIN tb /\ s \in Int /\ pl[s] = RootPlace(s)
      /\ \A p \in DOMAIN tb : tb[p] \in [Entries -> Int]
  BY TablesFacts DEF Rooted, Tree
<1>2. Empty \in [Entries -> Int]
  BY DEF Empty, Entries, NULL
<1>3. ASSUME NEW r \in Regions
      PROVE  RegionOf(tb, s, r) \in [Entries -> Int]
  <2>1. TableAt(tb, s, r * ENTRIES, 0) # NULL => TableAt(tb, s, r * ENTRIES, 0) \in DOMAIN tb
    BY <1>1, RegionEnds
  <2> QED  BY <1>1, <1>2, <2>1 DEF RegionOf
<1>4. ASSUME NEW v \in 0 .. VirtPages - 1
      PROVE  RegionOf(tb, s, v \div ENTRIES)[v % ENTRIES] = Translate(tb, s, v)
  <2> DEFINE r == v \div ENTRIES
             u == r * ENTRIES
             last == TableAt(tb, s, u, 0)
  <2>1. r \in Regions /\ PMLX_GET_INDEX(v, 0) = v % ENTRIES /\ v % ENTRIES \in Entries
    BY AddressParts
  <2>2. u \in 0 .. VirtPages - 1
    BY <2>1, RegionPlace
  <2>3. u \div ENTRIES = v \div ENTRIES
    <3>1. r \in Nat /\ ENTRIES \in Nat /\ ENTRIES >= 1
      BY <2>1, LevelFacts DEF Regions
    <3> DEFINE E == ENTRIES
    <3> HIDE DEF r, E
    <3>2. 0 \in 0 .. E - 1 /\ r * E + 0 = r * E /\ r \in Int
      BY <3>1 DEF E
    <3>3. (r * E + 0) \div E = r
      BY ONLY <3>1, <3>2, DivisionBack DEF E
    <3> QED  BY <3>2, <3>3 DEF E, r
  <2> HIDE DEF u
  <2>4. TableAt(tb, s, v, 0) = last
    BY <1>1, <2>2, <2>3, SameRegion
  <2>5. Translate(tb, s, v) = IF last = NULL THEN NULL ELSE tb[last][v % ENTRIES]
    BY <2>1, <2>4 DEF Translate
  <2>6. Empty[v % ENTRIES] = NULL
    BY <2>1 DEF Empty, Entries
  <2> QED  BY <2>5, <2>6 DEF RegionOf, u
<1>5. [r \in Regions |-> RegionOf(tb, s, r)] \in Maps
  BY <1>3 DEF Maps
<1> QED  BY <1>4, <1>5

\* The page in region r at entry i is that of one address.
LEMMA AddressOf ==
    ASSUME NEW r \in Regions, NEW i \in Entries
    PROVE  /\ r * ENTRIES + i \in 0 .. VirtPages - 1
           /\ (r * ENTRIES + i) \div ENTRIES = r /\ (r * ENTRIES + i) % ENTRIES = i
<1> DEFINE E == ENTRIES
           a == Span[limit_pml - 1]
           V == VirtPages
<1>1. a \in Nat /\ a >= 1 /\ E \in Nat /\ E >= 1 /\ V = E * a
  <2>1. limit_pml - 1 \in 0 .. limit_pml /\ limit_pml \in 1 .. limit_pml
    BY LevelFacts
  <2> QED  BY <2>1, SpanFacts, LevelFacts DEF VirtPages
<1>2. r \in Nat /\ r + 1 <= a /\ i \in 0 .. E - 1 /\ i \in Nat /\ i < E /\ r \in Int
  BY <1>1 DEF Regions, Entries
<1> HIDE DEF E, a, V
<1>3. r * E + i < E * a /\ r * E + i \in Nat
  BY ONLY <1>1, <1>2, Z3
<1>4. r * E + i \in 0 .. V - 1
  BY <1>1, <1>3
<1>5. (r * E + i) \div E = r /\ (r * E + i) % E = i
  BY ONLY <1>1, <1>2, DivisionBack
<1> QED  BY <1>4, <1>5 DEF E, V

\* Two maps are the same if they agree at every address.
LEMMA SameMap ==
    ASSUME NEW f \in Maps, NEW g \in Maps,
           \A v \in 0 .. VirtPages - 1 : f[v \div ENTRIES][v % ENTRIES] = g[v \div ENTRIES][v % ENTRIES]
    PROVE  f = g
<1>1. ASSUME NEW r \in Regions
      PROVE  f[r] = g[r]
  <2>1. f[r] \in [Entries -> Int] /\ g[r] \in [Entries -> Int]
    BY DEF Maps
  <2>2. \A i \in Entries : f[r][i] = g[r][i]
    BY AddressOf
  <2> QED  BY <2>1, <2>2
<1> QED  BY <1>1 DEF Maps

\* What putting a range into a map makes of it.
LEMMA PutReads ==
    ASSUME NEW f \in Maps, NEW virt \in Nat, NEW phys \in Int, NEW n \in Nat
    PROVE  /\ Abstract!Put(f, virt, phys, n) \in Maps
           /\ \A v \in 0 .. VirtPages - 1 :
                 Abstract!Put(f, virt, phys, n)[v \div ENTRIES][v % ENTRIES] =
                    IF v \in virt .. virt + n - 1 THEN phys + v - virt
                    ELSE f[v \div ENTRIES][v % ENTRIES]
<1> DEFINE E == ENTRIES
           P == Abstract!Put(f, virt, phys, n)
           Row(r) == [i \in Entries |-> IF r * E + i \in virt .. virt + n - 1
                                        THEN phys + (r * E + i) - virt ELSE f[r][i]]
<1>1. P = [r \in Regions |-> IF r \in virt \div E .. (virt + n - 1) \div E THEN Row(r) ELSE f[r]]
  BY DEF Abstract!Put, Entries
<1>2. E \in Nat /\ E >= 1
  BY LevelFacts
<1>3. ASSUME NEW r \in Regions
      PROVE  f[r] \in [Entries -> Int] /\ Row(r) \in [Entries -> Int]
  <2>1. f[r] \in [Entries -> Int]
    BY DEF Maps
  <2>2. ASSUME NEW i \in Entries
        PROVE  (IF r * E + i \in virt .. virt + n - 1 THEN phys + (r * E + i) - virt ELSE f[r][i]) \in Int
    <3>1. r * E + i \in Int
      BY AddressOf
    <3> QED  BY <2>1, <3>1
  <2> QED  BY <2>1, <2>2
<1>4. P \in Maps
  BY <1>1, <1>3 DEF Maps
<1>5. ASSUME NEW v \in 0 .. VirtPages - 1
      PROVE  P[v \div E][v % E] = IF v \in virt .. virt + n - 1 THEN phys + v - virt
                                  ELSE f[v \div E][v % E]
  <2>1. v \div E \in Regions /\ v % E \in Entries /\ (v \div E) * E + (v % E) = v /\ v \in Nat
    BY AddressParts
  <2>2. CASE v \div E \in virt \div E .. (virt + n - 1) \div E
    BY <1>1, <2>1, <2>2
  <2>3. CASE v \div E \notin virt \div E .. (virt + n - 1) \div E
    <3>1. ASSUME v \in virt .. virt + n - 1
          PROVE  FALSE
      <4> HIDE DEF E
      <4>1. virt <= v /\ v <= virt + n - 1 /\ v \in Int /\ virt \in Int /\ virt + n - 1 \in Int
        BY <2>1, <3>1
      <4>2. virt \div E <= v \div E /\ virt \div E \in Int /\ v \div E \in Int
        BY ONLY <1>2, <4>1, DivisionMonotone
      <4>3. v \div E <= (virt + n - 1) \div E /\ (virt + n - 1) \div E \in Int
        BY ONLY <1>2, <4>1, DivisionMonotone
      <4> QED  BY <2>3, <4>2, <4>3
    <3> QED  BY <1>1, <2>1, <2>3, <3>1
  <2> QED  BY <2>2, <2>3
<1> QED  BY <1>4, <1>5

\* The view before and after a step, as walks find it.
Seen(tb, sp) == [s \in sp |-> [r \in Regions |-> RegionOf(tb, s, r)]]

LEMMA ViewIs == View = Seen(tables, spaces) /\ View' = Seen(tables', spaces')
BY DEF View, Seen, Region, RegionOf

LEMMA SeenReads ==
    ASSUME NEW tb, NEW pl, NEW sp, Rooted(tb, pl, sp)
    PROVE  /\ DOMAIN Seen(tb, sp) = sp
           /\ \A s \in sp : /\ Seen(tb, sp)[s] \in Maps
                            /\ \A v \in 0 .. VirtPages - 1 :
                                  Abstract!At(Seen(tb, sp)[s], v) = Translate(tb, s, v)
<1> SUFFICES ASSUME NEW s \in sp
             PROVE  /\ Seen(tb, sp)[s] \in Maps
                    /\ \A v \in 0 .. VirtPages - 1 :
                          Abstract!At(Seen(tb, sp)[s], v) = Translate(tb, s, v)
  BY DEF Seen
<1> DEFINE f == [r \in Regions |-> RegionOf(tb, s, r)]
<1>1. Seen(tb, sp)[s] = f /\ \A r \in Regions : f[r] = RegionOf(tb, s, r)
  BY DEF Seen
<1>2. f \in Maps /\ \A v \in 0 .. VirtPages - 1 : RegionOf(tb, s, v \div ENTRIES)[v % ENTRIES] = Translate(tb, s, v)
  BY RegionReads
<1> HIDE DEF f
<1> QED  BY <1>1, <1>2, AddressParts DEF Abstract!At

\* Two maps are the same if they agree at every address.
LEMMA SameAt ==
    ASSUME NEW f \in Maps, NEW g \in Maps,
           \A v \in 0 .. VirtPages - 1 : Abstract!At(f, v) = Abstract!At(g, v)
    PROVE  f = g
BY SameMap DEF Abstract!At

LEMMA PutAt ==
    ASSUME NEW f \in Maps, NEW virt \in Nat, NEW phys \in Int, NEW n \in Nat
    PROVE  /\ Abstract!Put(f, virt, phys, n) \in Maps
           /\ \A v \in 0 .. VirtPages - 1 :
                 Abstract!At(Abstract!Put(f, virt, phys, n), v) =
                    IF v \in virt .. virt + n - 1 THEN phys + v - virt ELSE Abstract!At(f, v)
BY PutReads DEF Abstract!At

\* An address whose page is another after the step is one of those changed.
LEMMA ChangedAt ==
    ASSUME NEW s \in spaces, s \in spaces', NEW v \in 0 .. VirtPages - 1,
           NEW pl, Rooted(tables, pl, spaces), NEW ql, Rooted(tables', ql, spaces'),
           Translate(tables', s, v) # Translate(tables, s, v)
    PROVE  v \in Abstract!Changed(s)
<1> DEFINE f == Seen(tables, spaces)
           g == Seen(tables', spaces')
           r == v \div ENTRIES
           i == v % ENTRIES
<1>1. View = f /\ View' = g
  BY ViewIs
<1>2. Abstract!At(f[s], v) = Translate(tables, s, v) /\ Abstract!At(g[s], v) = Translate(tables', s, v)
  BY SeenReads
<1>3. r \in Regions /\ i \in 0 .. ENTRIES - 1 /\ v = r * ENTRIES + i
  BY AddressParts DEF Entries
<1> HIDE DEF f, g
<1>4. g[s][r] # f[s][r]
  BY <1>2 DEF Abstract!At
<1> HIDE DEF r, i
<1> QED  BY <1>1, <1>2, <1>3, <1>4 DEF Abstract!Changed

\* The lengths of the ranges that are mapped.
Lengthy == UNION {0 .. n : n \in Lengths \cup {PageCount} \cup {r.pages : r \in Named}}

LEMMA RefinedNone ==
    ASSUME spaces' = spaces, NEW pl, Rooted(tables, pl, spaces), NEW ql, Rooted(tables', ql, spaces),
           \A t \in spaces, v \in 0 .. VirtPages - 1 : Translate(tables', t, v) = Translate(tables, t, v)
    PROVE  Refined
<1> DEFINE f == Seen(tables, spaces)
           g == Seen(tables', spaces)
<1>1. View = f /\ View' = g
  BY ViewIs
<1>2. DOMAIN f = spaces /\ DOMAIN g = spaces /\ f = [t \in spaces |-> f[t]] /\ g = [t \in spaces |-> g[t]]
  BY DEF Seen
<1>3. ASSUME NEW t \in spaces
      PROVE  f[t] = g[t]
  <2>1. f[t] \in Maps /\ g[t] \in Maps /\ \A v \in 0 .. VirtPages - 1 : Abstract!At(f[t], v) = Abstract!At(g[t], v)
    BY SeenReads
  <2> HIDE DEF f, g
  <2> QED  BY <2>1, SameAt
<1> HIDE DEF f, g
<1>4. f = g
  BY <1>2, <1>3
<1> QED  BY <1>1, <1>4 DEF Refined

\* From tables tb to tc, a range that may have been mapped in part is mapped in
\* the spaces T of the spaces sp: in all, or in s.
Mapping(tb, tc, sp, s, T, virt, phys, n) ==
    /\ \A v \in virt .. virt + n - 1 : T = IF Shared(v) THEN sp ELSE {s}
    /\ \A t \in T, v \in virt .. virt + n - 1 :
          /\ Translate(tc, t, v) = phys + v - virt
          /\ Translate(tb, t, v) = Translate(tb, s, v)
    /\ \A t \in sp, v \in 0 .. VirtPages - 1 :
          \/ Translate(tc, t, v) = Translate(tb, t, v)
          \/ t \in T /\ v \in virt .. virt + n - 1

\* Mapping a range is a step of the address spaces.
LEMMA RefinedMap ==
    ASSUME spaces' = spaces, NEW pl, Rooted(tables, pl, spaces), NEW ql, Rooted(tables', ql, spaces),
           NEW s \in spaces, NEW T, T \subseteq spaces,
           NEW virt \in Nat, NEW phys \in Int, NEW n \in Nat, virt + n <= VirtPages, n \in Lengthy,
           Mapping(tables, tables', spaces, s, T, virt, phys, n)
    PROVE  Refined
<1> DEFINE V == VirtPages
           f == Seen(tables, spaces)
           g == Seen(tables', spaces)
           D == {j \in 0 .. n - 1 : Translate(tables', s, virt + j) # Translate(tables, s, virt + j)}
<1>1. View = f /\ View' = g
  BY ViewIs
<1>20. /\ \A v \in virt .. virt + n - 1 : T = IF Shared(v) THEN spaces ELSE {s}
       /\ \A t \in T, v \in virt .. virt + n - 1 :
             /\ Translate(tables', t, v) = phys + v - virt
             /\ Translate(tables, t, v) = Translate(tables, s, v)
       /\ \A t \in spaces, v \in 0 .. VirtPages - 1 :
             \/ Translate(tables', t, v) = Translate(tables, t, v)
             \/ t \in T /\ v \in virt .. virt + n - 1
  BY DEF Mapping
<1>2. DOMAIN f = spaces /\ DOMAIN g = spaces /\ f = [t \in spaces |-> f[t]] /\ g = [t \in spaces |-> g[t]]
  BY DEF Seen
<1>3. \A t \in spaces : /\ f[t] \in Maps /\ g[t] \in Maps
                        /\ \A v \in 0 .. V - 1 : /\ Abstract!At(f[t], v) = Translate(tables, t, v)
                                                 /\ Abstract!At(g[t], v) = Translate(tables', t, v)
  BY SeenReads
<1>4. V \in Nat
  BY SpanFacts, LevelFacts DEF VirtPages
<1>5. \A v \in virt .. virt + n - 1 : v \in 0 .. V - 1 /\ s \in T
  BY <1>4, <1>20
<1>6. CASE D = {}
  <2>1. \A v \in virt .. virt + n - 1 : Translate(tables', s, v) = Translate(tables, s, v)
    <3> SUFFICES ASSUME NEW v \in virt .. virt + n - 1
                 PROVE  Translate(tables', s, v) = Translate(tables, s, v)
      OBVIOUS
    <3> DEFINE j == v - virt
    <3>1. j \in 0 .. n - 1 /\ virt + j = v
      OBVIOUS
    <3> HIDE DEF j
    <3> QED  BY <1>6, <3>1
  <2>2. \A t \in spaces, v \in 0 .. VirtPages - 1 : Translate(tables', t, v) = Translate(tables, t, v)
    <3> SUFFICES ASSUME NEW t \in T, NEW v \in virt .. virt + n - 1
                 PROVE  Translate(tables', t, v) = Translate(tables, t, v)
      BY <1>20
    <3> QED  BY <1>5, <1>20, <2>1
  <2> QED  BY <2>2, RefinedNone
<1>7. CASE D # {}
  <2>1. PICK j \in D : \A k \in D : j <= k
    <3>1. D \subseteq Nat
      OBVIOUS
    <3> HIDE DEF D
    <3> QED  BY <1>7, <3>1, LeastNumber
  <2> DEFINE u == virt + j
             m == n - j
             p == phys + j
  <2>2. /\ j \in Nat /\ j < n /\ u \in Nat /\ m \in Nat /\ p \in Int /\ u \in virt .. virt + n - 1
        /\ u + m = virt + n
        /\ Translate(tables', s, u) # Translate(tables, s, u)
    <3>1. j \in 0 .. n - 1 /\ Translate(tables', s, u) # Translate(tables, s, u)
      BY <2>1
    <3> QED  BY <3>1
  <2>3. \A v \in virt .. u - 1 : Translate(tables', s, v) = Translate(tables, s, v)
    <3> SUFFICES ASSUME NEW v \in virt .. u - 1, Translate(tables', s, v) # Translate(tables, s, v)
                 PROVE  FALSE
      OBVIOUS
    <3> DEFINE k == v - virt
    <3>1. k \in 0 .. n - 1 /\ virt + k = v /\ ~ (j <= k)
      BY <2>2
    <3> HIDE DEF k
    <3>2. k \in D
      BY <3>1
    <3> HIDE DEF D
    <3> QED  BY <2>1, <3>1, <3>2
  <2>4. m \in Lengthy
    <3>1. PICK k \in Lengths \cup {PageCount} \cup {q.pages : q \in Named} : n \in 0 .. k
      BY DEF Lengthy
    <3>2. k \in Nat
      BY VmmAssumption, NamedAssumption
    <3>3. m \in 0 .. k
      BY <2>2, <3>1, <3>2
    <3> HIDE DEF m
    <3> QED  BY <3>1, <3>3 DEF Lengthy
  <2>5. u \in 0 .. V - 1 /\ s \in T /\ T = (IF Shared(u) THEN spaces ELSE {s})
    BY <1>5, <1>20, <2>2
  <2>6. u \in Abstract!Changed(s)
    BY <2>2, <2>5, ChangedAt
  <2>7. Abstract!At(g[s], u) = p
    <3>1. Translate(tables', s, u) = phys + u - virt
      BY <1>20, <2>2, <2>5
    <3> QED  BY <1>3, <2>2, <2>5, <3>1
  <2>8. T = IF u \div ENTRIES \in SharedRegions THEN DOMAIN f ELSE {s}
    BY <1>2, <2>5, AddressParts
  <2>12. ASSUME NEW t \in spaces, NEW v \in 0 .. V - 1
         PROVE  Translate(tables', t, v) =
                   IF t \in T /\ v \in u .. u + m - 1 THEN p + v - u ELSE Translate(tables, t, v)
    <3>1. CASE t \in T /\ v \in u .. u + m - 1
      <4>1. v \in virt .. virt + n - 1 /\ phys + v - virt = p + v - u
        BY <2>2, <3>1
      <4> QED  BY <1>20, <3>1, <4>1
    <3>2. CASE ~ (t \in T /\ v \in virt .. virt + n - 1)
      <4>1. v \in u .. u + m - 1 => v \in virt .. virt + n - 1
        BY <2>2
      <4> QED  BY <1>20, <3>2, <4>1
    <3>3. CASE t \in T /\ v \in virt .. virt + n - 1 /\ v \notin u .. u + m - 1
      <4>1. v \in virt .. u - 1
        BY <2>2, <3>3
      <4>2. Translate(tables', t, v) = phys + v - virt /\ Translate(tables', s, v) = phys + v - virt
            /\ Translate(tables, t, v) = Translate(tables, s, v)
        BY <1>20, <2>5, <3>3
      <4> QED  BY <2>3, <3>3, <4>1, <4>2
    <3> QED  BY <3>1, <3>2, <3>3
  <2> HIDE DEF f, g, D, u, m, p, V
  <2>9. ASSUME NEW t \in spaces
        PROVE  g[t] = IF t \in T THEN Abstract!Put(f[t], u, p, m) ELSE f[t]
    <3> DEFINE h == Abstract!Put(f[t], u, p, m)
    <3>1. /\ h \in Maps
          /\ \A v \in 0 .. V - 1 : Abstract!At(h, v) = IF v \in u .. u + m - 1 THEN p + v - u
                                                       ELSE Abstract!At(f[t], v)
      BY <1>3, <2>2, PutAt DEF V
    <3> HIDE DEF h
    <3>2. CASE t \in T
      <4>1. \A v \in 0 .. V - 1 : Abstract!At(g[t], v) = Abstract!At(h, v)
        BY <1>3, <2>12, <3>1, <3>2
      <4>2. g[t] = h
        BY <1>3, <3>1, <4>1, SameAt DEF V
      <4> QED  BY <3>2, <4>2 DEF h
    <3>3. CASE t \notin T
      <4>1. \A v \in 0 .. V - 1 : Abstract!At(g[t], v) = Abstract!At(f[t], v)
        BY <1>3, <2>12, <3>3
      <4>2. g[t] = f[t]
        BY <1>3, <4>1, SameAt DEF V
      <4> QED  BY <3>3, <4>2
    <3> QED  BY <3>2, <3>3
  <2>10. g = [t \in DOMAIN f |-> IF t \in T THEN Abstract!Put(f[t], u, p, m) ELSE f[t]]
    BY <1>2, <2>9
  <2>11. Abstract!Map(s, u, m)
    BY <1>1, <2>7, <2>8, <2>10 DEF Abstract!Map
  <2>13. \E k \in Lengthy : Abstract!Map(s, u, k)
    BY <2>4, <2>11
  <2>14. \E w \in Abstract!Changed(s) : Abstract!Unmap(w) \/ \E k \in Lengthy : Abstract!Map(s, w, k)
    BY <2>6, <2>13
  <2>15. s \in DOMAIN View
    BY <1>1, <1>2
  <2>16. Abstract!SpacesNext
    BY <2>14, <2>15 DEF Abstract!SpacesNext, Lengthy
  <2> QED  BY <2>16 DEF Refined
<1> QED  BY <1>6, <1>7

LEMMA UserAddresses ==
    /\ \A n \in Lengths : \A j \in 0 .. n - 1 : (UserCode + j) \div Span[limit_pml - 1] < FirstCopied
    /\ \A j \in 0 .. 1 - 1 : (UserStack + j) \div Span[limit_pml - 1] < FirstCopied
<1> DEFINE a == Span[limit_pml - 1]
<1>1. a \in Nat /\ a >= 1
  <2>1. limit_pml - 1 \in 0 .. limit_pml
    BY LevelFacts
  <2> QED  BY <2>1, SpanFacts
<1>2. UserStack \in Int /\ UserStack \div a < FirstCopied /\ UserCode \in Int /\ FirstCopied \in Int
      /\ \A n \in Lengths : n \in Int /\ (UserCode + n) \div a < FirstCopied
  BY VmmAssumption, LayoutAssumption
<1> HIDE DEF a
<1>3. ASSUME NEW n \in Lengths, NEW j \in 0 .. n - 1
      PROVE  (UserCode + j) \div a < FirstCopied
  <2> DEFINE x == UserCode + j
             y == UserCode + n
  <2>1. x \in Int /\ y \in Int /\ x <= y /\ y \div a < FirstCopied
    BY <1>2
  <2> HIDE DEF x, y
  <2>2. x \div a <= y \div a /\ x \div a \in Int /\ y \div a \in Int
    BY ONLY <1>1, <2>1, DivisionMonotone
  <2> QED  BY <1>2, <2>1, <2>2 DEF x
<1>4. ASSUME NEW j \in 0 .. 1 - 1
      PROVE  (UserStack + j) \div a < FirstCopied
  <2>1. UserStack + j = UserStack
    BY <1>2
  <2> QED  BY <1>2, <2>1
<1> QED  BY <1>3, <1>4 DEF a

\* Addresses below the entries that are copied do not go around.
LEMMA BelowShared ==
    \A v \in Nat : v \div Span[limit_pml - 1] < FirstCopied => v \in 0 .. VirtPages - 1 /\ ~ Shared(v)
<1> SUFFICES ASSUME NEW v \in Nat, v \div Span[limit_pml - 1] < FirstCopied
             PROVE  v \in 0 .. VirtPages - 1 /\ ~ Shared(v)
  OBVIOUS
<1> DEFINE a == Span[limit_pml - 1]
           E == ENTRIES
           V == VirtPages
           q == v \div a
           r == v % a
<1>1. a \in Nat /\ a >= 1 /\ E \in Nat /\ E >= 1 /\ V = E * a /\ FirstCopied \in Nat /\ FirstCopied < E
  <2>1. limit_pml - 1 \in 0 .. limit_pml /\ limit_pml \in 1 .. limit_pml
    BY LevelFacts
  <2> QED  BY <2>1, SpanFacts, LevelFacts, VmmAssumption DEF VirtPages
<1>2. q < FirstCopied /\ (Shared(v) <=> q >= FirstCopied)
  BY DEF Shared
<1> HIDE DEF a, E, V
<1>3. q \in Nat /\ r \in 0 .. a - 1 /\ v = q * a + r
  BY ONLY v \in Nat, <1>1, Division
<1> HIDE DEF q, r
<1>4. q + 1 <= E /\ r \in Nat /\ r < a
  BY <1>1, <1>2, <1>3
<1>5. v < V
  BY ONLY <1>1, <1>3, <1>4, Z3
<1>6. V \in Nat
  BY ONLY <1>1, Z3
<1> QED  BY <1>1, <1>2, <1>3, <1>5, <1>6 DEF V

\* A step that takes one shared page out of all spaces is one of the address
\* spaces.
LEMMA RefinedUnmap ==
    ASSUME spaces' = spaces, NEW pl, Rooted(tables, pl, spaces), NEW ql, Rooted(tables', ql, spaces),
           NEW s \in spaces, NEW u \in 0 .. VirtPages - 1, Shared(u), Translate(tables, s, u) # NULL,
           \A t \in spaces, v \in 0 .. VirtPages - 1 :
              Translate(tables', t, v) = IF v = u THEN NULL ELSE Translate(tables, t, v)
    PROVE  Refined
<1> DEFINE V == VirtPages
           f == Seen(tables, spaces)
           g == Seen(tables', spaces)
           r == u \div ENTRIES
           i == u % ENTRIES
           Without(h) == [h EXCEPT ![r][i] = NULL]
<1>1. View = f /\ View' = g
  BY ViewIs
<1>2. DOMAIN f = spaces /\ DOMAIN g = spaces /\ f = [t \in spaces |-> f[t]] /\ g = [t \in spaces |-> g[t]]
  BY DEF Seen
<1>3. \A t \in spaces : /\ f[t] \in Maps /\ g[t] \in Maps
                        /\ \A v \in 0 .. V - 1 : /\ Abstract!At(f[t], v) = Translate(tables, t, v)
                                                 /\ Abstract!At(g[t], v) = Translate(tables', t, v)
  BY SeenReads
<1>4. r \in Regions /\ i \in Entries /\ u = r * ENTRIES + i /\ r \in SharedRegions
  BY AddressParts
<1>5. u \in Abstract!Changed(s)
  BY ChangedAt
<1> HIDE DEF f, g
<1>6. ASSUME NEW t \in spaces
      PROVE  g[t] = Without(f[t])
  <2> DEFINE h == Without(f[t])
  <2>1. h \in Maps /\ \A q \in Regions : \A j \in Entries :
                         h[q][j] = IF q = r /\ j = i THEN NULL ELSE f[t][q][j]
    <3>1. f[t] \in [Regions -> [Entries -> Int]] /\ NULL \in Int
      BY <1>3 DEF Maps, NULL
    <3> HIDE DEF r, i
    <3> QED  BY <1>4, <3>1 DEF Maps
  <2>2. ASSUME NEW v \in 0 .. V - 1
        PROVE  Abstract!At(g[t], v) = Abstract!At(h, v)
    <3>1. v \div ENTRIES \in Regions /\ v % ENTRIES \in Entries
          /\ v = (v \div ENTRIES) * ENTRIES + (v % ENTRIES)
      BY AddressParts
    <3>2. v = u <=> v \div ENTRIES = r /\ v % ENTRIES = i
      BY <1>4, <3>1
    <3>3. Abstract!At(g[t], v) = IF v = u THEN NULL ELSE f[t][v \div ENTRIES][v % ENTRIES]
      BY <1>3 DEF Abstract!At
    <3> HIDE DEF h, r, i
    <3>4. h[v \div ENTRIES][v % ENTRIES] = IF v = u THEN NULL ELSE f[t][v \div ENTRIES][v % ENTRIES]
      BY <2>1, <3>1, <3>2
    <3> QED  BY <3>3, <3>4 DEF Abstract!At
  <2> HIDE DEF h
  <2>3. g[t] = h
    BY <1>3, <2>1, <2>2, SameAt
  <2> QED  BY <2>3 DEF h
<1>7. g = [t \in DOMAIN f |-> Without(f[t])]
  BY <1>2, <1>6
<1>8. Abstract!Unmap(u)
  BY <1>1, <1>4, <1>7 DEF Abstract!Unmap
<1>9. s \in DOMAIN View
  BY <1>1, <1>2
<1>10. Abstract!SpacesNext
  BY <1>5, <1>8, <1>9 DEF Abstract!SpacesNext
<1> QED  BY <1>10 DEF Refined

\* What the addresses of space s mean when a program of n pages is loaded, as
\* far as tables tb tell.
Loaded(tb, tc, s, n, phys, stack) ==
    \A v \in 0 .. VirtPages - 1 :
        Translate(tc, s, v) = CASE Shared(v) -> Translate(tb, kernel_pml, v)
                                [] v = UserStack -> stack
                                [] v \in UserCode .. UserCode + n - 1 -> phys + v - UserCode
                                [] OTHER -> NULL

\* A step that makes a space for a program is one of the address spaces.
LEMMA RefinedLoad ==
    ASSUME NEW s, s \notin spaces, spaces' = spaces \cup {s}, kernel_pml \in spaces,
           NEW pl, Rooted(tables, pl, spaces), NEW ql, Rooted(tables', ql, spaces'),
           NEW n \in Lengths, NEW phys \in Int, NEW stack \in Int,
           \A t \in spaces, v \in 0 .. VirtPages - 1 : Translate(tables', t, v) = Translate(tables, t, v),
           Loaded(tables, tables', s, n, phys, stack)
    PROVE  Refined
<1> DEFINE V == VirtPages
           f == Seen(tables, spaces)
           g == Seen(tables', spaces')
           new == [r \in Regions |-> IF r \in SharedRegions THEN f[kernel_pml][r]
                                     ELSE [i \in Entries |-> NULL]]
           a == Abstract!At(g[s], UserCode)
           b == Abstract!At(g[s], UserStack)
           code == Abstract!Put(new, UserCode, a, n)
           full == Abstract!Put(code, UserStack, b, 1)
<1>1. View = f /\ View' = g
  BY ViewIs
<1>20. \A v \in 0 .. V - 1 :
          Translate(tables', s, v) = CASE Shared(v) -> Translate(tables, kernel_pml, v)
                                       [] v = UserStack -> stack
                                       [] v \in UserCode .. UserCode + n - 1 -> phys + v - UserCode
                                       [] OTHER -> NULL
  BY DEF Loaded
<1>2. DOMAIN f = spaces /\ DOMAIN g = spaces' /\ f = [t \in spaces |-> f[t]] /\ g = [t \in spaces' |-> g[t]]
  BY DEF Seen
<1>3. /\ \A t \in spaces : /\ f[t] \in Maps
                           /\ \A v \in 0 .. V - 1 : Abstract!At(f[t], v) = Translate(tables, t, v)
      /\ \A t \in spaces' : /\ g[t] \in Maps
                            /\ \A v \in 0 .. V - 1 : Abstract!At(g[t], v) = Translate(tables', t, v)
  <2>1. \A t \in spaces : /\ f[t] \in Maps
                          /\ \A v \in 0 .. V - 1 : Abstract!At(f[t], v) = Translate(tables, t, v)
    BY SeenReads
  <2> DEFINE tb == tables'
             sp == spaces'
  <2>2. Rooted(tb, ql, sp) /\ g = Seen(tb, sp)
    OBVIOUS
  <2> HIDE DEF tb, sp, f, g
  <2>3. \A t \in sp : /\ g[t] \in Maps
                      /\ \A v \in 0 .. V - 1 : Abstract!At(g[t], v) = Translate(tb, t, v)
    BY <2>2, SeenReads
  <2> QED  BY <2>1, <2>3 DEF tb, sp
<1> HIDE DEF f, g
<1>4. /\ V \in Nat /\ n \in Nat
      /\ UserStack \in 0 .. V - 1 /\ UserCode \in 0 .. V - 1 /\ UserStack \in Nat /\ UserCode \in Nat
      /\ \A v \in 0 .. V - 1 : v \in UserCode .. UserCode + n - 1 => ~ Shared(v)
      /\ ~ Shared(UserStack) /\ UserStack \notin UserCode .. UserCode + n - 1
  <2>1. V \in Nat /\ n \in Nat /\ UserStack \in Nat /\ UserCode \in Nat
    <3>1. limit_pml \in 0 .. limit_pml
      BY LevelFacts
    <3> QED  BY <3>1, SpanFacts, VmmAssumption DEF VirtPages
  <2>2. UserStack \div Span[limit_pml - 1] < FirstCopied /\ (UserCode + n) \div Span[limit_pml - 1] < FirstCopied
        /\ UserStack \notin UserCode .. UserCode + n - 1
    BY LayoutAssumption
  <2> HIDE DEF V
  <2>3. \A v \in Nat : v \div Span[limit_pml - 1] < FirstCopied => v \in 0 .. V - 1 /\ ~ Shared(v)
    BY BelowShared DEF V
  <2>4. UserStack \in 0 .. V - 1 /\ ~ Shared(UserStack) /\ UserCode + n \in 0 .. V - 1
    <3>1. UserCode + n \in Nat
      BY <2>1
    <3> QED  BY <2>1, <2>2, <2>3, <3>1
  <2>5. ASSUME NEW v \in 0 .. V - 1, v \in UserCode .. UserCode + n - 1
        PROVE  ~ Shared(v)
    <3> DEFINE j == v - UserCode
    <3>1. j \in 0 .. n - 1 /\ v = UserCode + j /\ v \in Nat
      BY <2>1, <2>5
    <3> HIDE DEF j
    <3>2. v \div Span[limit_pml - 1] < FirstCopied
      BY <3>1, UserAddresses
    <3> QED  BY <2>3, <3>1, <3>2
  <2> QED  BY <2>1, <2>2, <2>4, <2>5
<1>5. new \in Maps /\ \A v \in 0 .. V - 1 :
          Abstract!At(new, v) = IF Shared(v) THEN Translate(tables, kernel_pml, v) ELSE NULL
  <2>1. f[kernel_pml] \in [Regions -> [Entries -> Int]] /\ NULL \in Int
    BY <1>3 DEF Maps, NULL
  <2>2. new \in Maps
    BY <2>1 DEF Maps
  <2>3. ASSUME NEW v \in 0 .. V - 1
        PROVE  Abstract!At(new, v) = IF Shared(v) THEN Translate(tables, kernel_pml, v) ELSE NULL
    <3>1. v \div ENTRIES \in Regions /\ v % ENTRIES \in Entries
          /\ (Shared(v) <=> v \div ENTRIES \in SharedRegions)
      BY AddressParts
    <3>2. f[kernel_pml][v \div ENTRIES][v % ENTRIES] = Translate(tables, kernel_pml, v)
      BY <1>3 DEF Abstract!At
    <3> QED  BY <3>1, <3>2 DEF Abstract!At
  <2> QED  BY <2>2, <2>3
<1> HIDE DEF new, V
<1>6. s \in spaces'
  OBVIOUS
<1>7. a \in Int /\ b \in Int /\ a = Translate(tables', s, UserCode) /\ b = Translate(tables', s, UserStack)
  <2>1. ASSUME NEW h \in Maps, NEW v \in 0 .. V - 1
        PROVE  Abstract!At(h, v) \in Int
    BY AddressParts DEF Abstract!At, Maps, V
  <2> QED  BY <1>3, <1>4, <1>6, <2>1
<1>8. b = stack /\ (n >= 1 => a = phys)
  <2>1. b = stack
    BY <1>4, <1>7, <1>20 DEF V
  <2>2. ASSUME n >= 1
        PROVE  a = phys
    <3>1. UserCode \in UserCode .. UserCode + n - 1 /\ UserCode # UserStack /\ ~ Shared(UserCode)
      BY <1>4, <2>2
    <3>2. Translate(tables', s, UserCode) = phys + UserCode - UserCode
      BY <1>4, <1>20, <3>1 DEF V
    <3> QED  BY <1>4, <1>7, <3>2
  <2> QED  BY <2>1, <2>2
<1> HIDE DEF a, b
<1>9. /\ code \in Maps
      /\ \A v \in 0 .. V - 1 : Abstract!At(code, v) = IF v \in UserCode .. UserCode + n - 1 THEN a + v - UserCode
                                                      ELSE Abstract!At(new, v)
  <2>1. UserCode \in Nat /\ a \in Int /\ n \in Nat /\ new \in Maps
    BY <1>4, <1>5, <1>7
  <2> HIDE DEF a, new
  <2> QED  BY ONLY <2>1, PutAt DEF V, code
<1> HIDE DEF code
<1>10. /\ full \in Maps
       /\ \A v \in 0 .. V - 1 : Abstract!At(full, v) = IF v = UserStack THEN b ELSE Abstract!At(code, v)
  <2> DEFINE k == 1
  <2>1. k \in Nat /\ \A v \in 0 .. V - 1 : v = UserStack <=> v \in UserStack .. UserStack + k - 1
    BY <1>4
  <2>2. \A v \in 0 .. V - 1 : v = UserStack => b + v - UserStack = b
    BY <1>4, <1>7
  <2> HIDE DEF k
  <2> DEFINE h == Abstract!Put(code, UserStack, b, k)
  <2>3. /\ h \in Maps
        /\ \A v \in 0 .. V - 1 : Abstract!At(h, v) = IF v \in UserStack .. UserStack + k - 1 THEN b + v - UserStack
                                                     ELSE Abstract!At(code, v)
    <3>1. UserStack \in Nat /\ b \in Int /\ k \in Nat /\ code \in Maps
      BY <1>4, <1>7, <1>9, <2>1
    <3> QED  BY ONLY <3>1, PutAt DEF V, h
  <2>4. h = full
    BY DEF k
  <2> HIDE DEF h, full
  <2> QED  BY <2>1, <2>2, <2>3, <2>4
<1> HIDE DEF full
<1>11. g[s] = full
  <2>1. ASSUME NEW v \in 0 .. V - 1
        PROVE  Abstract!At(g[s], v) = Abstract!At(full, v)
    <3>0. v \in Int
      BY <1>4
    <3>1. Abstract!At(full, v) = IF v = UserStack THEN stack
                                 ELSE IF v \in UserCode .. UserCode + n - 1 THEN a + v - UserCode
                                 ELSE IF Shared(v) THEN Translate(tables, kernel_pml, v) ELSE NULL
      BY <1>5, <1>8, <1>9, <1>10 DEF V
    <3>2. Abstract!At(g[s], v) = CASE Shared(v) -> Translate(tables, kernel_pml, v)
                                   [] v = UserStack -> stack
                                   [] v \in UserCode .. UserCode + n - 1 -> phys + v - UserCode
                                   [] OTHER -> NULL
      BY <1>3, <1>6, <1>20 DEF V
    <3>3. v \in UserCode .. UserCode + n - 1 => a = phys /\ ~ Shared(v) /\ v # UserStack
      BY <1>4, <1>8, <3>0
    <3>4. v = UserStack => ~ Shared(v)
      BY <1>4
    <3> QED  BY <3>1, <3>2, <3>3, <3>4
  <2> QED  BY <1>3, <1>6, <1>10, <2>1, SameAt DEF V
<1>12. ASSUME NEW t \in spaces
       PROVE  g[t] = f[t] /\ t # s
  <2>1. \A v \in 0 .. V - 1 : Abstract!At(g[t], v) = Abstract!At(f[t], v)
    BY <1>3 DEF V
  <2>2. f[t] \in Maps /\ g[t] \in Maps
    BY <1>3
  <2> QED  BY <2>1, <2>2, SameAt DEF V
<1>13. g = [t \in DOMAIN f \cup {s} |-> IF t = s THEN full ELSE f[t]]
  BY <1>2, <1>11, <1>12
<1>14. Abstract!Load(s, n)
  BY <1>1, <1>13 DEF Abstract!Load, full, code, a, b, new, Entries
<1>15. n \in Lengthy
  <2>1. n \in 0 .. n
    BY <1>4
  <2> QED  BY <2>1 DEF Lengthy
<1>16. s \in DOMAIN View' \ DOMAIN View
  BY <1>1, <1>2
<1>17. Abstract!SpacesNext
  BY <1>14, <1>15, <1>16 DEF Abstract!SpacesNext, Lengthy
<1> QED  BY <1>17 DEF Refined

LEMMA AddressInWindow ==
    ASSUME NEW p \in Nat
    PROVE  /\ mmap_phys_to_kernel(p) \in 0 .. VirtPages - 1 /\ mmap_phys_to_kernel(p) \in Nat
           /\ mmap_phys_to_io(p) \in Nat
<1> DEFINE b == VirtPages
           x == p + MMAP_KERNEL_BASE
           y == p + MMAP_IO_BASE
<1>1. b \in Nat /\ b >= 1
  BY SpanFacts, LevelFacts DEF VirtPages
<1>2. x \in Nat /\ y \in Nat
  BY VmmAssumption
<1> HIDE DEF b, x, y
<1>3. x % b \in 0 .. b - 1 /\ y % b \in 0 .. b - 1
  BY ONLY <1>1, <1>2, Division
<1>4. x % b \in Nat /\ y % b \in Nat
  BY <1>1, <1>3
<1> QED  BY <1>3, <1>4 DEF mmap_phys_to_kernel, mmap_phys_to_io, b, x, y

\* The window and the heap stay as they are when what is mapped in the window
\* is the page that the address means.
LEMMA WindowKept ==
    ASSUME NEW m, NEW pl, NEW n, NEW space, NEW W, Kept(m, pl, n, space, W),
           NEW sp, kernel_pml \in sp, \A s \in sp : Root(m, pl, s), Window(m.tables, sp),
           \A p \in Memory : \A x : <<mmap_phys_to_kernel(p), x>> \in W => x = p
    PROVE  /\ Window(n.tables, sp)
           /\ \A p \in Memory : Translate(m.tables, kernel_pml, mmap_phys_to_kernel(p)) = p =>
                 Translate(n.tables, kernel_pml, mmap_phys_to_kernel(p)) = p
<1> SUFFICES ASSUME NEW p \in Memory
             PROVE  LET v == mmap_phys_to_kernel(p) IN
                    /\ TableAt(n.tables, kernel_pml, v, 0) # NULL
                    /\ Translate(n.tables, kernel_pml, v) \in {NULL, p}
                    /\ \A s \in sp : TableAt(n.tables, s, v, 0) = TableAt(n.tables, kernel_pml, v, 0)
                    /\ Translate(m.tables, kernel_pml, v) = p => Translate(n.tables, kernel_pml, v) = p
  BY DEF Window
<1> DEFINE v == mmap_phys_to_kernel(p)
<1>1. v \in 0 .. VirtPages - 1
  BY AddressInWindow, MemoryFacts
<1>2. /\ TableAt(m.tables, kernel_pml, v, 0) # NULL
      /\ Translate(m.tables, kernel_pml, v) \in {NULL, p}
      /\ \A s \in sp : TableAt(m.tables, s, v, 0) = TableAt(m.tables, kernel_pml, v, 0)
  BY DEF Window
<1>3. \A x : <<v, x>> \in W => x = p
  OBVIOUS
<1> HIDE DEF v
<1>4. \A s \in sp : TableAt(n.tables, s, v, 0) = TableAt(m.tables, s, v, 0)
  BY <1>1, <1>2 DEF Kept
<1>5. \/ Translate(n.tables, kernel_pml, v) = Translate(m.tables, kernel_pml, v)
      \/ Translate(n.tables, kernel_pml, v) = p
  BY <1>1, <1>3 DEF Kept
<1> QED  BY <1>2, <1>4, <1>5 DEF v

LEMMA HeapKept ==
    ASSUME NEW tb, NEW tc, NEW bl, HeapPart(tb, bl), \A b \in bl : Pages(b) \subseteq Memory,
           \A p \in Memory : Translate(tb, kernel_pml, mmap_phys_to_kernel(p)) = p =>
              Translate(tc, kernel_pml, mmap_phys_to_kernel(p)) = p
    PROVE  HeapPart(tc, bl)
BY DEF HeapPart

\* The addresses of programs are not in the window.
LEMMA UserApart ==
    ASSUME NEW W, \A v, x : <<v, x>> \in W => ~ Shared(v)
    PROVE  \A p \in Memory : \A x : <<mmap_phys_to_kernel(p), x>> \in W => x = p
BY WindowAssumption DEF Shared

\* A space keeps what it means when other spaces change, below what is shared.
LEMMA UserKept ==
    ASSUME NEW m, NEW pl, NEW n, NEW space, NEW W, Kept(m, pl, n, space, W),
           \A v, x : <<v, x>> \in W => ~ Shared(v),
           NEW s, Root(m, pl, s), s # space, NEW v \in 0 .. VirtPages - 1
    PROVE  Translate(n.tables, s, v) = Translate(m.tables, s, v)
BY DEF Kept

\* What the addresses of a new space mean after a program is loaded.
LEMMA LoadedMeans ==
    ASSUME NEW m, NEW pl, Root(m, pl, kernel_pml),
           NEW x, NEW ql, Spaced(m, pl, x, ql),
           NEW n \in Lengths,
           NEW y, NEW rl, NEW R, Added(x, ql, y, rl, R, x.at, UserCode, n), ~ y.panic,
           NEW c, c.tables = y.tables,
           NEW z, NEW sl, NEW Q, Added(c, rl, z, sl, Q, x.at, UserStack, 1), ~ z.panic
    PROVE  \E phys \in Int, stack \in Int : Loaded(m.tables, z.tables, x.at, n, phys, stack)
<1> DEFINE s == x.at
           V == VirtPages
           k == 1
<1>1. /\ n \in Nat /\ UserCode \in Nat /\ UserStack \in Nat /\ k \in Nat /\ V \in Nat /\ V >= 1
      /\ n <= V /\ k <= V /\ UserStack < V /\ UserCode + n < V
  <2>1. n \in Nat /\ UserStack \in Nat /\ UserCode \in Nat /\ UserCode + n \in Nat
    BY VmmAssumption
  <2>2. V \in Nat /\ V >= 1
    <3>1. limit_pml \in 0 .. limit_pml
      BY LevelFacts
    <3> QED  BY <3>1, SpanFacts DEF VirtPages
  <2>3. UserStack \in 0 .. V - 1 /\ UserCode + n \in 0 .. V - 1
    BY <2>1, BelowShared, LayoutAssumption
  <2> HIDE DEF V
  <2> QED  BY <2>1, <2>2, <2>3
<1>2. /\ \A j \in 0 .. n - 1 : (UserCode + j) \div Span[limit_pml - 1] < FirstCopied
      /\ \A j \in 0 .. k - 1 : (UserStack + j) \div Span[limit_pml - 1] < FirstCopied
  BY UserAddresses
<1>3. /\ Kept(m, pl, x, s, {}) /\ Root(x, ql, s)
      /\ \A v \in 0 .. V - 1 :
            /\ Shared(v) => TableAt(x.tables, s, v, 0) = TableAt(x.tables, kernel_pml, v, 0)
            /\ ~ Shared(v) => Translate(x.tables, s, v) = NULL
  BY DEF Spaced
<1>4. Root(c, rl, s)
  <2>1. Root(y, rl, s)
    BY <1>3, RootStays DEF Added
  <2> HIDE DEF s
  <2> QED  BY <2>1 DEF Root
<1>5. PICK phys \in Int : /\ Kept(x, ql, y, s, Moves(UserCode, phys, n))
                          /\ Means(y.tables, s, UserCode, phys, n)
  BY <1>1 DEF Added
<1>6. PICK stack \in Int : /\ Kept(c, rl, z, s, Moves(UserStack, stack, k))
                           /\ Means(z.tables, s, UserStack, stack, k)
  BY <1>1 DEF Added
<1> HIDE DEF s, V, k
<1>7. ASSUME NEW v \in 0 .. V - 1
      PROVE  /\ \/ Translate(y.tables, s, v) = Translate(x.tables, s, v)
                \/ ~ Shared(v) /\ v \in UserCode .. UserCode + n - 1
             /\ \/ Translate(z.tables, s, v) = Translate(y.tables, s, v)
                \/ ~ Shared(v) /\ v = UserStack
  <2>1. ASSUME NEW a, <<v, a>> \in Moves(UserCode, phys, n)
        PROVE  ~ Shared(v) /\ v \in UserCode .. UserCode + n - 1
    <3>1. ~ Shared(v) /\ v \in Nat /\ a - phys = v - UserCode /\ a \in phys .. phys + n - 1
      BY <1>1, <1>2, <2>1, UserMoves
    <3> QED  BY <1>1, <3>1
  <2>2. ASSUME NEW a, <<v, a>> \in Moves(UserStack, stack, k)
        PROVE  ~ Shared(v) /\ v = UserStack
    <3>1. ~ Shared(v) /\ v \in Nat /\ a - stack = v - UserStack /\ a \in stack .. stack + k - 1
      BY <1>1, <1>2, <2>2, UserMoves
    <3> QED  BY <1>1, <3>1 DEF k
  <2>3. \/ Translate(y.tables, s, v) = Translate(x.tables, s, v)
        \/ <<v, Translate(y.tables, s, v)>> \in Moves(UserCode, phys, n)
    BY <1>3, <1>5 DEF Kept, V
  <2>4. \/ Translate(z.tables, s, v) = Translate(c.tables, s, v)
        \/ <<v, Translate(z.tables, s, v)>> \in Moves(UserStack, stack, k)
    BY <1>4, <1>6 DEF Kept, V
  <2> QED  BY <2>1, <2>2, <2>3, <2>4
<1>8. ASSUME NEW v \in 0 .. V - 1, Shared(v)
      PROVE  Translate(x.tables, s, v) = Translate(m.tables, kernel_pml, v)
  <2>1. Translate(x.tables, s, v) = Translate(x.tables, kernel_pml, v)
    BY <1>3, <1>8 DEF Translate
  <2>2. Translate(x.tables, kernel_pml, v) = Translate(m.tables, kernel_pml, v)
    BY <1>3 DEF Kept, V
  <2> QED  BY <2>1, <2>2
<1>9. ASSUME NEW v \in UserCode .. UserCode + n - 1
      PROVE  Translate(y.tables, s, v) = phys + v - UserCode
  <2> DEFINE j == v - UserCode
  <2>1. j \in 0 .. n - 1 /\ UserCode + j = v /\ v % V = v /\ phys + j = phys + v - UserCode
    <3>1. v \in Nat /\ v < V
      BY <1>1
    <3>2. v % V = v
      BY ONLY <1>1, <3>1, Z3
    <3> QED  BY <1>1, <3>1, <3>2
  <2> HIDE DEF j
  <2>2. Translate(y.tables, s, (UserCode + j) % V) = phys + j
    BY <1>5, <2>1 DEF Means, V
  <2> QED  BY <2>1, <2>2
<1>10. Translate(z.tables, s, UserStack) = stack
  <2> DEFINE j == 0
  <2>1. j \in 0 .. k - 1 /\ (UserStack + j) = UserStack /\ stack + j = stack
    BY <1>1 DEF k
  <2>2. UserStack % V = UserStack
    BY ONLY <1>1, Z3
  <2> HIDE DEF j
  <2>3. Translate(z.tables, s, (UserStack + j) % V) = stack + j
    BY <1>6, <2>1 DEF Means, V
  <2> QED  BY <2>1, <2>2, <2>3
<1>11. UserStack \notin UserCode .. UserCode + n - 1 /\ ~ Shared(UserStack)
       /\ \A v \in UserCode .. UserCode + n - 1 : ~ Shared(v)
  <2>1. UserStack \notin UserCode .. UserCode + n - 1 /\ ~ Shared(UserStack)
    BY <1>1, BelowShared, LayoutAssumption
  <2>2. ASSUME NEW v \in UserCode .. UserCode + n - 1
        PROVE  ~ Shared(v)
    <3> DEFINE j == v - UserCode
    <3>1. j \in 0 .. n - 1 /\ UserCode + j = v /\ v \in Nat
      BY <1>1
    <3> HIDE DEF j
    <3>2. v \div Span[limit_pml - 1] < FirstCopied
      BY <1>2, <3>1
    <3> QED  BY <3>1, <3>2, BelowShared
  <2> QED  BY <2>1, <2>2
<1>12. ASSUME NEW v \in 0 .. V - 1
       PROVE  Translate(z.tables, s, v) =
                 CASE Shared(v) -> Translate(m.tables, kernel_pml, v)
                   [] v = UserStack -> stack
                   [] v \in UserCode .. UserCode + n - 1 -> phys + v - UserCode
                   [] OTHER -> NULL
  <2>1. CASE Shared(v)
    <3>1. Translate(z.tables, s, v) = Translate(m.tables, kernel_pml, v)
      BY <1>7, <1>8, <2>1
    <3> QED  BY <1>11, <2>1, <3>1
  <2>2. CASE ~ Shared(v) /\ v = UserStack
    BY <1>10, <1>11, <2>2
  <2>3. CASE ~ Shared(v) /\ v # UserStack /\ v \in UserCode .. UserCode + n - 1
    <3>1. Translate(z.tables, s, v) = phys + v - UserCode
      BY <1>7, <1>9, <2>3
    <3> QED  BY <2>3, <3>1
  <2>4. CASE ~ Shared(v) /\ v # UserStack /\ v \notin UserCode .. UserCode + n - 1
    <3>1. Translate(x.tables, s, v) = NULL
      BY <1>3, <2>4
    <3> QED  BY <1>7, <2>4, <3>1
  <2> QED  BY <2>1, <2>2, <2>3, <2>4
<1>13. Loaded(m.tables, z.tables, s, n, phys, stack)
  BY <1>12 DEF Loaded, V
<1> QED  BY <1>13 DEF s

\* A memory whose spaces are apart can be worked on.
LEMMA ApartReady ==
    ASSUME NEW m \in Machines, NEW pl, NEW bl, NEW sh, Apart(m.tables, m.used, pl, bl, sh)
    PROVE  Ready(m, pl)
BY DEF Ready, Apart

\* A call that completes leaves the memory as it has made it.
LEMMA Completed ==
    ASSUME NEW m \in Machines, Completes(m), kernel_pml \in spaces',
           NEW pl, Apart(m.tables, m.used, pl, blocks', shared'), \A s \in spaces' : Root(m, pl, s),
           Window(m.tables, spaces'), HeapPart(m.tables, blocks'), SharedPart(shared')
    PROVE  VmmInv'
<1>1. tables' = m.tables /\ used' = m.used /\ last_index' = m.last_index
  BY DEF Completes
<1>2. Now' \in Machines
  <2> DEFINE b == FALSE
             a == NULL
  <2>1. Now' = [tables |-> tables', used |-> used', last_index |-> last_index',
                at |-> a, panic |-> b, fault |-> b]
    BY DEF Now
  <2>2. a \in Int /\ b \in BOOLEAN
    BY DEF NULL
  <2> HIDE DEF a, b
  <2> QED  BY <1>1, <2>1, <2>2, MachineIs DEF Machines
<1>3. Roots(tables, pl)'
  BY <1>1 DEF Roots, Root
<1>4. Apart(tables', used', pl, blocks', shared')
  BY <1>1
<1>5. Window(tables', spaces') /\ HeapPart(tables', blocks')
  BY <1>1
<1> QED  BY <1>2, <1>3, <1>4, <1>5 DEF VmmInv

LEMMA Stopped ==
    ASSUME VmmInv, UNCHANGED <<tables, used, last_index, spaces, blocks, shared>>
    PROVE  VmmInv' /\ Stays /\ Refined
<1>1. VmmInv'
  BY DEF VmmInv, Now, Roots
<1>2. Stays
  BY DEF Stays
<1>3. UNCHANGED View
  BY DEF View, Region
<1> QED  BY <1>1, <1>2, <1>3 DEF Refined

LEMMA MapNewPanics ==
    ASSUME NEW m \in Machines, m.panic, NEW space, NEW virt, NEW k
    PROVE  MapNew(m, space, virt, k).panic
<1> DEFINE x == [m EXCEPT !.panic = TRUE]
<1>1. MapNew(m, space, virt, k) = x
  BY DEF MapNew
<1>2. x.panic
  <2>1. x = [m EXCEPT !.panic = TRUE]
    OBVIOUS
  <2> HIDE DEF x
  <2> QED  BY <2>1, PanicFacts
<1> QED  BY <1>1, <1>2

\* After a panic what the calls return is still a memory.
LEMMA SpacePanics ==
    ASSUME NEW m, NEW pl, Ready(m, pl), ~ m.panic, NEW x, x = vmm_create_space(m), x.panic
    PROVE  x \in Machines
<1> DEFINE new == Cleared(UNWRAP_OR_PANIC(pmm_alloc(m, 1)))
           raw == [new EXCEPT !.tables[new.at] =
                      [i \in DOMAIN @ |-> IF i >= FirstCopied THEN m.tables[kernel_pml][i] ELSE @[i]]]
<1>1. x = IF new.panic THEN new ELSE raw
  BY DEF vmm_create_space
<1>2. m \in Machines /\ DOMAIN m.tables \subseteq m.used
  BY DEF Ready
<1> HIDE DEF new
<1>3. new \in Machines
  BY <1>2, NewTable DEF new
<1>4. raw.panic = new.panic
  BY <1>3, MachineIs
<1> HIDE DEF raw
<1> QED  BY <1>1, <1>3, <1>4

LEMMA BlocksInMemory ==
    ASSUME VmmInv, NEW pl, Apart(tables, used, pl, blocks, shared)
    PROVE  used \subseteq Memory /\ \A b \in blocks : Pages(b) \subseteq Memory
<1>1. Now.used \in SUBSET Memory
  BY MachineIs DEF VmmInv
<1> QED  BY <1>1, NowIs DEF Apart

\* A program is loaded: a space of its own, its code, and its stack.
LEMMA LoadKeeps ==
    ASSUME VmmInv, NEW n \in Lengths, load_elf_module(n)
    PROVE  VmmInv' /\ Stays /\ Refined
<1> DEFINE space == vmm_create_space(Now)
           s == space.at
           new == MapNew(space, s, UserCode, n)
           code == LoadNew(space, s, UserCode, n)
           m == MapNew(code, s, UserStack, 1)
<1>1. \/ Completes(m) /\ spaces' = spaces \cup {s} /\ UNCHANGED <<blocks, shared>>
      \/ Stops(m)
  BY DEF load_elf_module
<1>2. CASE Stops(m)
  BY <1>2, Stopped DEF Stops
<1>3. CASE Completes(m) /\ spaces' = spaces \cup {s} /\ UNCHANGED <<blocks, shared>>
  <2>0. n \in Nat /\ UserCode \in Nat /\ UserStack \in Nat /\ 1 \in Nat
    BY VmmAssumption
  <2>1. PICK pl : Apart(tables, used, pl, blocks, shared) /\ Roots(tables, pl)
    BY DEF VmmInv
  <2>2. Now \in Machines /\ Ready(Now, pl) /\ ~ Now.panic /\ \A t \in spaces : Root(Now, pl, t)
    BY <2>1, NowIs, ApartReady DEF VmmInv, Roots
  <2>3. Root(Now, pl, kernel_pml) /\ kernel_pml \in spaces
    BY <2>2 DEF VmmInv
  <2>4. ~ m.panic
    BY <1>3 DEF Completes
  <2>5. code = IF new.panic THEN new ELSE Written(new, new.at, n)
    BY DEF LoadNew, Stored
  <2>6. space.panic => code \in Machines /\ code.panic
    <3>0. SUFFICES ASSUME space.panic
                   PROVE  code \in Machines /\ code.panic
      OBVIOUS
    <3>1. space \in Machines
      BY <2>2, <3>0, SpacePanics
    <3> DEFINE y == [space EXCEPT !.panic = TRUE]
    <3>2. new = y
      <4> HIDE DEF space, s
      <4> QED  BY <3>0 DEF MapNew
    <3>3. y \in Machines /\ y.panic
      <4> HIDE DEF space
      <4>1. y = [space EXCEPT !.panic = TRUE]
        OBVIOUS
      <4> HIDE DEF y
      <4> QED  BY <3>1, <4>1, PanicFacts
    <3> HIDE DEF new, code, y
    <3>4. code = new
      BY <2>5, <3>2, <3>3
    <3> QED  BY <3>2, <3>3, <3>4
  <2>7. ~ space.panic
    <3> HIDE DEF code, space
    <3> QED  BY <2>4, <2>6, MapNewPanics
  <2> HIDE DEF m, code, new
  <2>30. PICK ql : Spaced(Now, pl, space, ql)
    <3>1. space = vmm_create_space(Now)
      OBVIOUS
    <3> HIDE DEF space
    <3> QED  BY <2>2, <2>3, <2>7, <3>1, SpaceGrows
  <2>8. /\ Grown(Now, pl, space, ql, s, {}) /\ Root(space, ql, s) /\ s \notin Now.used
        /\ Kept(Now, pl, space, s, {})
        /\ \A v \in 0 .. VirtPages - 1 :
              Shared(v) => TableAt(space.tables, s, v, 0) = TableAt(space.tables, kernel_pml, v, 0)
    BY <2>30 DEF Spaced
  <2> HIDE DEF space
  <2>9. Apart(space.tables, space.used, ql, blocks, shared) /\ space \in Machines
        /\ \A t \in spaces \cup {s} : Root(space, ql, t)
    <3>1. Apart(Now.tables, Now.used, pl, blocks, shared)
      BY <2>1, NowIs
    <3>2. Apart(space.tables, space.used, ql, blocks, shared)
      BY <2>8, <3>1, ApartAfter
    <3>3. \A t \in spaces : Root(space, ql, t)
      BY <2>2, <2>8, RootStays
    <3> QED  BY <2>8, <3>2, <3>3 DEF Grown
  <2>31. PICK rl, R : Added(space, ql, new, rl, R, s, UserCode, n)
    <3>1. new = MapNew(space, s, UserCode, n)
      BY DEF new
    <3> QED  BY <2>0, <2>9, <2>8, <3>1, ApartReady, MapNewGrows
  <2>10. Grown(space, ql, new, rl, s, R) /\ R \cap space.used = {}
    BY <2>31 DEF Added
  <2>11. Apart(new.tables, new.used, rl, blocks, shared) /\ new \in Machines
         /\ \A t \in spaces \cup {s} : Root(new, rl, t)
    <3>1. Apart(new.tables, new.used, rl, blocks, shared)
      BY <2>9, <2>10, ApartAfter
    <3>2. \A t \in spaces \cup {s} : Root(new, rl, t)
      BY <2>9, <2>10, RootStays
    <3> QED  BY <2>10, <3>1, <3>2 DEF Grown
  <2>12. code \in Machines /\ code.tables = new.tables /\ code.used = new.used
    <3>1. CASE new.panic
      BY <2>5, <2>11, <3>1
    <3>2. CASE ~ new.panic
      BY <2>5, <2>11, <3>2, WrittenFacts
    <3> QED  BY <3>1, <3>2
  <2>13. Apart(code.tables, code.used, rl, blocks, shared) /\ \A t \in spaces \cup {s} : Root(code, rl, t)
    BY <2>11, <2>12 DEF Root
  <2>32. PICK sl, Q : Added(code, rl, m, sl, Q, s, UserStack, 1)
    <3>1. m = MapNew(code, s, UserStack, 1)
      BY DEF m
    <3>2. Ready(code, rl) /\ Root(code, rl, s)
      BY <2>12, <2>13, ApartReady
    <3> DEFINE k == 1
    <3>3. k \in Nat /\ m = MapNew(code, s, UserStack, k)
      BY <3>1
    <3> HIDE DEF k
    <3>4. \E sl, Q : Added(code, rl, m, sl, Q, s, UserStack, k)
      BY ONLY <2>0, <3>2, <3>3, MapNewGrows
    <3> QED  BY <3>4 DEF k
  <2>14. Grown(code, rl, m, sl, s, Q) /\ Q \cap code.used = {}
    BY <2>32 DEF Added
  <2>15. Apart(m.tables, m.used, sl, blocks, shared) /\ m \in Machines
         /\ \A t \in spaces \cup {s} : Root(m, sl, t)
    <3>1. Apart(m.tables, m.used, sl, blocks, shared)
      BY <2>13, <2>14, ApartAfter
    <3>2. \A t \in spaces \cup {s} : Root(m, sl, t)
      BY <2>13, <2>14, RootStays
    <3> QED  BY <2>14, <3>1, <3>2 DEF Grown
  <2>17. PICK W : Kept(space, ql, new, s, W) /\ \A v, x : <<v, x>> \in W => ~ Shared(v)
    <3>1. PICK at \in Int : Kept(space, ql, new, s, Moves(UserCode, at, n))
      BY <2>31 DEF Added
    <3>2. \A j \in 0 .. n - 1 : (UserCode + j) \div Span[limit_pml - 1] < FirstCopied
      BY UserAddresses
    <3>3. \A v, x : <<v, x>> \in Moves(UserCode, at, n) => ~ Shared(v)
      BY <2>0, <3>2, UserMoves
    <3> QED  BY <3>1, <3>3
  <2>18. PICK V : Kept(code, rl, m, s, V) /\ \A v, x : <<v, x>> \in V => ~ Shared(v)
    <3>1. PICK at \in Int : Kept(code, rl, m, s, Moves(UserStack, at, 1))
      BY <2>32 DEF Added
    <3> DEFINE k == 1
    <3>2. k \in Nat /\ \A j \in 0 .. k - 1 : (UserStack + j) \div Span[limit_pml - 1] < FirstCopied
      BY UserAddresses
    <3> HIDE DEF k
    <3>3. \A v, x : <<v, x>> \in Moves(UserStack, at, k) => ~ Shared(v)
      BY <2>0, <3>2, UserMoves
    <3> QED  BY <3>1, <3>3 DEF k
  <2>19. /\ Window(space.tables, spaces \cup {s})
         /\ \A p \in Memory : Translate(tables, kernel_pml, mmap_phys_to_kernel(p)) = p =>
               Translate(space.tables, kernel_pml, mmap_phys_to_kernel(p)) = p
    <3> DEFINE none == {}
    <3>1. Window(Now.tables, spaces) /\ Now.tables = tables
      BY NowIs DEF VmmInv
    <3>2. Kept(Now, pl, space, s, none) /\ \A p \in Memory : \A x : <<mmap_phys_to_kernel(p), x>> \in none => x = p
      BY <2>8
    <3> HIDE DEF none
    <3>3. /\ Window(space.tables, spaces)
          /\ \A p \in Memory : Translate(Now.tables, kernel_pml, mmap_phys_to_kernel(p)) = p =>
                Translate(space.tables, kernel_pml, mmap_phys_to_kernel(p)) = p
      BY <2>2, <2>3, <3>1, <3>2, WindowKept
    <3>4. ASSUME NEW p \in Memory
          PROVE  TableAt(space.tables, s, mmap_phys_to_kernel(p), 0) =
                 TableAt(space.tables, kernel_pml, mmap_phys_to_kernel(p), 0)
      <4>1. mmap_phys_to_kernel(p) \in 0 .. VirtPages - 1
        BY AddressInWindow, MemoryFacts
      <4>2. Shared(mmap_phys_to_kernel(p))
        BY WindowAssumption DEF Shared
      <4> QED  BY <2>8, <4>1, <4>2
    <3> HIDE DEF s
    <3>5. Window(space.tables, spaces \cup {s})
      BY <3>3, <3>4 DEF Window
    <3> QED  BY <3>1, <3>3, <3>5
  <2>20. /\ Window(new.tables, spaces \cup {s})
         /\ \A p \in Memory : Translate(space.tables, kernel_pml, mmap_phys_to_kernel(p)) = p =>
               Translate(new.tables, kernel_pml, mmap_phys_to_kernel(p)) = p
    <3>1. \A p \in Memory : \A x : <<mmap_phys_to_kernel(p), x>> \in W => x = p
      BY <2>17, UserApart
    <3>2. kernel_pml \in spaces \cup {s}
      BY <2>3
    <3> HIDE DEF s
    <3> QED  BY <2>9, <2>17, <2>19, <3>1, <3>2, WindowKept
  <2>21. /\ Window(m.tables, spaces \cup {s})
         /\ \A p \in Memory : Translate(code.tables, kernel_pml, mmap_phys_to_kernel(p)) = p =>
               Translate(m.tables, kernel_pml, mmap_phys_to_kernel(p)) = p
    <3>1. \A p \in Memory : \A x : <<mmap_phys_to_kernel(p), x>> \in V => x = p
      BY <2>18, UserApart
    <3>2. kernel_pml \in spaces \cup {s} /\ Window(code.tables, spaces \cup {s})
      BY <2>3, <2>12, <2>20
    <3> HIDE DEF s
    <3> QED  BY <2>13, <2>18, <3>1, <3>2, WindowKept
  <2>22. HeapPart(m.tables, blocks)
    <3>1. HeapPart(tables, blocks) /\ \A b \in blocks : Pages(b) \subseteq Memory
      BY <2>1, BlocksInMemory DEF VmmInv
    <3>2. \A p \in Memory : Translate(tables, kernel_pml, mmap_phys_to_kernel(p)) = p =>
             Translate(m.tables, kernel_pml, mmap_phys_to_kernel(p)) = p
      BY <2>12, <2>19, <2>20, <2>21
    <3> QED  BY <3>1, <3>2, HeapKept
  <2>23. ASSUME NEW t \in spaces, NEW v \in 0 .. VirtPages - 1
         PROVE  Translate(m.tables, t, v) = Translate(tables, t, v)
    <3>1. t # s
      <4>1. t \in DOMAIN tables /\ DOMAIN tables \subseteq used /\ s \notin used
        BY <2>1, <2>8, NowIs DEF Roots, Apart
      <4> HIDE DEF s
      <4> QED  BY <4>1
    <3>2. Root(Now, pl, t) /\ Root(space, ql, t) /\ Root(code, rl, t)
      BY <2>2, <2>9, <2>13
    <3>3. Translate(space.tables, t, v) = Translate(Now.tables, t, v)
      <4> DEFINE none == {}
      <4>1. Kept(Now, pl, space, s, none) /\ \A a, x : <<a, x>> \in none => ~ Shared(a)
        BY <2>8
      <4> HIDE DEF none, s
      <4> QED  BY <3>1, <3>2, <4>1, UserKept
    <3> HIDE DEF s
    <3>4. Translate(new.tables, t, v) = Translate(space.tables, t, v)
      BY <2>17, <3>1, <3>2, UserKept
    <3>5. Translate(m.tables, t, v) = Translate(code.tables, t, v)
      BY <2>18, <3>1, <3>2, UserKept
    <3> QED  BY <2>12, <3>3, <3>4, <3>5, NowIs
  <2>24. Stays
    <3>1. tables' = m.tables
      BY <1>3 DEF Completes, m, code, space
    <3> QED  BY <2>23, <3>1 DEF Stays
  <2>16. /\ Completes(m) /\ spaces' = spaces \cup {s} /\ blocks' = blocks /\ shared' = shared
         /\ kernel_pml \in spaces'
    BY <1>3, <2>3 DEF m, code, space
  <2> HIDE DEF s
  <2>25. Window(m.tables, spaces') /\ HeapPart(m.tables, blocks')
    BY <2>16, <2>21, <2>22
  <2>26. Apart(m.tables, m.used, sl, blocks', shared') /\ \A t \in spaces' : Root(m, sl, t)
    BY <2>15, <2>16
  <2>27. VmmInv'
    BY <2>15, <2>16, <2>25, <2>26, Completed DEF VmmInv
  <2>28. Rooted(tables, pl, spaces) /\ Rooted(m.tables, sl, spaces')
    BY <2>1, <2>26 DEF Rooted, Roots, Root, Apart
  <2>29. ~ code.panic /\ ~ new.panic
    <3>1. m = MapNew(code, s, UserStack, 1)
      BY DEF m
    <3>2. ~ code.panic
      BY <2>4, <2>12, <3>1, MapNewPanics
    <3> QED  BY <2>5, <3>2
  <2>33. PICK phys \in Int, stack \in Int : Loaded(Now.tables, m.tables, s, n, phys, stack)
    BY <2>3, <2>4, <2>12, <2>29, <2>30, <2>31, <2>32, LoadedMeans DEF s
  <2>34. s \notin spaces
    BY <2>1, <2>8, NowIs DEF Roots, Apart
  <2>35. Refined
    <3>1. tables' = m.tables /\ Now.tables = tables
      BY <2>16, NowIs DEF Completes
    <3> QED  BY <2>3, <2>16, <2>23, <2>28, <2>33, <2>34, <3>1, RefinedLoad
  <2> QED  BY <2>24, <2>27, <2>35
<1> QED  BY <1>1, <1>2, <1>3

LEMMA WindowStep ==
    ASSUME NEW base \in Nat, NEW j \in Nat
    PROVE  (mmap_phys_to_kernel(base) + j) % VirtPages = mmap_phys_to_kernel(base + j)
<1> DEFINE V == VirtPages
           x == base + MMAP_KERNEL_BASE
           y == base + j + MMAP_KERNEL_BASE
           q == x \div V
           r == x % V
           p == (r + j) \div V
           c == (r + j) % V
<1>1. V \in Nat /\ V >= 1 /\ x \in Nat /\ x + j = y
  BY SpanFacts, LevelFacts, VmmAssumption DEF VirtPages
<1>2. mmap_phys_to_kernel(base) = r /\ mmap_phys_to_kernel(base + j) = y % V
  BY DEF mmap_phys_to_kernel
<1> HIDE DEF V, x, y
<1>3. q \in Nat /\ r \in 0 .. V - 1 /\ x = q * V + r
  BY ONLY <1>1, Division
<1>4. r + j \in Nat /\ r \in Nat
  BY <1>1, <1>3
<1> HIDE DEF q, r
<1>5. p \in Nat /\ c \in 0 .. V - 1 /\ r + j = p * V + c
  BY ONLY <1>1, <1>4, Division
<1>6. c = (r + j) % V
  OBVIOUS
<1> HIDE DEF p, c
<1>7. (q + p) * V = q * V + p * V /\ q * V \in Nat /\ p * V \in Nat
  BY ONLY <1>1, <1>3, <1>5, Z3
<1> DEFINE d == q + p
<1>8. y = d * V + c /\ d \in Int
  BY <1>1, <1>3, <1>4, <1>5, <1>7
<1> HIDE DEF d
<1>9. (d * V + c) % V = c
  BY ONLY <1>1, <1>5, <1>8, DivisionBack
<1> QED  BY <1>2, <1>6, <1>8, <1>9 DEF V

\* The pages handed out have addresses of their own.
LEMMA WindowApart ==
    /\ \A p \in Memory : p \in Nat /\ p < VirtPages
    /\ \A p \in Memory : \A q \in Memory : mmap_phys_to_kernel(p) = mmap_phys_to_kernel(q) => p = q
<1> DEFINE a == Span[limit_pml - 1]
           E == ENTRIES
           V == VirtPages
<1>1. a \in Nat /\ a >= 1 /\ E \in Nat /\ E >= 1 /\ V = E * a /\ FirstCopied \in Nat /\ FirstCopied < E
  <2>1. limit_pml - 1 \in 0 .. limit_pml /\ limit_pml \in 1 .. limit_pml
    BY LevelFacts
  <2> QED  BY <2>1, SpanFacts, LevelFacts, VmmAssumption DEF VirtPages
<1>2. V \in Nat /\ V >= 1
  BY SpanFacts, LevelFacts DEF VirtPages
<1>3. \A p \in Memory : p \in Nat /\ p \div a < FirstCopied
  BY WindowAssumption, MemoryFacts
<1>4. MMAP_KERNEL_BASE \in Nat
  BY VmmAssumption
<1>5. \A p : mmap_phys_to_kernel(p) = (p + MMAP_KERNEL_BASE) % V
  BY DEF mmap_phys_to_kernel
<1> HIDE DEF a, E, V
<1>6. ASSUME NEW p \in Memory
      PROVE  p \in Nat /\ p < V
  <2> DEFINE q == p \div a
             r == p % a
  <2>1. p \in Nat /\ q < FirstCopied
    BY <1>3
  <2>2. q \in Nat /\ r \in 0 .. a - 1 /\ p = q * a + r
    BY ONLY <1>1, <2>1, Division
  <2>3. q \in Nat /\ q + 1 <= E /\ r \in Nat /\ r < a
    BY <1>1, <2>1, <2>2
  <2> HIDE DEF q, r
  <2>4. p < V
    BY ONLY <1>1, <2>2, <2>3, Z3
  <2> QED  BY <2>1, <2>4
<1>7. ASSUME NEW p \in Memory, NEW q \in Memory, mmap_phys_to_kernel(p) = mmap_phys_to_kernel(q)
      PROVE  p = q
  <2> DEFINE x == p + MMAP_KERNEL_BASE
             y == q + MMAP_KERNEL_BASE
  <2>1. x \in Nat /\ y \in Nat /\ x - y < V /\ y - x < V /\ x % V = y % V
    BY <1>2, <1>4, <1>5, <1>6, <1>7
  <2> HIDE DEF x, y
  <2>2. x = y
    BY ONLY <1>2, <2>1, RangeApart
  <2> QED  BY <1>4, <1>6, <2>2 DEF x, y
<1> QED  BY <1>6, <1>7 DEF V

\* The addresses of the pages of a range, as memory, are those of programs.
Low(r) == \A p \in Pages(r) : p \div Span[limit_pml - 1] < FirstCopied

LEMMA LowRanges ==
    /\ \A r \in Ranges : Pages(r) \subseteq Memory => Low(r)
    /\ \A r \in Named : r \in Ranges /\ Low(r)
<1>1. \A p \in Memory : p \div Span[limit_pml - 1] < FirstCopied
  BY WindowAssumption
<1>2. \A r \in Named : r \in Ranges /\ Low(r)
  BY NamedAssumption DEF Ranges, Low, Pages
<1> QED  BY <1>1, <1>2 DEF Low

\* A mapping in one space below what is shared is a step of the address
\* spaces: the range is mapped where it is in memory.
LEMMA SharedRefined ==
    ASSUME VmmInv, NEW pl, Apart(tables, used, pl, blocks, shared), Roots(tables, pl),
           NEW s \in spaces \ {kernel_pml}, NEW r \in Ranges, Low(r), r.pages \in Lengthy,
           NEW m, Kept(Now, pl, m, s, Moves(r.base, r.base, r.pages)),
           r.pages <= VirtPages => Means(m.tables, s, r.base, r.base, r.pages),
           tables' = m.tables, spaces' = spaces, NEW rl, Rooted(m.tables, rl, spaces)
    PROVE  Refined
<1> DEFINE V == VirtPages
           base == r.base
           n == r.pages
           T == {s}
<1>1. base \in Nat /\ base \in Int /\ n \in Nat /\ V \in Nat /\ V >= 1 /\ Pages(r) = base .. base + n - 1
  <2>1. limit_pml \in 0 .. limit_pml
    BY LevelFacts
  <2> QED  BY <2>1, SpanFacts DEF Ranges, Pages, VirtPages
<1>2. Rooted(tables, pl, spaces) /\ \A t \in spaces : Root(Now, pl, t)
  BY NowIs DEF Rooted, Roots, Root, Apart
<1>3. \A v \in Pages(r) : v \in Nat /\ v < V /\ ~ Shared(v)
  <2> SUFFICES ASSUME NEW v \in Pages(r)
               PROVE  v \in Nat /\ v < V /\ ~ Shared(v)
    OBVIOUS
  <2>1. v \in Nat /\ v \div Span[limit_pml - 1] < FirstCopied
    BY <1>1 DEF Low
  <2>2. v \in 0 .. V - 1 /\ ~ Shared(v)
    BY <2>1, BelowShared
  <2> QED  BY <1>1, <2>1, <2>2
<1> HIDE DEF V, base, n
<1>4. n = 0 \/ base + n <= V
  <2>1. n = 0 \/ base + n - 1 \in Pages(r)
    BY <1>1
  <2>2. n = 0 \/ base + n - 1 < V
    BY <1>3, <2>1
  <2> QED  BY <1>1, <2>2
<1>5. ASSUME NEW t \in spaces, NEW v \in 0 .. V - 1
      PROVE  \/ Translate(m.tables, t, v) = Translate(tables, t, v)
             \/ t \in T /\ v \in base .. base + n - 1
  <2>1. ASSUME NEW x, <<v, x>> \in Moves(base, base, n), Shared(v) \/ t = s
        PROVE  t \in T /\ v \in base .. base + n - 1
    <3>1. \A j \in 0 .. n - 1 : (base + j) \div Span[limit_pml - 1] < FirstCopied
      <4> SUFFICES ASSUME NEW j \in 0 .. n - 1
                   PROVE  (base + j) \div Span[limit_pml - 1] < FirstCopied
        OBVIOUS
      <4>1. base + j \in Pages(r)
        BY <1>1
      <4> QED  BY <4>1 DEF Low
    <3>2. ~ Shared(v) /\ v \in Nat /\ x - base = v - base /\ x \in base .. base + n - 1
      BY <1>1, <2>1, <3>1, UserMoves
    <3> QED  BY <1>1, <2>1, <3>2
  <2>2. \/ Translate(m.tables, t, v) = Translate(Now.tables, t, v)
        \/ /\ <<v, Translate(m.tables, t, v)>> \in Moves(base, base, n)
           /\ Shared(v) \/ t = s
    BY <1>2 DEF Kept, V, base, n
  <2> QED  BY <2>1, <2>2, NowIs
<1>6. CASE n = 0
  <2>1. \A t \in spaces, v \in 0 .. V - 1 : Translate(tables', t, v) = Translate(tables, t, v)
    <3>1. base .. base + n - 1 = {}
      BY <1>1, <1>6
    <3> QED  BY <1>5, <3>1
  <2> QED  BY <1>2, <2>1, RefinedNone DEF V
<1>7. CASE base + n <= V
  <2>1. n <= V
    BY <1>1, <1>7
  <2>2. ASSUME NEW v \in base .. base + n - 1
        PROVE  T = (IF Shared(v) THEN spaces ELSE {s}) /\ Translate(m.tables, s, v) = base + v - base
    <3> DEFINE j == v - base
    <3>1. j \in 0 .. n - 1 /\ base + j = v /\ v \in Nat /\ v < V /\ base + v - base = v
      BY <1>1, <1>7
    <3>2. v % V = v
      BY ONLY <1>1, <3>1, Z3
    <3> HIDE DEF j
    <3>3. Translate(m.tables, s, (base + j) % V) = base + j
      BY <2>1, <3>1 DEF Means, V, base, n
    <3>4. ~ Shared(v)
      BY <1>1, <1>3
    <3> QED  BY <3>1, <3>2, <3>3, <3>4
  <2>3. \A t \in T, v \in base .. base + n - 1 :
           /\ Translate(tables', t, v) = base + v - base
           /\ Translate(tables, t, v) = Translate(tables, s, v)
    BY <2>2
  <2>4. \A v \in base .. base + n - 1 : T = IF Shared(v) THEN spaces ELSE {s}
    BY <2>2
  <2>5. T \subseteq spaces /\ s \in spaces
    OBVIOUS
  <2>6. \A t \in spaces, v \in 0 .. V - 1 :
           \/ Translate(tables', t, v) = Translate(tables, t, v)
           \/ t \in T /\ v \in base .. base + n - 1
    BY <1>5
  <2>7. Rooted(tables', rl, spaces) /\ n \in Lengthy
    BY DEF n
  <2> HIDE DEF T
  <2>8. Mapping(tables, tables', spaces, s, T, base, base, n)
    BY <2>3, <2>4, <2>6 DEF Mapping, V
  <2> QED  BY <1>1, <1>2, <1>7, <2>5, <2>7, <2>8, RefinedMap DEF V
<1> QED  BY <1>4, <1>6, <1>7

\* Mapping a range of memory where it is in memory: the window and the heap stay
\* as they are.
LEMMA SharedMaps ==
    ASSUME VmmInv, NEW pl, Apart(tables, used, pl, blocks, shared), Roots(tables, pl),
           NEW s \in spaces \ {kernel_pml}, NEW r \in Ranges, Low(r),
           NEW m, Kept(Now, pl, m, s, Moves(r.base, r.base, r.pages)),
           tables' = m.tables, r \in shared' \cup Named
    PROVE  Window(m.tables, spaces) /\ HeapPart(m.tables, blocks) /\ Stays
<1> DEFINE W == Moves(r.base, r.base, r.pages)
<1>1. r.base \in Nat /\ r.base \in Int /\ r.pages \in Nat
  BY DEF Ranges
<1>2. \A j \in 0 .. r.pages - 1 : (r.base + j) \div Span[limit_pml - 1] < FirstCopied
  <2> SUFFICES ASSUME NEW j \in 0 .. r.pages - 1
               PROVE  (r.base + j) \div Span[limit_pml - 1] < FirstCopied
    OBVIOUS
  <2>1. r.base + j \in Pages(r)
    BY <1>1 DEF Pages
  <2> QED  BY <2>1 DEF Low
<1>3. ASSUME NEW v, NEW x, <<v, x>> \in W
      PROVE  ~ Shared(v) /\ x = v /\ v \in Pages(r)
  <2>1. ~ Shared(v) /\ v \in Nat /\ x - r.base = v - r.base /\ x \in r.base .. r.base + r.pages - 1
    BY <1>1, <1>2, <1>3, UserMoves
  <2> QED  BY <1>1, <2>1 DEF Pages
<1>4. Kept(Now, pl, m, s, W)
  OBVIOUS
<1> HIDE DEF W
<1>5. /\ Window(Now.tables, spaces) /\ kernel_pml \in spaces /\ Now.tables = tables
      /\ \A t \in spaces : Root(Now, pl, t)
  BY NowIs DEF VmmInv, Roots
<1>6. \A p \in Memory : \A x : <<mmap_phys_to_kernel(p), x>> \in W => x = p
  BY <1>3, UserApart
<1>7. /\ Window(m.tables, spaces)
      /\ \A p \in Memory : Translate(Now.tables, kernel_pml, mmap_phys_to_kernel(p)) = p =>
            Translate(m.tables, kernel_pml, mmap_phys_to_kernel(p)) = p
  BY <1>4, <1>5, <1>6, WindowKept
<1>8. HeapPart(tables, blocks) /\ \A b \in blocks : Pages(b) \subseteq Memory
  BY BlocksInMemory DEF VmmInv
<1>9. HeapPart(m.tables, blocks)
  BY <1>5, <1>7, <1>8, HeapKept
<1>10. Stays
  <2> SUFFICES ASSUME NEW t \in spaces, NEW v \in 0 .. VirtPages - 1
               PROVE  \/ Translate(m.tables, t, v) = Translate(tables, t, v)
                      \/ Translate(m.tables, t, v) = v /\ v \in Pages(r)
    BY DEF Stays
  <2> DEFINE x == Translate(m.tables, t, v)
  <2>1. Root(Now, pl, t)
    BY <1>5
  <2>2. x = Translate(Now.tables, t, v) \/ <<v, x>> \in W
    BY <1>4, <2>1 DEF Kept
  <2> HIDE DEF x
  <2> QED  BY <1>3, <1>5, <2>2 DEF x
<1> QED  BY <1>7, <1>9, <1>10

\* Shared memory is made, in one space.
LEMMA CreateKeeps ==
    ASSUME VmmInv, NEW s \in spaces \ {kernel_pml}, NEW n \in Lengths, syscall_create_shared_mem(s, n)
    PROVE  VmmInv' /\ Stays /\ Refined
<1> DEFINE buff == pmm_alloc(Now, n)
           m == vmm_map_range(buff, s, buff.at, buff.at, n)
           R == buff.at .. buff.at + n - 1
           r == [base |-> buff.at, pages |-> n]
<1>1. IF buff.at = NULL
         THEN Completes(buff) /\ UNCHANGED <<spaces, blocks, shared>>
         ELSE \/ Completes(m) /\ shared' = shared \cup {r} /\ UNCHANGED <<spaces, blocks>>
              \/ Stops(m)
  BY DEF syscall_create_shared_mem
<1>2. n \in Nat
  BY VmmAssumption
<1>3. PICK pl : Apart(tables, used, pl, blocks, shared) /\ Roots(tables, pl)
  BY DEF VmmInv
<1>4. Now \in Machines /\ kernel_pml \in spaces /\ \A t \in spaces : Root(Now, pl, t)
  BY <1>3, NowIs DEF VmmInv, Roots
<1>5. /\ buff \in Machines /\ buff.tables = tables
      /\ buff.at = NULL => buff.used = used
      /\ buff.at # NULL => /\ buff.at \in Memory
                           /\ R \subseteq Memory \ used
                           /\ buff.used = used \cup R
  <2> HIDE DEF buff
  <2>1. buff = pmm_alloc(Now, n)
    BY DEF buff
  <2> QED  BY <1>2, <1>4, <2>1, AllocFacts, NowIs
<1> HIDE DEF buff
<1>6. CASE buff.at = NULL
  <2>1. Completes(buff) /\ spaces' = spaces /\ blocks' = blocks /\ shared' = shared
    BY <1>1, <1>6
  <2>2. Apart(buff.tables, buff.used, pl, blocks, shared) /\ \A t \in spaces : Root(buff, pl, t)
    BY <1>3, <1>4, <1>5, <1>6, NowIs DEF Root
  <2>3. Window(buff.tables, spaces) /\ HeapPart(buff.tables, blocks)
    BY <1>5 DEF VmmInv
  <2>4. VmmInv'
    BY <1>4, <1>5, <2>1, <2>2, <2>3, Completed DEF VmmInv
  <2>5. tables' = tables
    BY <1>5, <2>1 DEF Completes
  <2>6. UNCHANGED View
    BY <2>1, <2>5 DEF View, Region
  <2> QED  BY <2>4, <2>5, <2>6 DEF Stays, Refined
<1>7. CASE buff.at # NULL
  <2>1. buff.at \in Nat /\ buff.at \in Int
    BY <1>5, <1>7, MemoryFacts
  <2> DEFINE Q == R
  <2>2. buff.used = used \cup Q /\ Q \cap used = {} /\ buff.at .. buff.at + n - 1 \subseteq Q
    BY <1>5, <1>7
  <2> HIDE DEF Q
  <2>3. /\ Tree(buff.tables, pl) /\ DOMAIN tables \subseteq used
        /\ DOMAIN buff.tables \subseteq buff.used
        /\ s \in DOMAIN buff.tables /\ s \in Int /\ pl[s] = RootPlace(s)
    BY <1>3, <1>5, <2>2 DEF Apart, Roots
  <2> DEFINE W == Moves(buff.at, buff.at, n)
  <2>4. \A v, p : <<v, p>> \in W => p \in Q
    BY <1>2, <2>1, MovesPages DEF Q
  <2>5. PICK rl : From(buff, pl, m, rl, s, W)
    <3>1. m = vmm_map_range(buff, s, buff.at, buff.at, n)
      OBVIOUS
    <3> HIDE DEF m
    <3> QED  BY <1>2, <1>5, <2>1, <2>3, <3>1, MapRange
  <2>13. ~ m.panic /\ n <= VirtPages => Means(m.tables, s, buff.at, buff.at, n)
    <3>1. m = vmm_map_range(buff, s, buff.at, buff.at, n)
      OBVIOUS
    <3> HIDE DEF m
    <3> QED  BY <1>2, <1>5, <2>1, <2>3, <3>1, MapRange
  <2> HIDE DEF m, W
  <2>6. Grown(Now, pl, m, rl, s, Q)
    <3>1. buff.tables = Now.tables /\ buff.used = Now.used \cup Q /\ DOMAIN Now.tables \subseteq Now.used
          /\ Q \cap DOMAIN Now.tables = {}
      BY <1>5, <2>2, <2>3, NowIs
    <3> QED  BY <1>4, <2>4, <2>5, <3>1, FromGrown
  <2>7. r \in Ranges /\ Pages(r) = Q
    BY <1>2, <2>1 DEF Ranges, Pages, Q
  <2>12. Kept(Now, pl, m, s, W) /\ Ready(Now, pl)
    <3>1. Ready(Now, pl) /\ buff.tables = Now.tables
      BY <1>3, <1>4, <1>5, NowIs, ApartReady
    <3> QED  BY <2>5, <3>1, FromKept
  <2>8. \A t \in spaces : Root(m, rl, t)
    BY <1>4, <2>6, RootStays
  <2>9. Apart(m.tables, m.used, rl, blocks, shared \cup {r})
    <3>1. Apart(Now.tables, Now.used, pl, blocks, shared) /\ Q \cap Now.used = {}
      BY <1>3, <2>2, NowIs
    <3> HIDE DEF r
    <3> QED  BY <2>6, <2>7, <3>1, ApartShared
  <2>10. CASE Completes(m) /\ shared' = shared \cup {r} /\ UNCHANGED <<spaces, blocks>>
    <3>1. m \in Machines
      BY <2>6 DEF Grown
    <3>2. spaces' = spaces /\ blocks' = blocks /\ shared' = shared \cup {r} /\ Completes(m)
      BY <2>10
    <3>3. Kept(Now, pl, m, s, Moves(r.base, r.base, r.pages)) /\ Low(r)
      <4>1. r.base = buff.at /\ r.pages = n
        OBVIOUS
      <4> HIDE DEF r
      <4>2. Pages(r) \subseteq Memory
        BY <1>5, <1>7, <2>7 DEF Q
      <4> QED  BY <2>7, <2>12, <4>1, <4>2, LowRanges DEF W
    <3>4. r \in shared' \cup Named /\ tables' = m.tables
      BY <3>2 DEF Completes
    <3> HIDE DEF r
    <3>5. Window(m.tables, spaces) /\ HeapPart(m.tables, blocks) /\ Stays
      BY <1>3, <2>7, <3>3, <3>4, SharedMaps
    <3>7. r.base = buff.at /\ r.pages = n
      BY DEF r
    <3>8. SharedPart(shared')
      BY <3>2, <3>7 DEF VmmInv, SharedPart
    <3>6. VmmInv'
      BY <1>4, <2>8, <2>9, <3>1, <3>2, <3>5, <3>8, Completed
    <3>9. Rooted(m.tables, rl, spaces)
      BY <2>8, <2>9 DEF Rooted, Root, Apart
    <3>10. r.pages \in Lengthy
      <4>1. n \in 0 .. n
        BY <1>2
      <4> QED  BY <3>7, <4>1 DEF Lengthy
    <3>11. r.pages <= VirtPages => Means(m.tables, s, r.base, r.base, r.pages)
      BY <2>13, <3>2, <3>7 DEF Completes
    <3>12. Refined
      BY <1>3, <2>7, <3>2, <3>3, <3>4, <3>9, <3>10, <3>11, SharedRefined
    <3> QED  BY <3>5, <3>6, <3>12
  <2>11. CASE Stops(m)
    BY <2>11, Stopped DEF Stops
  <2> QED  BY <1>1, <1>7, <2>10, <2>11 DEF m
<1> QED  BY <1>6, <1>7

\* A range is received, mapped in one space: shared memory, whose pages the
\* space may reach as its own, or what a message has named.
LEMMA ReceiveKeeps ==
    ASSUME VmmInv, NEW s \in spaces \ {kernel_pml}, syscall_ipc_rcv_sync(s)
    PROVE  VmmInv' /\ Stays /\ Refined
<1>0. PICK r \in shared \cup Named :
         LET m == vmm_map_range(Now, s, r.base, r.base, r.pages) IN
         \/ Completes(m) /\ UNCHANGED <<spaces, blocks, shared>>
         \/ Stops(m)
  BY DEF syscall_ipc_rcv_sync
<1> DEFINE m == vmm_map_range(Now, s, r.base, r.base, r.pages)
           R == IF r \in shared THEN Pages(r) ELSE {}
<1>1. \/ Completes(m) /\ UNCHANGED <<spaces, blocks, shared>>
      \/ Stops(m)
  BY <1>0
<1>2. PICK pl : Apart(tables, used, pl, blocks, shared) /\ Roots(tables, pl)
  BY DEF VmmInv
<1>3. Now \in Machines /\ kernel_pml \in spaces /\ \A t \in spaces : Root(Now, pl, t)
  BY <1>2, NowIs DEF VmmInv, Roots
<1>16. r \in Ranges /\ Low(r)
  <2>1. CASE r \in shared
    <3>1. r \in Ranges /\ Pages(r) \subseteq Memory
      BY <1>2, <2>1, BlocksInMemory DEF Apart, PagesOf
    <3> QED  BY <3>1, LowRanges
  <2> QED  BY <2>1, LowRanges
<1>4. r.base \in Nat /\ r.base \in Int /\ r.pages \in Nat /\ Pages(r) = r.base .. r.base + r.pages - 1
  BY <1>16 DEF Ranges, Pages
<1>5. R \subseteq PagesOf(shared)
  BY DEF PagesOf
<1>17. Pages(r) \subseteq R \/ Pages(r) \subseteq PagesOf(Named)
  BY DEF PagesOf
<1> HIDE DEF R
<1>6. Tree(Now.tables, pl) /\ DOMAIN Now.tables \subseteq Now.used
      /\ s \in DOMAIN Now.tables /\ s \in Int /\ pl[s] = RootPlace(s)
      /\ R \cap DOMAIN Now.tables = {} /\ Now.used = Now.used \cup R
  BY <1>2, <1>5, NowIs DEF Apart, Roots
<1> DEFINE W == Moves(r.base, r.base, r.pages)
<1>7. \A v, p : <<v, p>> \in W => p \in R \/ (p = v /\ p \in PagesOf(Named))
  <2> SUFFICES ASSUME NEW v, NEW p, <<v, p>> \in W
               PROVE  p = v /\ p \in Pages(r)
    BY <1>17
  <2>1. \A j \in 0 .. r.pages - 1 : (r.base + j) \div Span[limit_pml - 1] < FirstCopied
    <3> SUFFICES ASSUME NEW j \in 0 .. r.pages - 1
                 PROVE  (r.base + j) \div Span[limit_pml - 1] < FirstCopied
      OBVIOUS
    <3>1. r.base + j \in Pages(r)
      BY <1>4
    <3> QED  BY <1>16, <3>1 DEF Low
  <2> DEFINE base == r.base
             n == r.pages
  <2>2. base \in Nat /\ base \in Int /\ n \in Nat /\ <<v, p>> \in Moves(base, base, n)
        /\ \A j \in 0 .. n - 1 : (base + j) \div Span[limit_pml - 1] < FirstCopied
    BY <1>4, <2>1
  <2> HIDE DEF base, n, W
  <2>3. ~ Shared(v) /\ v \in Nat /\ p - base = v - base /\ p \in base .. base + n - 1
    BY <2>2, UserMoves
  <2>4. p = v
    BY <2>2, <2>3
  <2> QED  BY <1>4, <2>3, <2>4 DEF base, n
<1>8. PICK rl : From(Now, pl, m, rl, s, W)
  <2>1. m = vmm_map_range(Now, s, r.base, r.base, r.pages)
    OBVIOUS
  <2> HIDE DEF m
  <2> QED  BY <1>3, <1>4, <1>6, <2>1, MapRange
<1>15. ~ m.panic /\ r.pages <= VirtPages => Means(m.tables, s, r.base, r.base, r.pages)
  <2>1. m = vmm_map_range(Now, s, r.base, r.base, r.pages)
    OBVIOUS
  <2> HIDE DEF m
  <2> QED  BY <1>3, <1>4, <1>6, <2>1, MapRange
<1> HIDE DEF m, W
<1>9. Grown(Now, pl, m, rl, s, R)
  BY <1>3, <1>6, <1>7, <1>8, FromGrown
<1>14. Kept(Now, pl, m, s, W)
  <2>1. Ready(Now, pl)
    BY <1>2, <1>3, NowIs, ApartReady
  <2> QED  BY <1>8, <2>1, FromKept
<1>10. Apart(m.tables, m.used, rl, blocks, shared)
  <2>1. Apart(Now.tables, Now.used, pl, blocks, shared) /\ R \cap Now.used \subseteq PagesOf(shared)
    BY <1>2, <1>5, NowIs
  <2> QED  BY <1>9, <2>1, ApartAfter
<1>11. \A t \in spaces : Root(m, rl, t)
  BY <1>3, <1>9, RootStays
<1>12. CASE Completes(m) /\ UNCHANGED <<spaces, blocks, shared>>
  <2>1. m \in Machines
    BY <1>9 DEF Grown
  <2>2. spaces' = spaces /\ blocks' = blocks /\ shared' = shared /\ Completes(m)
    BY <1>12
  <2>4. r \in shared' \cup Named /\ tables' = m.tables
    BY <2>2 DEF Completes
  <2>5. Window(m.tables, spaces) /\ HeapPart(m.tables, blocks) /\ Stays
    BY <1>2, <1>14, <1>16, <2>4, SharedMaps DEF W
  <2>6. VmmInv'
    BY <1>3, <1>10, <1>11, <2>1, <2>2, <2>5, Completed DEF VmmInv
  <2>7. Rooted(m.tables, rl, spaces)
    BY <1>10, <1>11 DEF Rooted, Root, Apart
  <2>8. r.pages \in Lengthy
    <3>2. r.pages \in Lengths \cup {PageCount} \cup {q.pages : q \in Named}
      BY DEF VmmInv, SharedPart
    <3>1. r.pages \in 0 .. r.pages
      BY <1>4
    <3> QED  BY <3>1, <3>2 DEF Lengthy
  <2>9. r.pages <= VirtPages => Means(m.tables, s, r.base, r.base, r.pages)
    BY <1>15, <2>2 DEF Completes
  <2>10. Refined
    BY <1>2, <1>14, <1>16, <2>2, <2>4, <2>7, <2>8, <2>9, SharedRefined DEF W
  <2> QED  BY <2>5, <2>6, <2>10
<1>13. CASE Stops(m)
  BY <1>13, Stopped DEF Stops
<1> QED  BY <1>1, <1>12, <1>13 DEF m

LEMMA WindowSame ==
    ASSUME NEW tb, NEW sp, Window(tb, sp), NEW s \in sp, NEW p \in Memory
    PROVE  /\ Translate(tb, s, mmap_phys_to_kernel(p)) = Translate(tb, kernel_pml, mmap_phys_to_kernel(p))
           /\ Translate(tb, s, mmap_phys_to_kernel(p)) \in {NULL, p}
BY DEF Window, Translate

\* Mapping pages in the window: each gets the address that it has there.
LEMMA HeapMaps ==
    ASSUME VmmInv, NEW pl, Apart(tables, used, pl, blocks, shared), Roots(tables, pl),
           NEW base \in Memory, NEW n \in Nat, base .. base + n - 1 \subseteq Memory,
           NEW m, Kept(Now, pl, m, kernel_pml, Moves(mmap_phys_to_kernel(base), base, n)),
           tables' = m.tables
    PROVE  /\ Window(m.tables, spaces) /\ HeapPart(m.tables, blocks) /\ Stays
           /\ n <= VirtPages
           /\ \A j \in 0 .. n - 1 : (mmap_phys_to_kernel(base) + j) % VirtPages = mmap_phys_to_kernel(base + j)
<1> DEFINE V == VirtPages
           v == mmap_phys_to_kernel(base)
           W == Moves(v, base, n)
<1>1. V \in Nat /\ V >= 1 /\ base \in Nat /\ base \in Int /\ MMAP_KERNEL_BASE \in Nat /\ v \in Nat
      /\ base + MMAP_KERNEL_BASE \in Nat
  BY SpanFacts, LevelFacts, MemoryFacts, AddressInWindow, VmmAssumption DEF VirtPages
<1>2. n <= V
  <2>1. n = 0 \/ base + n - 1 \in Memory
    BY <1>1
  <2>2. n = 0 \/ base + n - 1 < V
    BY <2>1, WindowApart
  <2> HIDE DEF V
  <2> QED  BY <1>1, <2>2
<1>3. ASSUME NEW j \in 0 .. n - 1
      PROVE  (v + j) % V = mmap_phys_to_kernel(base + j) /\ base + j \in Memory
  <2>1. base + j \in Memory /\ j \in Nat
    BY <1>1
  <2> QED  BY <1>1, <2>1, WindowStep
<1>4. ASSUME NEW u, NEW x, <<u, x>> \in W
      PROVE  x \in Memory /\ u = mmap_phys_to_kernel(x)
  <2>1. PICK j \in 0 .. n - 1 : <<u, x>> = <<(v + j) % VirtPages, base + j>>
    BY <1>4 DEF Moves
  <2>2. u = (v + j) % V /\ x = base + j
    BY <2>1
  <2> HIDE DEF v, V
  <2> QED  BY <1>3, <2>2
<1>5. Kept(Now, pl, m, kernel_pml, W)
  OBVIOUS
<1> HIDE DEF W, v, V
<1>6. /\ Window(Now.tables, spaces) /\ kernel_pml \in spaces /\ Now.tables = tables
      /\ \A t \in spaces : Root(Now, pl, t)
  BY NowIs DEF VmmInv, Roots
<1>7. \A p \in Memory : \A x : <<mmap_phys_to_kernel(p), x>> \in W => x = p
  BY <1>4, WindowApart
<1>8. /\ Window(m.tables, spaces)
      /\ \A p \in Memory : Translate(Now.tables, kernel_pml, mmap_phys_to_kernel(p)) = p =>
            Translate(m.tables, kernel_pml, mmap_phys_to_kernel(p)) = p
  BY <1>5, <1>6, <1>7, WindowKept
<1>9. HeapPart(tables, blocks) /\ \A b \in blocks : Pages(b) \subseteq Memory
  BY BlocksInMemory DEF VmmInv
<1>10. HeapPart(m.tables, blocks)
  BY <1>6, <1>8, <1>9, HeapKept
<1>11. Stays
  <2> SUFFICES ASSUME NEW t \in spaces, NEW u \in 0 .. VirtPages - 1
               PROVE  Translate(tables, t, u) \in {NULL, Translate(m.tables, t, u)}
    BY DEF Stays
  <2> DEFINE x == Translate(m.tables, t, u)
  <2>1. Root(Now, pl, t)
    BY <1>6
  <2>2. x = Translate(Now.tables, t, u) \/ <<u, x>> \in W
    BY <1>5, <2>1 DEF Kept
  <2> HIDE DEF x
  <2>3. CASE <<u, x>> \in W
    <3>1. x \in Memory /\ u = mmap_phys_to_kernel(x)
      BY <1>4, <2>3
    <3>2. Translate(tables, t, mmap_phys_to_kernel(x)) \in {NULL, x}
      BY <1>6, <3>1, WindowSame
    <3> QED  BY <3>1, <3>2 DEF x
  <2> QED  BY <1>6, <2>2, <2>3 DEF x
<1> QED  BY <1>2, <1>3, <1>8, <1>10, <1>11 DEF v, V

\* A mapping in the window is a step of the address spaces: each page gets the
\* address that it has there, in all spaces.
LEMMA HeapRefined ==
    ASSUME VmmInv, NEW pl, Apart(tables, used, pl, blocks, shared), Roots(tables, pl),
           NEW base \in Memory, NEW n \in Nat, base .. base + n - 1 \subseteq Memory, n \in Lengthy,
           NEW m, Kept(Now, pl, m, kernel_pml, Moves(mmap_phys_to_kernel(base), base, n)),
           Window(m.tables, spaces), n <= VirtPages,
           Means(m.tables, kernel_pml, mmap_phys_to_kernel(base), base, n),
           tables' = m.tables, spaces' = spaces, NEW rl, Rooted(m.tables, rl, spaces)
    PROVE  Refined
<1> DEFINE V == VirtPages
           u == mmap_phys_to_kernel(base)
<1>1. base \in Nat /\ base \in Int /\ V \in Nat /\ V >= 1 /\ u \in 0 .. V - 1 /\ u \in Nat
  <2>1. limit_pml \in 0 .. limit_pml
    BY LevelFacts
  <2>2. V \in Nat /\ V >= 1
    BY <2>1, SpanFacts DEF VirtPages
  <2> QED  BY <2>2, MemoryFacts, AddressInWindow
<1>2. Rooted(tables, pl, spaces) /\ kernel_pml \in spaces /\ \A t \in spaces : Root(Now, pl, t)
  BY NowIs DEF Rooted, Roots, Root, Apart, VmmInv
<1>3. ASSUME NEW j \in 0 .. n - 1
      PROVE  (u + j) % V = mmap_phys_to_kernel(base + j) /\ base + j \in Memory
  <2>1. base + j \in Memory /\ j \in Nat
    BY <1>1
  <2> QED  BY <1>1, <2>1, WindowStep
<1>4. u + n <= V
  <2> SUFFICES ASSUME ~ (u + n <= V)
               PROVE  FALSE
    OBVIOUS
  <2> DEFINE j == V - u
  <2> HIDE DEF u, V
  <2>1. j \in 0 .. n - 1 /\ u + j = V
    BY <1>1
  <2> HIDE DEF j
  <2>2. V % V = 0
    BY ONLY <1>1, Z3
  <2>3. mmap_phys_to_kernel(base + j) = 0 /\ base + j \in Memory
    BY <1>3, <2>1, <2>2
  <2> DEFINE a == Span[limit_pml - 1]
  <2>4. a \in Nat /\ a >= 1 /\ FirstCopied >= 1 /\ FirstCopied \in Nat
    <3>1. limit_pml - 1 \in 0 .. limit_pml
      BY LevelFacts
    <3> QED  BY <3>1, SpanFacts, LevelFacts
  <2>5. 0 \div a >= FirstCopied
    BY <2>3, WindowAssumption
  <2> HIDE DEF a
  <2>6. 0 \div a = 0
    BY ONLY <2>4, Z3
  <2> QED  BY <2>4, <2>5, <2>6
<1>5. ASSUME NEW v \in u .. u + n - 1
      PROVE  /\ Shared(v)
             /\ \A t \in spaces : /\ Translate(m.tables, t, v) = base + v - u
                                  /\ Translate(tables, t, v) = Translate(tables, kernel_pml, v)
  <2> DEFINE j == v - u
  <2>1. j \in 0 .. n - 1 /\ u + j = v /\ v \in Nat /\ v < V /\ base + v - u = base + j
    <3> HIDE DEF u, V
    <3> QED  BY <1>1, <1>4
  <2> HIDE DEF j, u
  <2>2. v % V = v
    <3> HIDE DEF V
    <3> QED  BY ONLY <1>1, <2>1, Z3
  <2>3. mmap_phys_to_kernel(base + j) = v /\ base + j \in Memory
    BY <1>3, <2>1, <2>2
  <2>4. Translate(m.tables, kernel_pml, (u + j) % VirtPages) = base + j
    BY <2>1 DEF Means, u
  <2>5. Translate(m.tables, kernel_pml, v) = base + j
    BY <2>1, <2>2, <2>4
  <2>6. Shared(v)
    BY <2>3, WindowAssumption DEF Shared
  <2>7. Window(tables, spaces)
    BY DEF VmmInv
  <2>8. \A t \in spaces : /\ Translate(m.tables, t, v) = Translate(m.tables, kernel_pml, v)
                          /\ Translate(tables, t, v) = Translate(tables, kernel_pml, v)
    BY <2>3, <2>7, WindowSame
  <2> QED  BY <2>1, <2>5, <2>6, <2>8
<1>6. ASSUME NEW t \in spaces, NEW v \in 0 .. V - 1
      PROVE  \/ Translate(m.tables, t, v) = Translate(tables, t, v)
             \/ v \in u .. u + n - 1
  <2>1. ASSUME NEW x, <<v, x>> \in Moves(u, base, n)
        PROVE  v \in u .. u + n - 1
    <3>1. PICK j \in 0 .. n - 1 : v = (u + j) % V
      <4> HIDE DEF u
      <4>1. PICK j \in 0 .. n - 1 : <<v, x>> = <<(u + j) % VirtPages, base + j>>
        BY <2>1 DEF Moves
      <4>2. v = (u + j) % V
        BY <4>1
      <4> HIDE DEF V
      <4> QED  BY <4>2
    <3> HIDE DEF u, V
    <3>2. u + j \in Nat /\ u + j < V /\ u + j \in u .. u + n - 1
      BY <1>1, <1>4
    <3>3. (u + j) % V = u + j
      <4> DEFINE x1 == u + j
      <4>1. x1 \in Nat /\ x1 < V
        BY <3>2
      <4> HIDE DEF x1
      <4>2. x1 % V = x1
        BY ONLY <1>1, <4>1, Z3
      <4> QED  BY <4>2 DEF x1
    <3> QED  BY <3>1, <3>2, <3>3
  <2>2. \/ Translate(m.tables, t, v) = Translate(Now.tables, t, v)
        \/ <<v, Translate(m.tables, t, v)>> \in Moves(u, base, n)
    BY <1>2 DEF Kept
  <2> QED  BY <2>1, <2>2, NowIs
<1> HIDE DEF u, V
<1>7. \A t \in spaces, v \in u .. u + n - 1 :
         /\ Translate(tables', t, v) = base + v - u
         /\ Translate(tables, t, v) = Translate(tables, kernel_pml, v)
  BY <1>5
<1>8. \A v \in u .. u + n - 1 : spaces = IF Shared(v) THEN spaces ELSE {kernel_pml}
  BY <1>5
<1>9. \A t \in spaces, v \in 0 .. V - 1 :
         \/ Translate(tables', t, v) = Translate(tables, t, v)
         \/ t \in spaces /\ v \in u .. u + n - 1
  BY <1>6
<1>10. Rooted(tables', rl, spaces) /\ spaces \subseteq spaces
  OBVIOUS
<1>11. Mapping(tables, tables', spaces, kernel_pml, spaces, u, base, n)
  BY <1>7, <1>8, <1>9 DEF Mapping, V
<1> QED  BY <1>1, <1>2, <1>4, <1>10, <1>11, RefinedMap DEF V

\* The heap gets a block, in the space of the kernel.
LEMMA AllocKeeps ==
    ASSUME VmmInv, liballoc_alloc
    PROVE  VmmInv' /\ Stays /\ Refined
<1> DEFINE n == PageCount
           buff == pmm_alloc(Now, n)
           new == UNWRAP_OR_PANIC(buff)
           z == vmm_map_range(new, kernel_pml, mmap_phys_to_kernel(new.at), new.at, n)
           m == IF new.panic THEN new ELSE z
           b == [base |-> new.at, pages |-> n]
           R == new.at .. new.at + n - 1
<1>1. \/ Completes(m) /\ blocks' = blocks \cup {b} /\ UNCHANGED <<spaces, shared>>
      \/ Stops(m)
  BY DEF liballoc_alloc
<1>2. n \in Nat /\ n > 0
  BY VmmAssumption
<1>3. PICK pl : Apart(tables, used, pl, blocks, shared) /\ Roots(tables, pl)
  BY DEF VmmInv
<1>4. Now \in Machines /\ kernel_pml \in spaces /\ \A t \in spaces : Root(Now, pl, t)
  BY <1>3, NowIs DEF VmmInv, Roots
<1>5. /\ buff \in Machines /\ buff.tables = tables
      /\ buff.at # NULL => /\ buff.at \in Memory
                           /\ buff.at .. buff.at + n - 1 \subseteq Memory \ used
                           /\ buff.used = used \cup (buff.at .. buff.at + n - 1)
  <2> HIDE DEF buff
  <2>1. buff = pmm_alloc(Now, n)
    BY DEF buff
  <2> QED  BY <1>2, <1>4, <2>1, AllocFacts, NowIs
<1> HIDE DEF buff, n
<1>6. CASE Completes(m) /\ blocks' = blocks \cup {b} /\ UNCHANGED <<spaces, shared>>
  <2>1. ~ new.panic /\ m = z
    <3> HIDE DEF new, z
    <3>1. ~ m.panic
      BY <1>6 DEF Completes
    <3> QED  BY <3>1
  <2>2. buff.at # NULL /\ new = buff
    <3>1. ASSUME buff.at = NULL
          PROVE  FALSE
      <4>1. new = [buff EXCEPT !.panic = TRUE]
        BY <3>1 DEF UNWRAP_OR_PANIC
      <4> HIDE DEF new
      <4> QED  BY <1>5, <2>1, <4>1, PanicFacts
    <3> QED  BY <3>1 DEF UNWRAP_OR_PANIC
  <2> HIDE DEF new
  <2>3. new.at \in Nat /\ new.at \in Int
    BY <1>5, <2>2, MemoryFacts
  <2> DEFINE v == mmap_phys_to_kernel(new.at)
  <2>4. v \in Nat
    BY <2>3, AddressInWindow
  <2>5. new.used = used \cup R /\ R \cap used = {} /\ new.at .. new.at + n - 1 \subseteq R
    BY <1>5, <2>2
  <2>6. b \in Ranges /\ Pages(b) = R
    BY <1>2, <2>3 DEF Ranges, Pages
  <2> HIDE DEF R, b, v
  <2>7. /\ Tree(new.tables, pl) /\ DOMAIN tables \subseteq used
        /\ DOMAIN new.tables \subseteq new.used
        /\ kernel_pml \in DOMAIN new.tables /\ kernel_pml \in Int /\ pl[kernel_pml] = RootPlace(kernel_pml)
    BY <1>3, <1>4, <1>5, <2>2, <2>5 DEF Apart, Roots
  <2>8. new \in Machines
    BY <1>5, <2>2
  <2> DEFINE W == Moves(v, new.at, n)
  <2>9. \A u, p : <<u, p>> \in W => p \in R
    BY <1>2, <2>3, <2>4, MovesPages DEF R
  <2>10. PICK rl : From(new, pl, z, rl, kernel_pml, W)
    <3>1. z = vmm_map_range(new, kernel_pml, v, new.at, n)
      BY DEF v
    <3> HIDE DEF z
    <3> QED  BY <1>2, <2>3, <2>4, <2>7, <2>8, <3>1, MapRange
  <2>16. n <= VirtPages => Means(z.tables, kernel_pml, v, new.at, n)
    <3>1. z = vmm_map_range(new, kernel_pml, v, new.at, n)
      BY DEF v
    <3>2. ~ z.panic
      <4>1. ~ m.panic
        BY <1>6 DEF Completes
      <4> HIDE DEF z, m
      <4> QED  BY <2>1, <4>1
    <3> HIDE DEF z
    <3> QED  BY <1>2, <2>3, <2>4, <2>7, <2>8, <3>1, <3>2, MapRange
  <2> HIDE DEF z, m, W
  <2>11. Grown(Now, pl, m, rl, kernel_pml, R)
    <3>1. new.tables = Now.tables /\ new.used = Now.used \cup R /\ DOMAIN Now.tables \subseteq Now.used
          /\ R \cap DOMAIN Now.tables = {}
      BY <1>5, <2>2, <2>5, <2>7, NowIs
    <3> QED  BY <1>4, <2>1, <2>9, <2>10, <3>1, FromGrown
  <2>12. Apart(m.tables, m.used, rl, blocks \cup {b}, shared)
    <3>1. Apart(Now.tables, Now.used, pl, blocks, shared) /\ R \cap Now.used = {}
      BY <1>3, <2>5, NowIs
    <3> QED  BY <2>6, <2>11, <3>1, ApartBlock
  <2>13. \A t \in spaces : Root(m, rl, t)
    BY <1>4, <2>11, RootStays
  <2>14. m \in Machines
    BY <2>11 DEF Grown
  <2>15. spaces' = spaces /\ blocks' = blocks \cup {b} /\ shared' = shared /\ Completes(m)
    BY <1>6
  <2>17. Kept(Now, pl, m, kernel_pml, Moves(mmap_phys_to_kernel(new.at), new.at, n))
    <3>1. Ready(Now, pl) /\ new.tables = Now.tables
      BY <1>3, <1>4, <1>5, <2>2, NowIs, ApartReady
    <3>2. Kept(Now, pl, m, kernel_pml, W)
      BY <2>1, <2>10, <3>1, FromKept
    <3> QED  BY <3>2 DEF W, v
  <2>18. new.at \in Memory /\ new.at .. new.at + n - 1 \subseteq Memory /\ tables' = m.tables
    BY <1>5, <2>2, <2>15 DEF Completes
  <2>19. /\ Window(m.tables, spaces) /\ HeapPart(m.tables, blocks) /\ Stays
         /\ n <= VirtPages
         /\ \A j \in 0 .. n - 1 : (mmap_phys_to_kernel(new.at) + j) % VirtPages = mmap_phys_to_kernel(new.at + j)
    BY <1>2, <1>3, <2>17, <2>18, HeapMaps
  <2>20. ASSUME NEW p \in R
         PROVE  Translate(m.tables, kernel_pml, mmap_phys_to_kernel(p)) = p
    <3> DEFINE j == p - new.at
    <3>1. j \in 0 .. n - 1 /\ new.at + j = p
      BY <1>2, <2>3 DEF R
    <3> HIDE DEF j
    <3>2. Translate(z.tables, kernel_pml, (v + j) % VirtPages) = new.at + j
      BY <2>16, <2>19, <3>1 DEF Means
    <3>3. (v + j) % VirtPages = mmap_phys_to_kernel(p)
      BY <2>19, <3>1 DEF v
    <3> QED  BY <2>1, <3>1, <3>2, <3>3
  <2>21. HeapPart(m.tables, blocks \cup {b})
    <3>1. b.pages > 0
      <4>1. b.pages = n
        BY DEF b
      <4> QED  BY <1>2, <4>1
    <3> QED  BY <2>6, <2>19, <2>20, <3>1 DEF HeapPart
  <2>22. VmmInv'
    BY <1>4, <2>12, <2>13, <2>14, <2>15, <2>19, <2>21, Completed DEF VmmInv
  <2>23. Rooted(m.tables, rl, spaces)
    BY <2>12, <2>13 DEF Rooted, Root, Apart
  <2>24. n \in Lengthy
    <3>1. n \in 0 .. n
      BY <1>2
    <3> QED  BY <3>1 DEF Lengthy, n
  <2>25. Means(m.tables, kernel_pml, mmap_phys_to_kernel(new.at), new.at, n)
    BY <2>1, <2>16, <2>19 DEF v
  <2>26. Refined
    BY <1>2, <1>3, <2>15, <2>17, <2>18, <2>19, <2>23, <2>24, <2>25, HeapRefined
  <2> QED  BY <2>19, <2>22, <2>26
<1>7. CASE Stops(m)
  BY <1>7, Stopped DEF Stops
<1> HIDE DEF m, b
<1> QED  BY <1>1, <1>6, <1>7

\* Clearing the entry of one address changes what that address means, and
\* no other.
LEMMA Unmapped ==
    ASSUME NEW tb, NEW pl, Tree(tb, pl),
           NEW r \in DOMAIN tb, r \in Int, pl[r] = RootPlace(r),
           NEW s \in DOMAIN tb, s \in Int, pl[s] = RootPlace(s),
           NEW v \in 0 .. VirtPages - 1, NEW w \in 0 .. VirtPages - 1,
           NEW last, last = TableAt(tb, r, v, 0), last # NULL,
           NEW i, i = PMLX_GET_INDEX(v, 0),
           NEW tc, Tree(tc, pl), DOMAIN tc = DOMAIN tb,
           \A p \in DOMAIN tb : \A j \in Entries :
              tc[p][j] = IF p = last /\ j = i THEN NULL ELSE tb[p][j]
    PROVE  /\ TableAt(tc, s, w, 0) = TableAt(tb, s, w, 0)
           /\ \/ Translate(tc, s, w) = Translate(tb, s, w)
              \/ Translate(tc, s, w) = NULL /\ w = v
<1> DEFINE N == limit_pml - 1
           l0 == 0
<1>1. N \in Levels /\ l0 \in Levels /\ N \in Nat
  BY LevelFacts DEF Levels
<1>3. last \in DOMAIN tb /\ pl[last] = PlaceAt(r, v, 0)
  <2>1. last = TableAt(tb, r, v, l0)
    OBVIOUS
  <2> HIDE DEF l0
  <2>2. last \in DOMAIN tb /\ pl[last] = PlaceAt(r, v, l0)
    BY <1>1, <2>1, WalkEnds
  <2> QED  BY <2>2 DEF l0
<1>4. i \in Entries
  BY AddressParts
<1>5. DOMAIN tc = DOMAIN tb /\ \A p \in DOMAIN tb : \A j \in Entries :
         tc[p][j] = IF p = last /\ j = i THEN NULL ELSE tb[p][j]
  OBVIOUS
<1>6. \A l \in Levels : PMLX_GET_INDEX(w, l) \in Entries
  BY PlacesOnTheWay
<1>7. \A l \in 1 .. N : \A t \in DOMAIN tb :
         t = TableAt(tb, s, w, l) => tc[t][PMLX_GET_INDEX(w, l)] = tb[t][PMLX_GET_INDEX(w, l)]
  <2> SUFFICES ASSUME NEW l \in 1 .. N, NEW t \in DOMAIN tb, t = TableAt(tb, s, w, l)
               PROVE  tc[t][PMLX_GET_INDEX(w, l)] = tb[t][PMLX_GET_INDEX(w, l)]
    OBVIOUS
  <2>1. l \in Levels /\ l # 0
    BY LevelFacts DEF Levels
  <2>2. t # NULL
    <3>1. DOMAIN tb \subseteq Memory
      BY TablesFacts DEF Tree
    <3> QED  BY <3>1, MemoryFacts
  <2>3. pl[t] = PlaceAt(s, w, l)
    BY <2>1, <2>2, WalkEnds
  <2>4. t # last
    <3>1. PlaceAt(s, w, l).lev = l /\ PlaceAt(r, v, 0).lev = 0
      BY DEF PlaceAt
    <3> QED  BY <1>3, <2>1, <2>3, <3>1
  <2> QED  BY <1>5, <1>6, <2>1, <2>4
<1>20. /\ Tree(tb, pl) /\ Tree(tc, pl) /\ s \in DOMAIN tb /\ s \in DOMAIN tc
       /\ s \in Int /\ pl[s] = RootPlace(s) /\ w \in 0 .. VirtPages - 1
  BY <1>5
<1>8. TableAt(tb, s, w, N) = TableAt(tc, s, w, N)
  <2>1. TableAt(tb, s, w, N) = s
    BY ONLY <1>20, WalkSteps DEF N
  <2>2. TableAt(tc, s, w, N) = s
    BY ONLY <1>20, WalkSteps DEF N
  <2> QED  BY <2>1, <2>2
<1> HIDE DEF N
<1>9. TableAt(tc, s, w, 0) = TableAt(tb, s, w, 0)
  BY ONLY <1>1, <1>20, <1>7, <1>8, SameWalk
<1> DEFINE y == TableAt(tb, s, w, 0)
           j == PMLX_GET_INDEX(w, 0)
<1>10. y # NULL => y \in DOMAIN tb /\ pl[y] = PlaceAt(s, w, 0)
  <2>1. y = TableAt(tb, s, w, l0)
    OBVIOUS
  <2> HIDE DEF l0, y
  <2>2. y # NULL => y \in DOMAIN tb /\ pl[y] = PlaceAt(s, w, l0)
    BY <1>1, <2>1, WalkEnds
  <2> QED  BY <2>2 DEF l0
<1>11. /\ Translate(tb, s, w) = (IF y = NULL THEN NULL ELSE tb[y][j])
       /\ Translate(tc, s, w) = (IF y = NULL THEN NULL ELSE tc[y][j])
  BY <1>9 DEF Translate
<1>12. j \in Entries
  BY AddressParts
<1>13. y = last /\ j = i => w = v
  <2> SUFFICES ASSUME y = last, j = i
               PROVE  w = v
    OBVIOUS
  <2>1. PlaceAt(s, w, 0) = PlaceAt(r, v, 0)
    BY <1>3, <1>10
  <2>2. w \div ENTRIES = v \div ENTRIES
    <3>1. PlaceAt(s, w, 0).pre = w \div ENTRIES /\ PlaceAt(r, v, 0).pre = v \div ENTRIES
      BY AddressParts
    <3> QED  BY <2>1, <3>1
  <2>3. w % ENTRIES = v % ENTRIES
    BY AddressParts
  <2>4. w = (w \div ENTRIES) * ENTRIES + (w % ENTRIES) /\ v = (v \div ENTRIES) * ENTRIES + (v % ENTRIES)
    BY AddressParts
  <2> QED  BY <2>2, <2>3, <2>4
<1> HIDE DEF y, j
<1> QED  BY <1>5, <1>9, <1>10, <1>11, <1>12, <1>13

\* A block of the heap is given back.
LEMMA FreeKeeps ==
    ASSUME VmmInv, NEW b \in blocks, liballoc_free(b)
    PROVE  VmmInv' /\ Stays /\ Refined
<1> DEFINE v == mmap_phys_to_kernel(b.base)
           m == vmm_unmap_page(Now, kernel_pml, v)
           P == Pages(b)
           x == [m EXCEPT !.used = @ \ P]
           last == TableAt(tables, kernel_pml, v, 0)
           i == PMLX_GET_INDEX(v, 0)
           tb == [tables EXCEPT ![last][i] = NULL]
<1>1. \/ Completes(x) /\ blocks' = blocks \ {b} /\ UNCHANGED <<spaces, shared>>
      \/ Stops(m)
  BY DEF liballoc_free, Pages
<1>2. PICK pl : Apart(tables, used, pl, blocks, shared) /\ Roots(tables, pl)
  BY DEF VmmInv
<1>3. Now \in Machines /\ kernel_pml \in spaces /\ \A t \in spaces : Root(Now, pl, t)
  BY <1>2, NowIs DEF VmmInv, Roots
<1>4. v \in 0 .. VirtPages - 1
  <2>1. b \in Ranges
    BY <1>2 DEF Apart
  <2> QED  BY <2>1, AddressInWindow DEF Ranges
<1> HIDE DEF v, P
<1>5. m = IF last = NULL THEN [Now EXCEPT !.panic = TRUE] ELSE [Now EXCEPT !.tables[last][i] = NULL]
  BY NowIs DEF vmm_unmap_page
<1>6. i \in Entries /\ 0 \in Levels
  BY <1>4, LevelFacts, PlacesOnTheWay
<1> HIDE DEF i, m
<1>7. CASE Completes(x) /\ blocks' = blocks \ {b} /\ UNCHANGED <<spaces, shared>>
  <2>1. ~ x.panic
    BY <1>7 DEF Completes
  <2>2. last # NULL
    <3>1. ASSUME last = NULL
          PROVE  FALSE
      <4>1. m = [Now EXCEPT !.panic = TRUE]
        <5> HIDE DEF last
        <5> QED  BY <1>5, <3>1
      <4>2. m \in Machines /\ m.panic
        BY <1>3, <4>1, PanicFacts
      <4>3. x.panic = m.panic
        <5> DEFINE U == m.used \ P
        <5>1. x = [m EXCEPT !.used = U]
          OBVIOUS
        <5> HIDE DEF x, U
        <5> QED  BY ONLY <4>2, <5>1, UsedFacts
      <4> HIDE DEF x
      <4> QED  BY <2>1, <4>2, <4>3
    <3> QED  BY <3>1
  <2>3. last \in DOMAIN tables /\ pl[last] = PlaceAt(kernel_pml, v, 0)
    <3>1. Tree(tables, pl) /\ kernel_pml \in DOMAIN tables /\ kernel_pml \in Int
          /\ pl[kernel_pml] = RootPlace(kernel_pml)
      BY <1>2, <1>3 DEF Apart, Roots
    <3> QED  BY <1>4, <1>6, <2>2, <3>1, WalkEnds
  <2> HIDE DEF last, x
  <2>4. pl[last].lev = 0
    BY <2>3 DEF PlaceAt
  <2>5. Apart(tb, used \ P, pl, blocks \ {b}, shared)
    <3> DEFINE y == tb
    <3>1. y = [tables EXCEPT ![last][i] = NULL]
      OBVIOUS
    <3> HIDE DEF y
    <3>2. Apart(y, used \ P, pl, blocks \ {b}, shared)
      BY <1>2, <1>6, <2>3, <2>4, <3>1, ApartFreed DEF P
    <3> QED  BY <3>2 DEF y
  <2>6. DOMAIN tb = DOMAIN tables
    OBVIOUS
  <2>7. m = [Now EXCEPT !.tables[last][i] = NULL]
    BY <1>5, <2>2
  <2> DEFINE A == Now.tables
             f == FALSE
             a == NULL
  <2>8. m = [tables |-> tb, used |-> used, last_index |-> last_index, at |-> a, panic |-> f, fault |-> f]
    BY <2>3, <2>7 DEF Now
  <2> HIDE DEF tb, f, a
  <2>9. x = [tables |-> tb, used |-> used \ P, last_index |-> last_index, at |-> a, panic |-> f, fault |-> f]
    BY <2>8 DEF x
  <2>10. x.tables = tb /\ x.used = used \ P
    BY <2>9
  <2>11. x \in Machines
    <3>1. tb \in Tables
      BY <2>5 DEF Apart, Tree
    <3>2. used \ P \in SUBSET Memory /\ last_index \in Nat
      <4>1. Now.used \in SUBSET Memory /\ Now.last_index \in Nat
        BY <1>3, MachineIs
      <4> QED  BY <4>1 DEF Now
    <3>3. a \in Int /\ f \in BOOLEAN
      BY DEF a, f, NULL
    <3> QED  BY <2>9, <3>1, <3>2, <3>3 DEF Machines
  <2>12. \A t \in spaces : Root(x, pl, t)
    BY <1>3, <2>6, <2>10, NowIs DEF Root
  <2>13. spaces' = spaces /\ blocks' = blocks \ {b} /\ shared' = shared /\ Completes(x)
    BY <1>7
  <2>14. ASSUME NEW t \in spaces, NEW w \in 0 .. VirtPages - 1
         PROVE  /\ TableAt(tb, t, w, 0) = TableAt(tables, t, w, 0)
                /\ \/ Translate(tb, t, w) = Translate(tables, t, w)
                   \/ Translate(tb, t, w) = NULL /\ w = v
    <3>1. /\ Tree(tables, pl) /\ Tree(tb, pl) /\ t \in DOMAIN tables /\ t \in Int /\ pl[t] = RootPlace(t)
          /\ kernel_pml \in DOMAIN tables /\ kernel_pml \in Int /\ pl[kernel_pml] = RootPlace(kernel_pml)
      BY <1>2, <1>3, <2>5 DEF Apart, Roots
    <3>2. last = TableAt(tables, kernel_pml, v, 0) /\ i = PMLX_GET_INDEX(v, 0)
      BY DEF last, i
    <3>3. \A p \in DOMAIN tables : \A j \in Entries :
             tb[p][j] = IF p = last /\ j = i THEN NULL ELSE tables[p][j]
      <4>1. tables = [p \in DOMAIN tables |-> tables[p]] /\ \A p \in DOMAIN tables : tables[p] \in [Entries -> Int]
        BY <3>1, TablesFacts DEF Tree
      <4> QED  BY <1>6, <2>3, <4>1 DEF tb
    <3> QED  BY <1>4, <2>2, <2>6, <3>1, <3>2, <3>3, Unmapped
  <2>15. Window(tb, spaces)
    <3> SUFFICES ASSUME NEW p \in Memory
                 PROVE  LET u == mmap_phys_to_kernel(p) IN
                        /\ TableAt(tb, kernel_pml, u, 0) # NULL
                        /\ Translate(tb, kernel_pml, u) \in {NULL, p}
                        /\ \A t \in spaces : TableAt(tb, t, u, 0) = TableAt(tb, kernel_pml, u, 0)
      BY DEF Window
    <3> DEFINE u == mmap_phys_to_kernel(p)
    <3>1. u \in 0 .. VirtPages - 1
      BY AddressInWindow, MemoryFacts
    <3>2. /\ TableAt(tables, kernel_pml, u, 0) # NULL
          /\ Translate(tables, kernel_pml, u) \in {NULL, p}
          /\ \A t \in spaces : TableAt(tables, t, u, 0) = TableAt(tables, kernel_pml, u, 0)
      BY DEF VmmInv, Window
    <3> HIDE DEF u
    <3> QED  BY <1>3, <2>14, <3>1, <3>2 DEF u
  <2>16. HeapPart(tables, blocks) /\ \A c \in blocks : Pages(c) \subseteq Memory
    BY <1>2, BlocksInMemory DEF VmmInv
  <2>17. b.base \in Pages(b) /\ v = mmap_phys_to_kernel(b.base)
    <3>1. b \in Ranges /\ b.pages > 0
      BY <1>2, <2>16 DEF Apart, HeapPart
    <3> QED  BY <3>1 DEF Ranges, Pages, v
  <2>18. HeapPart(tb, blocks \ {b})
    <3> SUFFICES ASSUME NEW c \in blocks \ {b}, NEW p \in Pages(c)
                 PROVE  Translate(tb, kernel_pml, mmap_phys_to_kernel(p)) = p
      BY <2>16 DEF HeapPart
    <3>1. p \in Memory /\ b.base \in Memory /\ p # b.base
      BY <1>2, <2>16, <2>17 DEF Apart
    <3>2. mmap_phys_to_kernel(p) # v /\ mmap_phys_to_kernel(p) \in 0 .. VirtPages - 1
      BY <2>17, <3>1, WindowApart, AddressInWindow, MemoryFacts
    <3>3. Translate(tables, kernel_pml, mmap_phys_to_kernel(p)) = p
      BY <2>16 DEF HeapPart
    <3> QED  BY <1>3, <2>14, <3>2, <3>3
  <2>19. Stays
    <3>1. tables' = tb /\ b \in blocks \ blocks'
      BY <2>10, <2>13 DEF Completes
    <3> SUFFICES ASSUME NEW t \in spaces, NEW w \in 0 .. VirtPages - 1
                 PROVE  \/ Translate(tables, t, w) \in {NULL, Translate(tb, t, w)}
                        \/ (Translate(tb, t, w) = NULL /\ w = mmap_phys_to_kernel(b.base))
      BY <3>1 DEF Stays
    <3> QED  BY <2>14, <2>17
  <2>20. VmmInv'
    BY <1>3, <2>5, <2>10, <2>11, <2>12, <2>13, <2>15, <2>18, Completed DEF VmmInv
  <2>21. Rooted(tables, pl, spaces) /\ Rooted(tb, pl, spaces)
    BY <1>2, <1>3, <2>5, <2>6, NowIs DEF Rooted, Root, Roots, Apart
  <2>22. Shared(v) /\ Translate(tables, kernel_pml, v) # NULL
    <3>1. b.base \in Memory
      BY <2>16, <2>17
    <3>2. Translate(tables, kernel_pml, v) = b.base
      BY <2>16, <2>17 DEF HeapPart
    <3> QED  BY <2>17, <3>1, <3>2, WindowAssumption, MemoryFacts DEF Shared
  <2>23. \A t \in spaces, w \in 0 .. VirtPages - 1 :
            Translate(tb, t, w) = IF w = v THEN NULL ELSE Translate(tables, t, w)
    <3> SUFFICES ASSUME NEW t \in spaces
                 PROVE  Translate(tb, t, v) = NULL
      BY <2>14
    <3>1. Translate(tb, kernel_pml, v) = NULL
      <4>1. Translate(tb, kernel_pml, v) = tb[last][i]
        BY <1>3, <1>4, <2>2, <2>14 DEF Translate, last, i
      <4>2. i \in DOMAIN tables[last] /\ last \in DOMAIN tables
        <5>1. \A p \in DOMAIN tables : tables[p] \in [Entries -> Int]
          BY <1>2, TablesFacts DEF Apart, Tree
        <5> QED  BY <1>6, <2>3, <5>1
      <4>3. tb[last][i] = NULL
        BY <4>2 DEF tb
      <4> QED  BY <4>1, <4>3
    <3>2. b.base \in Memory
      BY <2>16, <2>17
    <3> QED  BY <1>3, <2>15, <2>17, <3>1, <3>2, WindowSame
  <2>24. Refined
    <3>1. tables' = tb
      BY <2>10, <2>13 DEF Completes
    <3> QED  BY <1>3, <1>4, <2>13, <2>21, <2>22, <2>23, <3>1, RefinedUnmap
  <2> QED  BY <2>19, <2>20, <2>24
<1>8. CASE Stops(m)
  BY <1>8, Stopped DEF Stops
<1> HIDE DEF x
<1> QED  BY <1>1, <1>7, <1>8 DEF m, x

-----------------------------------------------------------------------------
Nothing == [tables |-> [p \in {} |-> Empty], used |-> {}, last_index |-> 0,
            at |-> NULL, panic |-> FALSE, fault |-> FALSE]

LEMMA NothingIs ==
    /\ Nothing \in Machines
    /\ Nothing.tables = [p \in {} |-> Empty] /\ Nothing.used = {} /\ Nothing.last_index = 0
    /\ Nothing.panic = FALSE
<1> DEFINE f == FALSE
           a == NULL
           tb == [p \in {} |-> Empty]
<1>1. tb \in Tables
  <2>1. DOMAIN tb \subseteq Memory /\ tb = [p \in DOMAIN tb |-> tb[p]]
        /\ \A p \in DOMAIN tb : tb[p] \in [Entries -> Int]
    OBVIOUS
  <2> HIDE DEF tb
  <2> QED  BY <2>1, TablesFacts
<1>2. Nothing = [tables |-> tb, used |-> {}, last_index |-> 0, at |-> a, panic |-> f, fault |-> f]
  BY DEF Nothing
<1>3. f \in BOOLEAN /\ a \in Int /\ {} \in SUBSET Memory /\ 0 \in Nat
  BY DEF NULL
<1> HIDE DEF tb, f, a
<1>4. Nothing \in Machines
  BY <1>1, <1>2, <1>3 DEF Machines
<1>5. Nothing.tables = tb /\ Nothing.used = {} /\ Nothing.last_index = 0 /\ Nothing.panic = f
  BY <1>2
<1> QED  BY <1>4, <1>5 DEF tb, f

\* The first page that the boot allocates is the root of the kernel's space.
LEMMA BootRoot ==
    ASSUME NEW root, root = Cleared(pmm_alloc(Nothing, 1))
    PROVE  /\ root \in Machines /\ root.at = kernel_pml
           /\ DOMAIN root.tables = {kernel_pml} /\ root.used = {kernel_pml}
           /\ root.tables[kernel_pml] = Empty
<1> DEFINE y == pmm_alloc(Nothing, 1)
           Free(from) == {b \in Memory : b >= from /\ b .. b + 1 - 1 \subseteq Memory \ Nothing.used}
           Take(b) == [Nothing EXCEPT !.used = @ \cup (b .. b + 1 - 1), !.last_index = b + 1, !.at = b]
<1>1. y = IF Free(Nothing.last_index) # {} THEN Take(Min(Free(Nothing.last_index)))
          ELSE IF Free(0) # {} THEN Take(Min(Free(0)))
          ELSE [Nothing EXCEPT !.last_index = 0, !.at = NULL]
  BY DEF pmm_alloc
<1>2. Free(Nothing.last_index) = Memory
  <2>1. \A b \in Memory : b \in Nat /\ b .. b + 1 - 1 = {b}
    <3>1. \A b \in Nat : b .. b + 1 - 1 = {b}
      OBVIOUS
    <3> QED  BY <3>1, MemoryFacts
  <2> QED  BY <2>1, NothingIs
<1>3. y.at = kernel_pml
  <2>1. Memory # {}
    BY MemoryFacts
  <2> HIDE DEF Free
  <2>2. y = Take(kernel_pml)
    <3> HIDE DEF Take
    <3> QED  BY <1>1, <1>2, <2>1 DEF kernel_pml
  <2> QED  BY <2>2 DEF Nothing
<1>4. /\ y \in Machines /\ y.tables = Nothing.tables /\ y.panic = Nothing.panic
      /\ y.at # NULL => y.used = Nothing.used \cup (y.at .. y.at + 1 - 1)
  <2> DEFINE k == 1
  <2>1. y = pmm_alloc(Nothing, k) /\ k \in Nat /\ Nothing \in Machines
    BY NothingIs
  <2> HIDE DEF y, k
  <2>2. /\ y \in Machines /\ y.tables = Nothing.tables /\ y.panic = Nothing.panic
        /\ y.at # NULL => y.used = Nothing.used \cup (y.at .. y.at + k - 1)
    BY <2>1, AllocFacts
  <2> QED  BY <2>2 DEF k
<1>5. root = Cleared(y)
  OBVIOUS
<1> HIDE DEF y
<1>6. y.used = {kernel_pml}
  <2>1. y.at # NULL /\ y.at .. y.at + 1 - 1 = {y.at}
    <3>1. \A b \in Int : b .. b + 1 - 1 = {b}
      OBVIOUS
    <3> QED  BY <1>3, <3>1, MemoryFacts
  <2> QED  BY <1>3, <1>4, <2>1, NothingIs
<1>7. ~ y.panic /\ y.at \in Memory /\ DOMAIN y.tables = {}
  BY <1>3, <1>4, MemoryFacts, NothingIs
<1>8. /\ root \in Machines /\ root.used = y.used /\ root.at = y.at
      /\ DOMAIN root.tables = DOMAIN y.tables \cup {y.at}
      /\ root.tables[y.at] = Empty
  BY <1>4, <1>5, <1>7, ClearedFacts
<1> QED  BY <1>3, <1>6, <1>7, <1>8

\* What vmm_init() may map: in the window, a page at its address.
BootMoves == {w \in Nat \X Int : \A p \in Memory : w[1] = mmap_phys_to_kernel(p) => w[2] = p}

\* Memory z has come of memory root by such mappings, and the pages P have
\* their addresses in the window, unless the kernel has panicked.
Booted(root, pl, z, P) ==
    /\ z \in Machines
    /\ \E rl : From(root, pl, z, rl, kernel_pml, BootMoves)
    /\ ~ z.panic => \A p \in Memory \cap P : Translate(z.tables, kernel_pml, mmap_phys_to_kernel(p)) = p

LEMMA BootPut ==
    ASSUME NEW root, NEW pl, Ready(root, pl), Root(root, pl, kernel_pml),
           NEW z, NEW P, Booted(root, pl, z, P),
           NEW v \in Nat, NEW phys \in Nat, NEW k \in Nat, Moves(v, phys, k) \subseteq BootMoves,
           k <= VirtPages,
           NEW Q, \A p \in Memory \cap Q : <<mmap_phys_to_kernel(p), p>> \in Moves(v, phys, k),
           NEW y, y = vmm_map_range(z, kernel_pml, v, phys, k)
    PROVE  Booted(root, pl, y, P \cup Q)
<1> DEFINE W == Moves(v, phys, k)
<1>1. PICK ql : From(root, pl, z, ql, kernel_pml, BootMoves)
  BY DEF Booted
<1>2. /\ z \in Machines /\ Tree(z.tables, ql) /\ DOMAIN z.tables \subseteq z.used
      /\ kernel_pml \in DOMAIN z.tables /\ kernel_pml \in Int /\ ql[kernel_pml] = RootPlace(kernel_pml)
  BY <1>1 DEF From, Ready, Root
<1>3. phys \in Int
  OBVIOUS
<1>4. ~ y.panic => ~ z.panic
  BY <1>2, <1>3, MapRange
<1>6. ~ y.panic /\ k <= VirtPages => Means(y.tables, kernel_pml, v, phys, k)
  BY <1>2, <1>3, MapRange
<1>5. PICK rl : From(z, ql, y, rl, kernel_pml, W)
  BY <1>2, <1>3, MapRange
<1>7. W \subseteq BootMoves
  OBVIOUS
<1>8. \A p \in Memory \cap Q : <<mmap_phys_to_kernel(p), p>> \in W
  OBVIOUS
<1> HIDE DEF W
<1>9. From(root, pl, y, rl, kernel_pml, BootMoves)
  BY <1>1, <1>5, <1>7, FromTrans
<1>10. ASSUME ~ y.panic, NEW p \in Memory, p \in P \cup Q
       PROVE  Translate(y.tables, kernel_pml, mmap_phys_to_kernel(p)) = p
  <2> DEFINE u == mmap_phys_to_kernel(p)
  <2>1. u \in 0 .. VirtPages - 1
    BY AddressInWindow, MemoryFacts
  <2>2. CASE p \in Q
    <3>1. PICK j \in 0 .. k - 1 : <<u, p>> = <<(v + j) % VirtPages, phys + j>>
      <4>1. <<u, p>> \in W
        BY <1>8, <2>2
      <4> HIDE DEF u
      <4> QED  BY <4>1 DEF W, Moves
    <3>2. Translate(y.tables, kernel_pml, (v + j) % VirtPages) = phys + j
      BY <1>6, <1>10 DEF Means
    <3> HIDE DEF u
    <3>3. u = (v + j) % VirtPages /\ p = phys + j
      BY <3>1
    <3> QED  BY <3>2, <3>3 DEF u
  <2>3. CASE p \in P
    <3>1. Translate(z.tables, kernel_pml, u) = p
      BY <1>4, <1>10, <2>3 DEF Booted
    <3> DEFINE x == Translate(y.tables, kernel_pml, u)
    <3>2. x = Translate(z.tables, kernel_pml, u) \/ <<u, x>> \in W
      <4> HIDE DEF u
      <4> QED  BY <1>2, <1>5, <2>1, Translated
    <3>3. <<u, x>> \in W => x = p
      <4> HIDE DEF x
      <4> QED  BY <1>7 DEF BootMoves
    <3> QED  BY <3>1, <3>2, <3>3
  <2> QED  BY <1>10, <2>2, <2>3
<1>11. y \in Machines
  BY <1>5 DEF From
<1> QED  BY <1>9, <1>10, <1>11 DEF Booted

\* Pages that are mapped in the window: each gets the address that it has there.
LEMMA BootWindow ==
    ASSUME NEW base \in Nat, NEW k \in Nat, base + k <= VirtPages
    PROVE  /\ Moves(mmap_phys_to_kernel(base), base, k) \subseteq BootMoves
           /\ k <= VirtPages
           /\ \A p \in Memory \cap (base .. base + k - 1) :
                 <<mmap_phys_to_kernel(p), p>> \in Moves(mmap_phys_to_kernel(base), base, k)
<1> DEFINE V == VirtPages
           v == mmap_phys_to_kernel(base)
<1>1. V \in Nat /\ V >= 1 /\ MMAP_KERNEL_BASE \in Nat
  BY SpanFacts, LevelFacts, VmmAssumption DEF VirtPages
<1>2. ASSUME NEW j \in 0 .. k - 1
      PROVE  /\ (v + j) % VirtPages = mmap_phys_to_kernel(base + j)
             /\ base + j \in Nat /\ base + j < V
             /\ \A p \in Memory : mmap_phys_to_kernel(base + j) = mmap_phys_to_kernel(p) => base + j = p
  <2>1. j \in Nat /\ base + j \in Nat /\ base + j < V
    BY <1>1
  <2>2. (v + j) % VirtPages = mmap_phys_to_kernel(base + j)
    BY <2>1, WindowStep
  <2>3. ASSUME NEW p \in Memory, mmap_phys_to_kernel(base + j) = mmap_phys_to_kernel(p)
        PROVE  base + j = p
    <3> DEFINE x == base + j + MMAP_KERNEL_BASE
               y == p + MMAP_KERNEL_BASE
    <3>1. p \in Nat /\ p < V
      BY WindowApart
    <3>2. x \in Nat /\ y \in Nat /\ x - y < V /\ y - x < V
      BY <1>1, <2>1, <3>1
    <3>3. x % V = y % V
      BY <2>3 DEF mmap_phys_to_kernel
    <3> HIDE DEF x, y, V
    <3>4. x = y
      BY ONLY <1>1, <3>2, <3>3, RangeApart
    <3> QED  BY <1>1, <2>1, <3>1, <3>4 DEF x, y
  <2> QED  BY <2>1, <2>2, <2>3
<1>3. ASSUME NEW w \in Moves(v, base, k)
      PROVE  w \in BootMoves
  <2>1. PICK j \in 0 .. k - 1 : w = <<(v + j) % VirtPages, base + j>>
    BY <1>3 DEF Moves
  <2>2. w = <<mmap_phys_to_kernel(base + j), base + j>> /\ base + j \in Nat
    BY <1>2, <2>1
  <2> DEFINE x == base + j
             u == mmap_phys_to_kernel(x)
  <2>3. u \in Nat /\ x \in Int
    BY <2>2, AddressInWindow
  <2>4. w = <<u, x>> /\ \A p \in Memory : u = mmap_phys_to_kernel(p) => x = p
    BY <1>2, <2>2
  <2> HIDE DEF x, u
  <2> QED  BY <2>3, <2>4 DEF BootMoves
<1>4. ASSUME NEW p \in Memory, p \in base .. base + k - 1
      PROVE  <<mmap_phys_to_kernel(p), p>> \in Moves(v, base, k)
  <2> DEFINE j == p - base
  <2>1. j \in 0 .. k - 1 /\ base + j = p
    BY <1>4
  <2> HIDE DEF j
  <2>2. (v + j) % VirtPages = mmap_phys_to_kernel(p)
    BY <1>2, <2>1
  <2> HIDE DEF v
  <2> QED  BY <2>1, <2>2 DEF Moves
<1> QED  BY <1>1, <1>3, <1>4

LEMMA IoStep ==
    ASSUME NEW base \in Nat, NEW j \in Nat
    PROVE  (mmap_phys_to_io(base) + j) % VirtPages = mmap_phys_to_io(base + j)
<1> DEFINE V == VirtPages
           x == base + MMAP_IO_BASE
           y == base + j + MMAP_IO_BASE
           q == x \div V
           r == x % V
           p == (r + j) \div V
           c == (r + j) % V
<1>1. V \in Nat /\ V >= 1 /\ x \in Nat /\ x + j = y
  BY SpanFacts, LevelFacts, VmmAssumption DEF VirtPages
<1>2. mmap_phys_to_io(base) = r /\ mmap_phys_to_io(base + j) = y % V
  BY DEF mmap_phys_to_io
<1> HIDE DEF V, x, y
<1>3. q \in Nat /\ r \in 0 .. V - 1 /\ x = q * V + r
  BY ONLY <1>1, Division
<1>4. r + j \in Nat /\ r \in Nat
  BY <1>1, <1>3
<1> HIDE DEF q, r
<1>5. p \in Nat /\ c \in 0 .. V - 1 /\ r + j = p * V + c
  BY ONLY <1>1, <1>4, Division
<1>6. c = (r + j) % V
  OBVIOUS
<1> HIDE DEF p, c
<1>7. (q + p) * V = q * V + p * V /\ q * V \in Nat /\ p * V \in Nat
  BY ONLY <1>1, <1>3, <1>5, Z3
<1> DEFINE d == q + p
<1>8. y = d * V + c /\ d \in Int
  BY <1>1, <1>3, <1>4, <1>5, <1>7
<1> HIDE DEF d
<1>9. (d * V + c) % V = c
  BY ONLY <1>1, <1>5, <1>8, DivisionBack
<1> QED  BY <1>2, <1>6, <1>8, <1>9 DEF V

LEMMA BootIo ==
    ASSUME NEW base \in Nat, NEW k \in Nat,
           \A j \in 0 .. k - 1 : \A p \in Memory : mmap_phys_to_io(base + j) # mmap_phys_to_kernel(p)
    PROVE  Moves(mmap_phys_to_io(base), base, k) \subseteq BootMoves
<1> DEFINE v == mmap_phys_to_io(base)
<1> SUFFICES ASSUME NEW w \in Moves(v, base, k)
             PROVE  w \in BootMoves
  OBVIOUS
<1>1. PICK j \in 0 .. k - 1 : w = <<(v + j) % VirtPages, base + j>>
  BY DEF Moves
<1>2. j \in Nat /\ base + j \in Nat
  OBVIOUS
<1> DEFINE x == base + j
           u == mmap_phys_to_io(x)
<1>3. w = <<u, x>>
  BY <1>1, <1>2, IoStep
<1>4. u \in Nat /\ x \in Int /\ \A p \in Memory : u # mmap_phys_to_kernel(p)
  <2>1. \A p \in Memory : mmap_phys_to_io(base + j) # mmap_phys_to_kernel(p)
    OBVIOUS
  <2>2. x \in Nat /\ x \in Int
    BY <1>2
  <2>3. u \in Nat
    BY <2>2, AddressInWindow
  <2> QED  BY <2>1, <2>2, <2>3
<1> HIDE DEF x, u
<1> QED  BY <1>3, <1>4 DEF BootMoves

\* vmm_init() maps in the space of the kernel only, and all of the window.
LEMMA BootMaps ==
    ASSUME NEW root, NEW pl, Ready(root, pl), Root(root, pl, kernel_pml),
           root = Cleared(pmm_alloc(Nothing, 1)), root.at = kernel_pml
    PROVE  Booted(root, pl, vmm_init(Nothing), Memory)
<1> DEFINE Listed(i) == Memmap[i].base .. Memmap[i].base + (Memmap[i].length + 1) - 1
           Known(i) == 0 .. 0 + (Direct - 1) - 1 \cup UNION {Listed(k) : k \in 1 .. i}
           All(i) == {z \in Machines : Booted(root, pl, z, Known(i))}
           Put(z, v, p, k) == vmm_map_range(z, kernel_pml, v, p, k)
           window == Put(root, mmap_phys_to_kernel(0), 0, Direct - 1)
           Pass(z, e) == Put(IF ~ e.kernel THEN z ELSE Put(z, mmap_phys_to_io(e.base), e.base, e.length + 1),
                             mmap_phys_to_kernel(e.base), e.base, e.length + 1)
           N == Len(Memmap)
           G(done) == [i \in 0 .. N |-> IF i = 0 THEN window ELSE Pass(done[i - 1], Memmap[i])]
           S == [j \in 0 .. N |-> All(j)]
           F == [j \in 1 .. N |-> [z \in S[j - 1] |-> Pass(z, Memmap[j])]]
<1>1. N \in Nat /\ \A i \in 1 .. N : Memmap[i].base \in Nat /\ Memmap[i].length \in Nat
  <2> DEFINE E == [base : Nat, length : Nat, kernel : BOOLEAN]
  <2>1. Memmap \in Seq(E)
    BY VmmAssumption
  <2>2. N \in Nat /\ \A i \in 1 .. N : Memmap[i] \in E
    <3> HIDE DEF E
    <3> QED  BY <2>1, LenProperties, ElementOfSeq
  <2> HIDE DEF N
  <2> QED  BY <2>2
<1>2. \A i \in 1 .. N : Memmap[i].base + (Memmap[i].length + 1) <= VirtPages
  <2>1. VirtPages \in Nat
    BY SpanFacts, LevelFacts DEF VirtPages
  <2>2. \A i \in 1 .. N : Memmap[i].base + Memmap[i].length < VirtPages
    BY LayoutAssumption
  <2> HIDE DEF N
  <2> QED  BY <1>1, <2>1, <2>2
<1>3. window \in All(0)
  <2> DEFINE k == Direct - 1
             z0 == 0
             none == {}
             W == Put(root, mmap_phys_to_kernel(z0), z0, k)
  <2>1. root \in Machines /\ Tree(root.tables, pl) /\ DOMAIN root.tables \subseteq root.used
    BY DEF Ready
  <2>2. From(root, pl, root, pl, kernel_pml, BootMoves)
    BY <2>1, FromStart
  <2>3. Booted(root, pl, root, none)
    BY <2>1, <2>2 DEF Booted
  <2>4. z0 \in Nat /\ k \in Nat /\ z0 + k <= VirtPages
    <3>1. Direct \in Nat /\ Direct >= 1 /\ Direct <= VirtPages + 1 /\ VirtPages \in Nat
      BY VmmAssumption, LayoutAssumption, SpanFacts, LevelFacts DEF VirtPages
    <3> QED  BY <3>1
  <2>5. mmap_phys_to_kernel(z0) \in Nat
    BY <2>4, AddressInWindow
  <2> DEFINE Q == z0 .. z0 + k - 1
  <2>6. none \cup Q = Known(0)
    OBVIOUS
  <2>7. W = window
    OBVIOUS
  <2> HIDE DEF k, z0, none, Known, All, window
  <2>8. /\ Moves(mmap_phys_to_kernel(z0), z0, k) \subseteq BootMoves /\ k <= VirtPages
        /\ \A p \in Memory \cap Q : <<mmap_phys_to_kernel(p), p>> \in Moves(mmap_phys_to_kernel(z0), z0, k)
    BY <2>4, BootWindow
  <2> HIDE DEF Q
  <2>9. W = vmm_map_range(root, kernel_pml, mmap_phys_to_kernel(z0), z0, k)
    OBVIOUS
  <2> HIDE DEF W
  <2>10. Booted(root, pl, W, none \cup Q)
    BY <2>3, <2>4, <2>5, <2>8, <2>9, BootPut
  <2>11. W \in Machines
    BY <2>10 DEF Booted
  <2> QED  BY <2>6, <2>7, <2>10, <2>11 DEF All
<1>4. ASSUME NEW i \in 1 .. N, NEW z \in All(i - 1)
      PROVE  Pass(z, Memmap[i]) \in All(i)
  <2> DEFINE e == Memmap[i]
             c == e.base
             k == e.length + 1
             none == {}
             P == Known(i - 1)
             Q == c .. c + k - 1
             io == Put(z, mmap_phys_to_io(c), c, k)
             y == IF ~ e.kernel THEN z ELSE io
             x == Put(y, mmap_phys_to_kernel(c), c, k)
  <2>1. c \in Nat /\ k \in Nat /\ c + k <= VirtPages
    BY <1>1, <1>2
  <2>2. mmap_phys_to_io(c) \in Nat /\ mmap_phys_to_kernel(c) \in Nat
    BY <2>1, AddressInWindow
  <2>3. P \cup Q = Known(i)
    <3>1. 1 .. i = (1 .. i - 1) \cup {i} /\ Q = Listed(i)
      BY <1>1
    <3> HIDE DEF Q, Listed
    <3> QED  BY <3>1
  <2>4. Pass(z, Memmap[i]) = x
    OBVIOUS
  <2>5. Booted(root, pl, z, P)
    OBVIOUS
  <2>6. e.kernel => \A j \in 0 .. k - 1 : \A p \in Memory : mmap_phys_to_io(c + j) # mmap_phys_to_kernel(p)
    <3> SUFFICES ASSUME e.kernel, NEW j \in 0 .. k - 1, NEW p \in Memory
                 PROVE  mmap_phys_to_io(c + j) # mmap_phys_to_kernel(p)
      OBVIOUS
    <3> DEFINE l == e.length
    <3>1. c \in Nat /\ l \in Nat /\ j \in 0 .. l + 1 - 1
      BY <1>1
    <3>2. c = Memmap[i].base /\ l = Memmap[i].length
      OBVIOUS
    <3>3. c + j \in c .. c + l
      <4> HIDE DEF c, l
      <4> QED  BY <3>1
    <3> QED  BY <3>2, <3>3, LayoutAssumption
  <2>7. /\ Moves(mmap_phys_to_kernel(c), c, k) \subseteq BootMoves /\ k <= VirtPages
        /\ \A p \in Memory \cap Q : <<mmap_phys_to_kernel(p), p>> \in Moves(mmap_phys_to_kernel(c), c, k)
    <3> HIDE DEF c, k
    <3> QED  BY <2>1, BootWindow
  <2>8. e.kernel => Moves(mmap_phys_to_io(c), c, k) \subseteq BootMoves
    <3> HIDE DEF e, c, k
    <3> QED  BY <2>1, <2>6, BootIo
  <2>9. io = vmm_map_range(z, kernel_pml, mmap_phys_to_io(c), c, k)
        /\ x = vmm_map_range(y, kernel_pml, mmap_phys_to_kernel(c), c, k)
    OBVIOUS
  <2>10. y = IF ~ e.kernel THEN z ELSE io
    OBVIOUS
  <2> HIDE DEF All, Known, Pass, e, c, k, P, Q, io, y, x
  <2>11. Booted(root, pl, y, P)
    <3>1. CASE ~ e.kernel
      BY <2>5, <2>10, <3>1
    <3>2. CASE e.kernel
      <4>1. \A p \in Memory \cap none : <<mmap_phys_to_kernel(p), p>> \in Moves(mmap_phys_to_io(c), c, k)
        OBVIOUS
      <4> HIDE DEF none
      <4>2. Booted(root, pl, io, P \cup none)
        BY <2>1, <2>2, <2>5, <2>7, <2>8, <2>9, <3>2, <4>1, BootPut
      <4>3. P \cup none = P
        BY DEF none
      <4> QED  BY <2>10, <3>2, <4>2, <4>3
    <3> QED  BY <3>1, <3>2
  <2>12. Booted(root, pl, x, P \cup Q)
    BY <2>1, <2>2, <2>7, <2>9, <2>11, BootPut
  <2>13. x \in Machines
    BY <2>12 DEF Booted
  <2> QED  BY <2>3, <2>4, <2>12, <2>13 DEF All
<1> HIDE DEF All, Pass, window
<1>5. PICK f : Run(f, N, S, F, window)
  <2>1. window \in S[0]
    <3>1. 0 \in 0 .. N
      BY <1>1
    <3> QED  BY <1>3, <3>1
  <2>2. \A j \in 1 .. N : j \in 0 .. N /\ j - 1 \in 0 .. N
    BY <1>1
  <2>3. \A j \in 1 .. N : \A z \in S[j - 1] : F[j][z] \in S[j]
    <3> SUFFICES ASSUME NEW j \in 1 .. N, NEW z \in S[j - 1]
                 PROVE  F[j][z] \in S[j]
      OBVIOUS
    <3>1. S[j - 1] = All(j - 1) /\ S[j] = All(j) /\ F[j][z] = Pass(z, Memmap[j])
      BY <2>2
    <3> HIDE DEF S, F
    <3> QED  BY <1>4, <3>1
  <2> HIDE DEF N, S, F
  <2> QED  BY <1>1, <2>1, <2>3, RunExists
<1> DEFINE g == [i \in 0 .. N |-> f[i]]
<1>6. g = G(g)
  <2> SUFFICES ASSUME NEW i \in 0 .. N
               PROVE  f[i] = IF i = 0 THEN window ELSE Pass(g[i - 1], Memmap[i])
    OBVIOUS
  <2>1. CASE i = 0
    BY <1>5, <2>1 DEF Run
  <2>2. CASE i # 0
    <3>1. i \in 1 .. N /\ i - 1 \in 0 .. N
      BY <1>1, <2>2
    <3>2. f[i] = F[i][f[i - 1]] /\ f[i - 1] \in S[i - 1]
      <4> HIDE DEF S, F, N
      <4> QED  BY <1>5, <3>1 DEF Run
    <3>3. g[i - 1] = f[i - 1]
      BY <3>1
    <3>4. F[i] = [z \in S[i - 1] |-> Pass(z, Memmap[i])]
      BY <3>1
    <3>5. F[i][f[i - 1]] = Pass(f[i - 1], Memmap[i])
      <4> HIDE DEF S, F
      <4> QED  BY <3>2, <3>4
    <3> HIDE DEF g, F, S
    <3> QED  BY <2>2, <3>1, <3>2, <3>3, <3>5
  <2> QED  BY <2>1, <2>2
<1> DEFINE done == CHOOSE h : h = G(h)
<1>7. vmm_init(Nothing) = done[N]
  BY Zenon DEF vmm_init, Pass, window, Put
<1>8. done = G(done)
  <2>1. \E h : h = G(h)
    <3> HIDE DEF g, G
    <3> QED  BY <1>6
  <2> HIDE DEF G
  <2> QED  BY <2>1
<1> HIDE DEF done
<1>9. done[0] \in S[0]
  <2>1. 0 \in 0 .. N
    BY <1>1
  <2> QED  BY <1>3, <1>8, <2>1
<1>10. ASSUME NEW j \in 1 .. N, done[j - 1] \in S[j - 1]
       PROVE  done[j] \in S[j]
  <2>1. j \in 0 .. N /\ j - 1 \in 0 .. N /\ j # 0
    BY <1>1
  <2>2. done[j] = Pass(done[j - 1], Memmap[j])
    BY <1>8, <2>1
  <2>3. S[j - 1] = All(j - 1) /\ S[j] = All(j)
    BY <2>1
  <2> HIDE DEF S
  <2> QED  BY <1>4, <1>10, <2>2, <2>3
<1>11. done[N] \in S[N]
  <2>1. N \in 0 .. N
    BY <1>1
  <2> HIDE DEF S, N
  <2> QED  BY <1>1, <1>9, <1>10, <2>1, RunStays
<1>12. N \in 0 .. N
  BY <1>1
<1>13. vmm_init(Nothing) \in All(N)
  BY <1>7, <1>11, <1>12
<1>14. Memory \cap Known(N) = Memory
  <2> SUFFICES ASSUME NEW p \in Memory
               PROVE  p \in Known(N)
    OBVIOUS
  <2>1. p \in Nat /\ Direct \in Nat
    BY MemoryFacts, VmmAssumption
  <2>2. p < Direct - 1 \/ \E i \in 1 .. N : p \in Memmap[i].base .. Memmap[i].base + Memmap[i].length
    BY LayoutAssumption
  <2>3. CASE p < Direct - 1
    <3>1. p \in 0 .. 0 + (Direct - 1) - 1
      BY <2>1, <2>3
    <3> QED  BY <3>1
  <2>4. ASSUME NEW i \in 1 .. N, p \in Memmap[i].base .. Memmap[i].base + Memmap[i].length
        PROVE  p \in Known(N)
    <3>1. p \in Listed(i)
      BY <1>1, <2>4
    <3> HIDE DEF Listed, N
    <3> QED  BY <3>1
  <2> QED  BY <2>2, <2>3, <2>4
<1> HIDE DEF Known, N
<1> QED  BY <1>13, <1>14 DEF All, Booted

LEMMA InitKeeps ==
    ASSUME Init
    PROVE  VmmInv /\ \A p \in Memory : Translate(tables, kernel_pml, mmap_phys_to_kernel(p)) = p
<1> DEFINE root == Cleared(pmm_alloc(Nothing, 1))
           boot == vmm_init(Nothing)
           m == MapNew(boot, kernel_pml, UserStack, 1)
           pl == [p \in {kernel_pml} |-> RootPlace(kernel_pml)]
<1>1. /\ tables = m.tables /\ used = m.used /\ last_index = m.last_index
      /\ spaces = {kernel_pml} /\ blocks = {} /\ shared = {} /\ ~ m.panic
  BY DEF Init, Nothing
<1>2. /\ root \in Machines /\ root.at = kernel_pml
      /\ DOMAIN root.tables = {kernel_pml} /\ root.used = {kernel_pml}
      /\ root.tables[kernel_pml] = Empty
  BY BootRoot
<1>3. root = Cleared(pmm_alloc(Nothing, 1))
  OBVIOUS
<1> HIDE DEF root
<1>4. Tree(root.tables, pl)
  <2>1. root.tables \in Tables
    BY <1>2, MachineIs
  <2>2. RootPlace(kernel_pml) \in Places
    BY LevelFacts, MemoryFacts DEF RootPlace, Places
  <2>3. pl \in [DOMAIN root.tables -> Places]
    BY <1>2, <2>2
  <2>4. \A p \in DOMAIN root.tables : \A i \in Entries : root.tables[p][i] = NULL
    BY <1>2 DEF Empty, Entries
  <2> HIDE DEF pl
  <2> QED  BY <2>1, <2>3, <2>4 DEF Tree
<1>5. Ready(root, pl) /\ Root(root, pl, kernel_pml)
  BY <1>2, <1>4, MemoryFacts DEF Ready, Root
<1> HIDE DEF pl
<1>16. Booted(root, pl, boot, Memory)
  BY <1>2, <1>3, <1>5, BootMaps
<1> HIDE DEF boot
<1>6. PICK ql : From(root, pl, boot, ql, kernel_pml, BootMoves)
  BY <1>16 DEF Booted
<1>7. boot \in Machines /\ Tree(boot.tables, ql) /\ DOMAIN boot.tables \subseteq boot.used
  BY <1>6 DEF From
<1>8. Root(boot, ql, kernel_pml)
  BY <1>5, <1>6 DEF From, Root
<1>9. \A p, i : ~ Leaf(boot.tables, ql, p, i)
  <2> SUFFICES ASSUME NEW p, NEW i, Leaf(boot.tables, ql, p, i)
               PROVE  FALSE
    OBVIOUS
  <2>1. \/ p \in DOMAIN root.tables
        \/ Writes(BootMoves, kernel_pml, ql[p], i, boot.tables[p][i])
    BY <1>6 DEF From, Leaf
  <2>2. ql[p].own # kernel_pml
    BY DEF Leaf
  <2>3. CASE p \in DOMAIN root.tables
    BY <1>2, <1>8, <2>2, <2>3 DEF Root, RootPlace
  <2>4. CASE Writes(BootMoves, kernel_pml, ql[p], i, boot.tables[p][i])
    BY <2>2, <2>4 DEF Writes, PlaceAt
  <2> QED  BY <2>1, <2>3, <2>4
<1>10. Apart(boot.tables, boot.used, ql, {}, {})
  BY <1>7, <1>9 DEF Apart, PagesOf
<1>17. ~ boot.panic
  BY <1>1, <1>7, MapNewPanics
<1>18. PICK rl, R : Added(boot, ql, m, rl, R, kernel_pml, UserStack, 1)
  <2> DEFINE k == 1
  <2>1. m = MapNew(boot, kernel_pml, UserStack, k) /\ k \in Nat /\ UserStack \in Nat
    BY VmmAssumption
  <2>2. Ready(boot, ql)
    BY <1>7 DEF Ready
  <2> HIDE DEF m, k
  <2>3. \E rl, R : Added(boot, ql, m, rl, R, kernel_pml, UserStack, k)
    BY ONLY <1>8, <2>1, <2>2, MapNewGrows
  <2> QED  BY <2>3 DEF k
<1> HIDE DEF m
<1>11. Grown(boot, ql, m, rl, kernel_pml, R) /\ R \cap boot.used = {}
  BY <1>18 DEF Added
<1>19. PICK W : Kept(boot, ql, m, kernel_pml, W) /\ \A v, x : <<v, x>> \in W => ~ Shared(v)
  <2>1. PICK at \in Int : Kept(boot, ql, m, kernel_pml, Moves(UserStack, at, 1))
    BY <1>18 DEF Added
  <2> DEFINE k == 1
  <2>2. /\ k \in Nat /\ UserStack \in Nat
        /\ \A j \in 0 .. k - 1 : (UserStack + j) \div Span[limit_pml - 1] < FirstCopied
    BY UserAddresses, VmmAssumption
  <2> HIDE DEF k
  <2>3. \A v, x : <<v, x>> \in Moves(UserStack, at, k) => ~ Shared(v)
    BY <2>2, UserMoves
  <2> QED  BY <2>1, <2>3 DEF k
<1>20. Window(boot.tables, {kernel_pml})
  <2> SUFFICES ASSUME NEW p \in Memory
               PROVE  /\ TableAt(boot.tables, kernel_pml, mmap_phys_to_kernel(p), 0) # NULL
                      /\ Translate(boot.tables, kernel_pml, mmap_phys_to_kernel(p)) = p
    BY DEF Window
  <2>1. Translate(boot.tables, kernel_pml, mmap_phys_to_kernel(p)) = p
    BY <1>16, <1>17 DEF Booted
  <2>2. p # NULL
    BY MemoryFacts
  <2> QED  BY <2>1, <2>2 DEF Translate
<1>21. /\ Window(m.tables, {kernel_pml})
       /\ \A p \in Memory : Translate(boot.tables, kernel_pml, mmap_phys_to_kernel(p)) = p =>
             Translate(m.tables, kernel_pml, mmap_phys_to_kernel(p)) = p
  <2> DEFINE sp == {kernel_pml}
  <2>1. kernel_pml \in sp /\ \A s \in sp : Root(boot, ql, s)
    BY <1>8
  <2>2. \A p \in Memory : \A x : <<mmap_phys_to_kernel(p), x>> \in W => x = p
    BY <1>19, UserApart
  <2>3. Window(boot.tables, sp)
    BY <1>20
  <2> HIDE DEF sp
  <2>4. /\ Window(m.tables, sp)
        /\ \A p \in Memory : Translate(boot.tables, kernel_pml, mmap_phys_to_kernel(p)) = p =>
              Translate(m.tables, kernel_pml, mmap_phys_to_kernel(p)) = p
    BY <1>19, <2>1, <2>2, <2>3, WindowKept
  <2> QED  BY <2>4 DEF sp
<1>12. Apart(m.tables, m.used, rl, {}, {}) /\ Root(m, rl, kernel_pml) /\ m \in Machines
  <2> DEFINE none == {}
  <2>1. R \cap boot.used \subseteq PagesOf(none) /\ Apart(boot.tables, boot.used, ql, none, none)
    BY <1>10, <1>11
  <2>2. Root(m, rl, kernel_pml)
    BY <1>8, <1>11, RootStays
  <2>3. m \in Machines
    BY <1>11 DEF Grown
  <2> HIDE DEF none
  <2>4. Apart(m.tables, m.used, rl, none, none)
    BY <1>11, <2>1, ApartAfter
  <2> QED  BY <2>2, <2>3, <2>4 DEF none
<1>13. Now \in Machines
  <2> DEFINE f == FALSE
             a == NULL
  <2>1. Now = [tables |-> m.tables, used |-> m.used, last_index |-> m.last_index,
               at |-> a, panic |-> f, fault |-> f]
    BY <1>1 DEF Now
  <2>2. a \in Int /\ f \in BOOLEAN
    BY DEF NULL
  <2> HIDE DEF a, f
  <2> QED  BY <1>12, <2>1, <2>2, MachineIs DEF Machines
<1>14. Apart(tables, used, rl, blocks, shared) /\ Roots(tables, rl)
  BY <1>1, <1>12 DEF Roots, Root
<1>15. Window(tables, spaces) /\ HeapPart(tables, blocks)
  BY <1>1, <1>21 DEF HeapPart
<1>22. SharedPart(shared)
  BY <1>1 DEF SharedPart
<1>23. VmmInv
  BY <1>1, <1>13, <1>14, <1>15, <1>22 DEF VmmInv
<1>24. \A p \in Memory : Translate(tables, kernel_pml, mmap_phys_to_kernel(p)) = p
  BY <1>1, <1>16, <1>17, <1>21 DEF Booted
<1> QED  BY <1>23, <1>24

\* After boot the kernel finds each page of memory at its place in the window.
LEMMA SpacesStart ==
    ASSUME Init
    PROVE  Abstract!SpacesInit
<1> DEFINE f == Seen(tables, spaces)
           Addresses == {mmap_phys_to_kernel(p) : p \in Memory}
           Pages0 == [v \in Addresses |-> CHOOSE p \in Memory : mmap_phys_to_kernel(p) = v]
<1>1. View = f
  BY ViewIs
<1>2. spaces = {kernel_pml} /\ DOMAIN f = spaces
  BY DEF Init, Seen
<1>3. VmmInv /\ \A p \in Memory : Translate(tables, kernel_pml, mmap_phys_to_kernel(p)) = p
  BY InitKeeps
<1>4. PICK pl : Rooted(tables, pl, spaces)
  BY <1>3 DEF VmmInv, Apart, Roots, Rooted
<1>5. \A v \in 0 .. VirtPages - 1 : Abstract!At(f[kernel_pml], v) = Translate(tables, kernel_pml, v)
  BY <1>2, <1>4, SeenReads
<1> HIDE DEF f
<1>6. ASSUME NEW v \in Addresses
      PROVE  Abstract!At(f[kernel_pml], v) = Pages0[v]
  <2>1. PICK p \in Memory : v = mmap_phys_to_kernel(p)
    OBVIOUS
  <2>2. Pages0[v] = CHOOSE q \in Memory : mmap_phys_to_kernel(q) = v
    OBVIOUS
  <2>3. Pages0[v] = p
    BY <2>1, <2>2, WindowApart
  <2>4. v \in 0 .. VirtPages - 1
    BY <2>1, AddressInWindow, MemoryFacts
  <2> QED  BY <1>3, <1>5, <2>1, <2>3, <2>4
<1>7. DOMAIN Pages0 = Addresses
  OBVIOUS
<1> HIDE DEF Pages0, Addresses
<1>8. DOMAIN View = {kernel_pml} /\ \A v \in DOMAIN Pages0 : Abstract!At(View[kernel_pml], v) = Pages0[v]
  BY <1>1, <1>2, <1>6, <1>7
<1> QED  BY <1>8 DEF Abstract!SpacesInit, Pages0, Addresses

LEMMA StepKeeps ==
    ASSUME VmmInv, [Next]_vmmVars
    PROVE  VmmInv' /\ Stays /\ Refined
<1>1. ASSUME NEW n \in Lengths, load_elf_module(n)
      PROVE  VmmInv' /\ Stays /\ Refined
  BY <1>1, LoadKeeps
<1>2. ASSUME NEW n \in Lengths, NEW s \in spaces \ {kernel_pml}, syscall_create_shared_mem(s, n)
      PROVE  VmmInv' /\ Stays /\ Refined
  BY <1>2, CreateKeeps
<1>3. ASSUME NEW s \in spaces \ {kernel_pml}, syscall_ipc_rcv_sync(s)
      PROVE  VmmInv' /\ Stays /\ Refined
  BY <1>3, ReceiveKeeps
<1>4. CASE liballoc_alloc
  BY <1>4, AllocKeeps
<1>5. ASSUME NEW b \in blocks, liballoc_free(b)
      PROVE  VmmInv' /\ Stays /\ Refined
  BY <1>5, FreeKeeps
<1>6. CASE UNCHANGED vmmVars
  BY <1>6, Stopped DEF vmmVars
<1> QED  BY <1>1, <1>2, <1>3, <1>4, <1>5, <1>6 DEF Next

\* Whatever is loaded, shared, allocated and freed, the tables stay a tree,
\* the spaces apart, and the window where it was.
THEOREM VmmInvariance == Spec => []VmmInv
<1>1. Init => VmmInv
  BY InitKeeps
<1>2. VmmInv /\ [Next]_vmmVars => VmmInv'
  BY StepKeeps
<1> QED  BY <1>1, <1>2, PTL DEF Spec

\* An address that is mapped goes on meaning the same page, but for the hole
\* that a block of the heap leaves and for the ranges of messages.
THEOREM VmmStaysMapped == Spec => StaysMapped
<1>1. VmmInv /\ [Next]_vmmVars => Stays
  BY StepKeeps
<1>2. Stays => [Stays]_vmmVars
  OBVIOUS
<1>3. Spec => [][Stays]_vmmVars
  BY <1>1, <1>2, VmmInvariance, PTL DEF Spec
<1> QED  BY <1>3 DEF StaysMapped, Stays

\* The trees of tables implement flat address spaces: whatever tables a call
\* makes, it maps a range in one space, or in all if it is shared, unmaps a
\* page in all, or makes a space that shares what all share; no other address
\* of any space comes to mean another page.
THEOREM VmmRefinesSpaces == Spec => Refines
<1>1. Init => Abstract!SpacesInit
  BY SpacesStart
<1>2. VmmInv /\ [Next]_vmmVars => [Abstract!SpacesNext]_View
  BY StepKeeps DEF Refined
<1> QED  BY <1>1, <1>2, VmmInvariance, PTL DEF Spec, Refines, Abstract!SpacesSpec

\* Every page of the heap can be reached in every space, whatever blocks
\* around it have been given back and unmapped.
THEOREM VmmHeapMapped == Spec => []HeapMapped
<1>1. VmmInv => HeapMapped
  <2> SUFFICES ASSUME VmmInv, NEW b \in blocks, NEW p \in Pages(b), NEW s \in spaces
               PROVE  Translate(tables, s, mmap_phys_to_kernel(p)) = p
    BY DEF HeapMapped
  <2>1. p \in Memory
    BY BlocksInMemory DEF VmmInv
  <2>2. Translate(tables, kernel_pml, mmap_phys_to_kernel(p)) = p
    BY DEF VmmInv, HeapPart
  <2> QED  BY <2>1, <2>2, WindowSame DEF VmmInv
<1> QED  BY <1>1, VmmInvariance, PTL

\* No two walks end in the same table unless they walk the same part of the
\* same space, so that no call changes a mapping of a space it is not about.
THEOREM VmmPrivateTables == Spec => []PrivateTables
<1>1. VmmInv => PrivateTables
  BY TreeIsPrivate DEF VmmInv, Apart
<1> QED  BY <1>1, VmmInvariance, PTL

\* What a space has below the shared part is a leaf of it, unless a message has
\* named it.
LEMMA FoundLeaf ==
    ASSUME NEW pl, Tree(tables, pl), Roots(tables, pl), NEW s \in Users, NEW v \in OwnAddresses,
           Translate(tables, s, v) # NULL, ~ ByName(s, v)
    PROVE  \E p, i : Leaf(tables, pl, p, i) /\ pl[p].own = s /\ tables[p][i] = Translate(tables, s, v)
<1>1. PICK r \in Regions \ SharedRegions, i \in Entries : v = r * ENTRIES + i
  BY DEF OwnAddresses, Entries
<1> DEFINE last == TableAt(tables, s, v, 0)
           x == Translate(tables, s, v)
<1>2. v \in 0 .. VirtPages - 1 /\ v \div ENTRIES = r /\ v % ENTRIES = i
  BY <1>1, AddressOf
<1>3. last # NULL /\ x = tables[last][i]
  <2>1. PMLX_GET_INDEX(v, 0) = i
    BY <1>2, AddressParts
  <2> QED  BY <2>1 DEF Translate
<1>4. s \in spaces /\ s # kernel_pml
  BY DEF Users
<1>5. last \in DOMAIN tables /\ pl[last] = [own |-> s, lev |-> 0, pre |-> r]
  <2>1. 0 \in Levels /\ s \in DOMAIN tables /\ s \in Int /\ pl[s] = RootPlace(s)
    BY <1>4, LevelFacts DEF Roots
  <2>2. last \in DOMAIN tables /\ pl[last] = PlaceAt(s, v, 0)
    BY <1>2, <1>3, <2>1, WalkEnds
  <2>3. ~ Shared(v)
    BY <1>1, <1>2, AddressParts
  <2> QED  BY <1>2, <2>2, <2>3, AddressParts
<1>6. ~ Called(pl[last], i, tables[last][i])
  <2>1. pl[last].pre * ENTRIES + i = v
    BY <1>1, <1>5
  <2> QED  BY <1>3, <2>1 DEF Called, ByName, PagesOf
<1> HIDE DEF last
<1>7. Leaf(tables, pl, last, i) /\ pl[last].own = s /\ tables[last][i] = x
  BY <1>3, <1>4, <1>5, <1>6 DEF Leaf
<1> QED  BY <1>7

\* Below the shared part a program finds no table, no page of the heap and, but
\* for shared memory, no page of another program: only what messages name is
\* found there too, at its own address and nowhere else.
THEOREM VmmIsolation == Spec => []Isolation
<1>1. VmmInv => Isolation
  <2> SUFFICES ASSUME VmmInv, NEW s \in Users, NEW v \in OwnAddresses,
                      Translate(tables, s, v) # NULL, ~ ByName(s, v)
               PROVE  /\ Translate(tables, s, v) \in used \ DOMAIN tables
                      /\ \A b \in blocks : Translate(tables, s, v) \notin Pages(b)
                      /\ \/ \E r \in shared : Translate(tables, s, v) \in Pages(r)
                         \/ \A t \in Users \ {s}, w \in OwnAddresses :
                               Translate(tables, t, w) = Translate(tables, s, v) => ByName(t, w)
    BY DEF Isolation
  <2> DEFINE x == Translate(tables, s, v)
  <2>1. PICK pl : Apart(tables, used, pl, blocks, shared) /\ Roots(tables, pl)
    BY DEF VmmInv
  <2>2. Tree(tables, pl)
    BY <2>1 DEF Apart
  <2>3. PICK p, i : Leaf(tables, pl, p, i) /\ pl[p].own = s /\ tables[p][i] = x
    BY <2>1, <2>2, FoundLeaf
  <2>4. x \in used \ DOMAIN tables /\ \A b \in blocks : x \notin Pages(b)
    BY <2>1, <2>3 DEF Apart
  <2>5. ASSUME NEW t \in Users \ {s}, NEW w \in OwnAddresses, Translate(tables, t, w) = x, ~ ByName(t, w)
        PROVE  \E r \in shared : x \in Pages(r)
    <3>1. PICK q, j : Leaf(tables, pl, q, j) /\ pl[q].own = t /\ tables[q][j] = x
      BY <2>1, <2>2, <2>5, FoundLeaf
    <3>2. x \in PagesOf(shared)
      BY <2>1, <2>3, <3>1 DEF Apart
    <3> QED  BY <3>2 DEF PagesOf
  <2> QED  BY <2>4, <2>5
<1> QED  BY <1>1, VmmInvariance, PTL
=============================================================================
