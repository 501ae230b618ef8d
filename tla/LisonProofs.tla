---------------------------- MODULE LisonProofs ----------------------------
(***************************************************************************)
(* What is proved of lison_parse_str, for all texts that are shorter than  *)
(* SIZE.  The tokens are those of the description, though the lexer never  *)
(* looks back.  The parser, which knows the lists that are open and what   *)
(* it read of each, accepts what the description accepts, which asks for   *)
(* the matches of parentheses in the whole text.  An error frees the lists *)
(* around it, but for what a list has read that meets the end of the       *)
(* tokens; and nothing is read outside of lists and strings where the rule *)
(* of pairs, or quotes in pairs, are to keep the reader inside.            *)
(***************************************************************************)
EXTENDS Lison, FiniteSetTheorems, SequenceTheorems, WellFoundedInduction, TLAPS

-----------------------------------------------------------------------------
\* A set of natural numbers that is not empty has a least one.
LEMMA LeastNumber ==
    ASSUME NEW T, T \subseteq Nat, T # {}
    PROVE  \E k \in T : \A j \in T : k <= j
<1>1. PICK k \in T : \A j \in T : ~ (<<j, k>> \in OpToRel(<, Nat))
  BY NatLessThanWellFounded, WFMin
<1>2. ASSUME NEW j \in T
      PROVE  k <= j
  <2>1. j \in Nat /\ k \in Nat
    OBVIOUS
  <2>2. <<j, k>> \in OpToRel(<, Nat) <=> j < k
    BY <2>1 DEF OpToRel
  <2>3. ~ (<<j, k>> \in OpToRel(<, Nat))
    BY <1>1
  <2>4. ~ (j < k)
    BY <2>2, <2>3
  <2> QED  BY <2>1, <2>4
<1> QED  BY <1>2

-----------------------------------------------------------------------------
(* Counting *)

LEMMA FiniteBelow ==
    ASSUME NEW n \in Nat, NEW S, S \subseteq 1 .. n
    PROVE  IsFiniteSet(S) /\ Cardinality(S) \in Nat
<1>1. IsFiniteSet(1 .. n) /\ S \in SUBSET (1 .. n)
  BY FS_Interval
<1>2. IsFiniteSet(S)
  BY <1>1, FS_Subset
<1> QED  BY <1>2, FS_CardinalityType

\* Count goes up by one at each occurrence.
LEMMA CountNext ==
    ASSUME NEW s, NEW e, NEW n \in Nat
    PROVE  /\ Count(s, e, 1, n) \in Nat
           /\ Count(s, e, 1, 0) = 0
           /\ Count(s, e, 1, n + 1) = Count(s, e, 1, n) + IF s[n + 1] = e THEN 1 ELSE 0
<1> DEFINE T(m) == {i \in 1 .. m : s[i] = e}
<1>1. ASSUME NEW m \in Nat
      PROVE  IsFiniteSet(T(m)) /\ Cardinality(T(m)) \in Nat
  <2>1. IsFiniteSet(1 .. m)
    BY FS_Interval
  <2>2. T(m) \in SUBSET (1 .. m)
    OBVIOUS
  <2> HIDE DEF T
  <2> QED  BY <2>1, <2>2, FS_Subset, FS_CardinalityType
<1>2. T(0) = {}
  OBVIOUS
<1>3. CASE s[n + 1] = e
  <2>1. T(n + 1) = T(n) \cup {n + 1} /\ n + 1 \notin T(n)
    BY <1>3
  <2> HIDE DEF T
  <2>2. Cardinality(T(n + 1)) = Cardinality(T(n)) + 1
    BY <1>1, <2>1, FS_AddElement
  <2> QED  BY <1>1, <1>2, <1>3, <2>2, FS_EmptySet DEF Count, T
<1>4. CASE s[n + 1] # e
  <2>1. T(n + 1) = T(n)
    BY <1>4
  <2> QED  BY <1>1, <1>2, <1>4, <2>1, FS_EmptySet DEF Count
<1> QED  BY <1>3, <1>4

-----------------------------------------------------------------------------
(* Tokens in their order *)

Rank(S, i) == Cardinality({j \in S : j <= i})

\* The sequence ts has the tokens that begin at the positions S of the text s.
Lexed(ts, s, S) ==
    /\ Len(ts) = Cardinality(S)
    /\ \A k \in 1 .. Len(ts) : \E i \in S : Rank(S, i) = k /\ ts[k] = TokenAt(s, i)

\* Two positions have two ranks.
LEMMA RankUnique ==
    ASSUME NEW S, IsFiniteSet(S), S \subseteq Nat, NEW i \in S, NEW j \in S, Rank(S, i) = Rank(S, j)
    PROVE  i = j
<1> DEFINE T(a) == {b \in S : b <= a}
<1>1. ASSUME NEW a \in S, NEW b \in S, a < b, Rank(S, a) = Rank(S, b)
      PROVE  FALSE
  <2>1. IsFiniteSet(T(b)) /\ T(a) \in SUBSET T(b) /\ b \in T(b) /\ b \notin T(a)
    <3>1. T(b) \in SUBSET S
      OBVIOUS
    <3>2. IsFiniteSet(T(b))
      BY <3>1, FS_Subset
    <3>3. a \in Nat /\ b \in Nat
      OBVIOUS
    <3>4. b \in T(b) /\ b \notin T(a)
      BY <1>1, <3>3
    <3>5. \A c \in S : c <= a => c <= b
      <4>1. \A c \in S : c \in Nat
        OBVIOUS
      <4> QED  BY <1>1, <3>3, <4>1
    <3> QED  BY <3>2, <3>4, <3>5
  <2>2. Cardinality(T(a)) = Cardinality(T(b))
    BY <1>1 DEF Rank
  <2> HIDE DEF T
  <2> QED  BY <2>1, <2>2, FS_Subset
<1> QED  BY <1>1

\* A token behind all others is the next one.
LEMMA LexedNext ==
    ASSUME NEW s, NEW n \in Nat, NEW S, S \subseteq 1 .. n,
           NEW T, NEW ts \in Seq(T), Lexed(ts, s, S), NEW i \in Nat, i > n,
           NEW t \in T, t = TokenAt(s, i)
    PROVE  Lexed(Append(ts, t), s, S \cup {i})
<1> DEFINE U == S \cup {i}
           us == Append(ts, t)
<1>1. IsFiniteSet(S) /\ i \notin S /\ Cardinality(S) \in Nat
  <2>1. i \notin S
    OBVIOUS
  <2>2. IsFiniteSet(S) /\ Cardinality(S) \in Nat
    BY FiniteBelow
  <2> QED  BY <2>1, <2>2
<1>2. IsFiniteSet(U) /\ Cardinality(U) = Cardinality(S) + 1
  BY <1>1, FS_AddElement
<1>3. Len(ts) = Cardinality(S) /\ \A k \in 1 .. Len(ts) : \E j \in S : Rank(S, j) = k /\ ts[k] = TokenAt(s, j)
  BY DEF Lexed
<1>4. /\ Len(us) = Len(ts) + 1
      /\ \A k \in 1 .. Len(ts) : us[k] = ts[k]
      /\ us[Len(ts) + 1] = t
  BY AppendProperties
<1>5. Rank(U, i) = Cardinality(U)
  <2>1. \A j \in U : j <= i
    OBVIOUS
  <2> QED  BY <2>1 DEF Rank
<1>6. \A j \in S : Rank(U, j) = Rank(S, j)
  <2>1. \A j \in S : {k \in U : k <= j} = {k \in S : k <= j}
    OBVIOUS
  <2> QED  BY <2>1 DEF Rank
<1>7. i \in U /\ S \subseteq U
  OBVIOUS
<1> HIDE DEF U, us
<1>8. ASSUME NEW k \in 1 .. Len(us)
      PROVE  \E j \in U : Rank(U, j) = k /\ us[k] = TokenAt(s, j)
  <2>1. CASE k = Len(ts) + 1
    BY <1>2, <1>3, <1>4, <1>5, <1>7, <2>1
  <2>2. CASE k # Len(ts) + 1
    <3>1. k \in 1 .. Len(ts)
      BY <1>1, <1>3, <1>4, <2>2
    <3>2. PICK j \in S : Rank(S, j) = k /\ ts[k] = TokenAt(s, j)
      BY <1>3, <3>1
    <3> QED  BY <1>4, <1>6, <1>7, <3>1, <3>2
  <2> QED  BY <2>1, <2>2
<1> QED  BY <1>2, <1>3, <1>4, <1>8 DEF Lexed, U, us

\* All tokens, in their order, are those of the text.
LEMMA LexedAll ==
    ASSUME NEW s \in Seq(STRING), NEW T, NEW ts \in Seq(T), Lexed(ts, s, Starts(s))
    PROVE  ts = TokensOf(s)
<1> DEFINE S == Starts(s)
           Nth(k) == CHOOSE i \in S : Cardinality({j \in S : j <= i}) = k
<1>1. S \subseteq 1 .. Len(s) /\ Len(s) \in Nat
  BY DEF Starts
<1>2. IsFiniteSet(S) /\ S \subseteq Nat
  <2>1. S \subseteq Nat
    BY <1>1
  <2> HIDE DEF S
  <2> QED  BY <1>1, <2>1, FiniteBelow
<1>3. Len(ts) = Cardinality(S) /\ \A k \in 1 .. Len(ts) : \E j \in S : Rank(S, j) = k /\ ts[k] = TokenAt(s, j)
  BY DEF Lexed
<1> HIDE DEF S
<1>4. ASSUME NEW k \in 1 .. Len(ts)
      PROVE  ts[k] = TokenAt(s, Nth(k))
  <2>1. PICK j \in S : Rank(S, j) = k /\ ts[k] = TokenAt(s, j)
    BY <1>3
  <2>2. Nth(k) \in S /\ Rank(S, Nth(k)) = k
    BY <2>1 DEF Rank
  <2>3. Nth(k) = j
    BY <1>2, <2>1, <2>2, RankUnique
  <2> QED  BY <2>1, <2>3
<1>5. ts = [k \in 1 .. Cardinality(S) |-> TokenAt(s, Nth(k))]
  <2>1. ts = [k \in 1 .. Len(ts) |-> ts[k]]
    BY LenProperties
  <2> HIDE DEF Nth
  <2> QED  BY <1>3, <1>4, <2>1
<1> QED  BY <1>5 DEF TokensOf, S

-----------------------------------------------------------------------------
(* The lexer *)

Lexers == [tokens : Seq(Seq(STRING)), builder : Seq(STRING), is_str : BOOLEAN]

Upto(s, a) == Starts(s) \cap (1 .. a)

\* The characters b to a are the word that begins at b, as far as it was read.
Word(s, b, a) == b \in 1 .. a /\ ~ InWord(s, b - 1) /\ \A k \in b .. a : InWord(s, k)

\* What the lexer has after a characters of s: the builder holds the word that
\* is being read, and the tokens before it are complete.
Lexing(s, a, l) ==
    /\ l \in Lexers
    /\ l.is_str <=> Quoted(s, a + 1)
    /\ \/ ~ InWord(s, a) /\ l.builder = <<>> /\ Lexed(l.tokens, s, Upto(s, a))
       \/ \E b \in 1 .. a : /\ Word(s, b, a)
                            /\ l.builder = SubSeq(s, b, a)
                            /\ Lexed(l.tokens, s, Upto(s, b - 1))

\* The token of a word that ends at a.
LEMMA WordToken ==
    ASSUME NEW s \in Seq(STRING), NEW a \in 1 .. Len(s), NEW b \in 1 .. a,
           Word(s, b, a), ~ InWord(s, a + 1)
    PROVE  /\ TokenAt(s, b) = SubSeq(s, b, a)
           /\ b \in Starts(s)
           /\ Starts(s) \cap ((b + 1) .. a) = {}
<1>0. Len(s) \in Nat /\ DOMAIN s = 1 .. Len(s) /\ a \in Nat /\ b \in Nat /\ b \in DOMAIN s
  OBVIOUS
<1>1. InWord(s, b) /\ ~ InWord(s, b - 1) /\ \A k \in b .. a : InWord(s, k)
  BY <1>0 DEF Word
<1>2. s[b] # "#" /\ ~ Ends(s, b) /\ ~ Single(s, b)
  BY <1>1 DEF InWord, Single
<1>3. b \in Starts(s)
  BY <1>0, <1>1 DEF Starts
<1>4. ASSUME NEW j \in (b + 1) .. a, j \in Starts(s)
      PROVE  FALSE
  <2>1. j \in b .. a /\ j - 1 \in b .. a
    BY <1>0
  <2>2. InWord(s, j) /\ InWord(s, j - 1)
    BY <1>1, <2>1
  <2>3. s[j] = "\n" => Ends(s, j)
    BY Zenon DEF Ends
  <2>4. ~ Ends(s, j) /\ ~ Single(s, j)
    BY <2>2, Zenon DEF InWord
  <2> QED  BY <1>4, <2>2, <2>3, <2>4 DEF Starts
<1>5. DEFINE P(j) == ~ InWord(s, j + 1) /\ \A k \in b .. j : InWord(s, k)
<1>6. ASSUME NEW j \in b .. Len(s), P(j)
      PROVE  j = a
  <2>1. CASE j < a
    <3>1. j + 1 \in b .. a
      BY <1>0, <2>1
    <3> QED  BY <1>1, <1>6, <3>1
  <2>2. CASE j > a
    <3>1. a + 1 \in b .. j
      BY <1>0, <2>2
    <3> QED  BY <1>6, <3>1
  <2> QED  BY <1>0, <2>1, <2>2
<1>7. a \in b .. Len(s) /\ P(a)
  BY <1>0, <1>1
<1>8. (CHOOSE j \in b .. Len(s) : P(j)) = a
  <2> HIDE DEF P
  <2> QED  BY <1>6, <1>7
<1>9. TokenAt(s, b) = SubSeq(s, b, a)
  BY <1>1, <1>2, <1>8 DEF TokenAt
<1> QED  BY <1>3, <1>4, <1>9

\* Where no word goes on, the token that is built is pushed.
LEMMA LexPush ==
    ASSUME NEW s \in Seq(STRING), NEW a \in 0 .. Len(s), NEW l, Lexing(s, a, l), ~ InWord(s, a + 1),
           NEW m, m = lison_smart_push(l)
    PROVE  /\ m \in Lexers
           /\ m.builder = <<>> /\ m.is_str = l.is_str
           /\ Lexed(m.tokens, s, Upto(s, a))
<1>1. l \in Lexers
  BY DEF Lexing
<1>2. CASE ~ InWord(s, a) /\ l.builder = <<>> /\ Lexed(l.tokens, s, Upto(s, a))
  BY <1>1, <1>2 DEF lison_smart_push
<1>3. ASSUME NEW b \in 1 .. a, Word(s, b, a), l.builder = SubSeq(s, b, a), Lexed(l.tokens, s, Upto(s, b - 1))
      PROVE  /\ m \in Lexers
             /\ m.builder = <<>> /\ m.is_str = l.is_str
             /\ Lexed(m.tokens, s, Upto(s, a))
  <2>1. Len(s) \in Nat /\ a \in 1 .. Len(s) /\ a \in Nat /\ b \in Nat
    OBVIOUS
  <2>2. /\ TokenAt(s, b) = SubSeq(s, b, a)
        /\ b \in Starts(s)
        /\ Starts(s) \cap ((b + 1) .. a) = {}
    BY <1>3, <2>1, WordToken
  <2>3. l.builder # <<>> /\ l.builder \in Seq(STRING)
    <3>1. Len(SubSeq(s, b, a)) = a - b + 1
      <4>1. \A i \in b .. a : s[i] \in STRING
        BY <2>1
      <4> QED  BY <2>1, <4>1, SubSeqProperties
    <3>2. Len(<<>>) = 0
      OBVIOUS
    <3>3. l.builder # <<>>
      <4>1. a - b + 1 # 0
        BY <2>1
      <4>2. Len(l.builder) # Len(<<>>)
        BY <1>3, <3>1, <3>2, <4>1
      <4> QED  BY <4>2
    <3> QED  BY <1>1, <3>3 DEF Lexers
  <2>4. m = [l EXCEPT !.tokens = Append(@, l.builder), !.builder = <<>>]
    BY <2>3 DEF lison_smart_push
  <2>5. l.tokens \in Seq(Seq(STRING))
    BY <1>1 DEF Lexers
  <2>6. m \in Lexers /\ m.builder = <<>> /\ m.is_str = l.is_str /\ m.tokens = Append(l.tokens, l.builder)
    <3>1. Append(l.tokens, l.builder) \in Seq(Seq(STRING)) /\ <<>> \in Seq(STRING)
      BY <2>3, <2>5, AppendProperties, EmptySeq
    <3> QED  BY <1>1, <2>4, <3>1 DEF Lexers
  <2>7. Upto(s, a) = Upto(s, b - 1) \cup {b}
    <3>1. \A i \in Starts(s) : i \in 1 .. a <=> (i \in 1 .. b - 1 \/ i = b \/ i \in (b + 1) .. a)
      BY <2>1
    <3> QED  BY <2>2, <3>1 DEF Upto
  <2>8. Upto(s, b - 1) \subseteq 1 .. b - 1 /\ b - 1 \in Nat /\ b > b - 1
    BY <2>1 DEF Upto
  <2>9. Lexed(Append(l.tokens, l.builder), s, Upto(s, b - 1) \cup {b})
    BY <1>3, <2>1, <2>2, <2>3, <2>5, <2>8, LexedNext
  <2> QED  BY <2>6, <2>7, <2>9
<1> QED  BY <1>2, <1>3 DEF Lexing

\* The next character goes on with a word, or begins one.
LEMMA LexBuild ==
    ASSUME NEW s \in Seq(STRING), NEW a \in Nat, a < Len(s), NEW l, Lexing(s, a, l), InWord(s, a + 1),
           NEW m \in Lexers, m.tokens = l.tokens, m.builder = Append(l.builder, s[a + 1]),
           m.is_str <=> Quoted(s, a + 2)
    PROVE  Lexing(s, a + 1, m)
<1>0. Len(s) \in Nat /\ DOMAIN s = 1 .. Len(s) /\ l \in Lexers /\ s[a + 1] \in STRING /\ a + 1 + 1 = a + 2
  BY DEF Lexing
<1>1. \E b \in 1 .. a + 1 : /\ Word(s, b, a + 1)
                            /\ m.builder = SubSeq(s, b, a + 1)
                            /\ Lexed(m.tokens, s, Upto(s, b - 1))
  <2>1. CASE ~ InWord(s, a) /\ l.builder = <<>> /\ Lexed(l.tokens, s, Upto(s, a))
    <3>1. a + 1 \in 1 .. a + 1 /\ a + 1 - 1 = a /\ \A k \in a + 1 .. a + 1 : k = a + 1
      OBVIOUS
    <3>2. Word(s, a + 1, a + 1)
      BY <2>1, <3>1 DEF Word
    <3>3. m.builder = SubSeq(s, a + 1, a + 1)
      <4>1. m.builder = <<s[a + 1]>>
        BY <2>1
      <4>2. \A i \in a + 1 .. a + 1 : s[i] \in STRING
        BY <1>0, <3>1
      <4>3. /\ SubSeq(s, a + 1, a + 1) \in Seq(STRING)
            /\ Len(SubSeq(s, a + 1, a + 1)) = a + 1 - (a + 1) + 1
            /\ \A i \in 1 .. a + 1 - (a + 1) + 1 : SubSeq(s, a + 1, a + 1)[i] = s[a + 1 + i - 1]
        BY <4>2, SubSeqProperties
      <4>4. Len(SubSeq(s, a + 1, a + 1)) = 1 /\ SubSeq(s, a + 1, a + 1)[1] = s[a + 1]
        BY <4>3
      <4> QED  BY <4>1, <4>3, <4>4
    <3>4. Lexed(m.tokens, s, Upto(s, a + 1 - 1))
      BY <2>1, <3>1
    <3> QED  BY ONLY <3>1, <3>2, <3>3, <3>4
  <2>2. CASE ~ (~ InWord(s, a) /\ l.builder = <<>> /\ Lexed(l.tokens, s, Upto(s, a)))
    <3>4. PICK b \in 1 .. a : /\ Word(s, b, a)
                             /\ l.builder = SubSeq(s, b, a)
                             /\ Lexed(l.tokens, s, Upto(s, b - 1))
      BY <2>2 DEF Lexing
    <3>1. b \in 1 .. a + 1 /\ \A k \in b .. a + 1 : k \in b .. a \/ k = a + 1
      OBVIOUS
    <3>2. Word(s, b, a + 1)
      BY <3>1, <3>4 DEF Word
    <3>3. m.builder = SubSeq(s, b, a + 1)
      <4>1. b \in 1 .. Len(s) /\ a + 1 \in b .. Len(s) /\ a + 1 - 1 = a
        BY <1>0
      <4>2. SubSeq(s, b, a + 1) = SubSeq(s, b, a) \o <<s[a + 1]>>
        BY <4>1, SubSeqRecursiveSecond
      <4>3. l.builder \in Seq(STRING)
        BY <1>0 DEF Lexers
      <4> QED  BY <1>0, <3>4, <4>2, <4>3, AppendIsConcat
    <3> QED  BY <3>1, <3>2, <3>3, <3>4
  <2> QED  BY <2>1, <2>2
<1> QED  BY <1>0, <1>1 DEF Lexing

\* A character on which no word goes on: the tokens of the positions up to it.
LEMMA LexCut ==
    ASSUME NEW s \in Seq(STRING), NEW a \in Nat, a < Len(s), ~ InWord(s, a + 1),
           NEW m \in Lexers, m.builder = <<>>, m.is_str <=> Quoted(s, a + 2),
           NEW l \in Lexers, Lexed(l.tokens, s, Upto(s, a)),
           \/ a + 1 \notin Starts(s) /\ m.tokens = l.tokens
           \/ /\ a + 1 \in Starts(s)
              /\ TokenAt(s, a + 1) \in Seq(STRING) /\ m.tokens = Append(l.tokens, TokenAt(s, a + 1))
    PROVE  Lexing(s, a + 1, m)
<1>1. a + 1 + 1 = a + 2 /\ 1 .. a + 1 = (1 .. a) \cup {a + 1} /\ a + 1 \in Nat /\ a + 1 > a
  OBVIOUS
<1>2. Lexed(m.tokens, s, Upto(s, a + 1))
  <2>1. CASE a + 1 \notin Starts(s) /\ m.tokens = l.tokens
    <3>1. Upto(s, a + 1) = Upto(s, a)
      BY <1>1, <2>1 DEF Upto
    <3> QED  BY <2>1, <3>1
  <2>2. CASE /\ a + 1 \in Starts(s)
             /\ TokenAt(s, a + 1) \in Seq(STRING) /\ m.tokens = Append(l.tokens, TokenAt(s, a + 1))
    <3>1. Upto(s, a + 1) = Upto(s, a) \cup {a + 1} /\ Upto(s, a) \subseteq 1 .. a
      BY <1>1, <2>2 DEF Upto
    <3>2. l.tokens \in Seq(Seq(STRING))
      BY DEF Lexers
    <3>3. Lexed(Append(l.tokens, TokenAt(s, a + 1)), s, Upto(s, a) \cup {a + 1})
      BY <1>1, <2>2, <3>1, <3>2, LexedNext
    <3> QED  BY <2>2, <3>1, <3>3
  <2> QED  BY <2>1, <2>2
<1> QED  BY <1>1, <1>2 DEF Lexing

OddBefore(s, e, i) == Count(s, e, 1, i - 1) % 2 = 1

\* A position is quoted if the one before it is, but for a quotation mark.
LEMMA OddNext ==
    ASSUME NEW s, NEW e, NEW n \in Nat
    PROVE  /\ s[n + 1] = e => (OddBefore(s, e, n + 2) <=> ~ OddBefore(s, e, n + 1))
           /\ s[n + 1] # e => (OddBefore(s, e, n + 2) <=> OddBefore(s, e, n + 1))
<1> DEFINE x == Count(s, e, 1, n)
           y == Count(s, e, 1, n + 1)
<1>1. x \in Nat /\ y = x + IF s[n + 1] = e THEN 1 ELSE 0
  BY CountNext
<1>2. (n + 2) - 1 = n + 1 /\ (n + 1) - 1 = n
  OBVIOUS
<1>3. (OddBefore(s, e, n + 1) <=> x % 2 = 1) /\ (OddBefore(s, e, n + 2) <=> y % 2 = 1)
  BY <1>2 DEF OddBefore
<1> HIDE DEF x, y
<1> QED  BY <1>1, <1>3

LEMMA QuotedNext ==
    ASSUME NEW s, NEW n \in Nat
    PROVE  Quoted(s, n + 2) <=> IF s[n + 1] = "\"" THEN ~ Quoted(s, n + 1) ELSE Quoted(s, n + 1)
<1>1. Quoted(s, n + 1) <=> OddBefore(s, "\"", n + 1)
  BY Zenon DEF Quoted, OddBefore
<1>2. Quoted(s, n + 2) <=> OddBefore(s, "\"", n + 2)
  BY Zenon DEF Quoted, OddBefore
<1>3. /\ s[n + 1] = "\"" => (OddBefore(s, "\"", n + 2) <=> ~ OddBefore(s, "\"", n + 1))
      /\ s[n + 1] # "\"" => (OddBefore(s, "\"", n + 2) <=> OddBefore(s, "\"", n + 1))
  BY OddNext, Zenon
<1> QED  BY <1>1, <1>2, <1>3, Zenon

\* Text goes on with a word.
LEMMA InWords ==
    ASSUME NEW s, NEW i \in DOMAIN s
    PROVE  /\ s[i] = "\n" => ~ InWord(s, i)
           /\ s[i] = "\r" => ~ InWord(s, i)
           /\ s[i] = "#" => ~ InWord(s, i)
           /\ s[i] = " " => (InWord(s, i) <=> Quoted(s, i))
           /\ s[i] \in {"'", "(", ")"} => (InWord(s, i) <=> Quoted(s, i))
           /\ s[i] \notin {"\n", "\r", " ", "#", "'", "(", ")"} => InWord(s, i)
<1>1. s[i] = "\n" => ~ InWord(s, i)
  BY Zenon DEF InWord, Ends
<1>2. s[i] = "\r" => ~ InWord(s, i)
  BY Zenon DEF InWord, Ends
<1>3. s[i] = "#" => ~ InWord(s, i)
  BY Zenon DEF InWord, Single
<1>4. s[i] = " " => (InWord(s, i) <=> Quoted(s, i))
  <2>1. s[i] = " " => (~ Ends(s, i) <=> Quoted(s, i))
    BY Zenon DEF Ends
  <2>2. s[i] = " " => ~ Single(s, i)
    BY Zenon DEF Single
  <2> QED  BY <2>1, <2>2, Zenon DEF InWord
<1>5. s[i] \in {"'", "(", ")"} => (InWord(s, i) <=> Quoted(s, i))
  <2>1. s[i] \in {"'", "(", ")"} => ~ Ends(s, i)
    BY Zenon DEF Ends
  <2>2. s[i] \in {"'", "(", ")"} => (~ Single(s, i) <=> Quoted(s, i))
    BY Zenon DEF Single
  <2> QED  BY <2>1, <2>2, Zenon DEF InWord
<1>6. s[i] \notin {"\n", "\r", " ", "#", "'", "(", ")"} => InWord(s, i)
  BY Zenon DEF InWord, Ends, Single
<1> QED  BY <1>1, <1>2, <1>3, <1>4, <1>5, <1>6, Zenon

\* The tokens of one character, and where they begin.
LEMMA LoneTokens ==
    ASSUME NEW s, NEW i \in DOMAIN s, ~ InWord(s, i)
    PROVE  /\ s[i] \in {"\r", " "} => i \notin Starts(s)
           /\ s[i] \in {"\n", "#", "'", "(", ")"} => i \in Starts(s)
           /\ s[i] # "#" => TokenAt(s, i) = <<s[i]>>
           /\ s[i] = "#" => TokenAt(s, i) = IF i < Len(s) /\ s[i + 1] = "t" THEN <<"#", "t">> ELSE <<s[i]>>
<1>1. s[i] \in {"\r", " "} => i \notin Starts(s)
  BY Zenon DEF Starts, Single
<1>2. s[i] \in {"\n", "#"} => i \in Starts(s)
  BY Zenon DEF Starts, Single
<1>3. s[i] \in {"'", "(", ")"} => i \in Starts(s)
  <2>1. s[i] \in {"'", "(", ")"} => Single(s, i)
    BY InWords, Zenon DEF Single
  <2> QED  BY <2>1, Zenon DEF Starts
<1>4. s[i] # "#" => TokenAt(s, i) = <<s[i]>>
  BY DEF TokenAt
<1>5. s[i] = "#" => TokenAt(s, i) = IF i < Len(s) /\ s[i + 1] = "t" THEN <<"#", "t">> ELSE <<s[i]>>
  BY DEF TokenAt
<1> QED  BY <1>1, <1>2, <1>3, <1>4, <1>5, Zenon

\* A character that is built, or that is emitted.
LEMMA Built ==
    ASSUME NEW l \in Lexers, NEW c \in STRING, NEW t \in Seq(STRING)
    PROVE  /\ Build(l, c) \in Lexers
           /\ Build(l, c).tokens = l.tokens
           /\ Build(l, c).builder = Append(l.builder, c)
           /\ Build(l, c).is_str = l.is_str
           /\ Emit(l, t) \in Lexers
           /\ Emit(l, t).tokens = Append(l.tokens, t)
           /\ Emit(l, t).builder = l.builder
           /\ Emit(l, t).is_str = l.is_str
<1>1. l.tokens \in Seq(Seq(STRING)) /\ l.builder \in Seq(STRING)
  BY DEF Lexers
<1>2. Append(l.tokens, t) \in Seq(Seq(STRING)) /\ Append(l.builder, c) \in Seq(STRING)
  BY <1>1, AppendProperties
<1> DEFINE a == Append(l.builder, c)
           b == Append(l.tokens, t)
<1>3. Build(l, c) = [l EXCEPT !.builder = a] /\ Emit(l, t) = [l EXCEPT !.tokens = b]
  BY DEF Build, Emit
<1> HIDE DEF a, b
<1>4. a \in Seq(STRING) /\ b \in Seq(Seq(STRING))
  BY <1>2 DEF a, b
<1>5. /\ Build(l, c) \in Lexers /\ Build(l, c).tokens = l.tokens
      /\ Build(l, c).builder = a /\ Build(l, c).is_str = l.is_str
  BY <1>1, <1>3, <1>4 DEF Lexers
<1>6. /\ Emit(l, t) \in Lexers /\ Emit(l, t).tokens = b
      /\ Emit(l, t).builder = l.builder /\ Emit(l, t).is_str = l.is_str
  BY <1>1, <1>3, <1>4 DEF Lexers
<1> QED  BY <1>5, <1>6 DEF a, b

\* A character that is a token: it is built and pushed.
LEMMA AloneIs ==
    ASSUME NEW m \in Lexers, m.builder = <<>>, NEW c \in STRING, NEW n, n = lison_smart_push(Build(m, c))
    PROVE  /\ n \in Lexers
           /\ n.builder = <<>> /\ n.is_str = m.is_str
           /\ n.tokens = Append(m.tokens, <<c>>) /\ <<c>> \in Seq(STRING)
<1>1. m.tokens \in Seq(Seq(STRING)) /\ <<c>> \in Seq(STRING) /\ <<c>> # <<>>
  BY DEF Lexers
<1>2. /\ Build(m, c) \in Lexers /\ Build(m, c).builder = <<c>>
      /\ Build(m, c).tokens = m.tokens /\ Build(m, c).is_str = m.is_str
  <2>1. Append(<<>>, c) = <<c>>
    OBVIOUS
  <2>2. <<>> \in Seq(STRING) /\ Append(m.builder, c) = <<c>>
    BY <2>1
  <2>3. /\ Build(m, c) \in Lexers /\ Build(m, c).tokens = m.tokens
        /\ Build(m, c).builder = Append(m.builder, c) /\ Build(m, c).is_str = m.is_str
    BY <2>2, Built
  <2> QED  BY <2>2, <2>3
<1>3. Append(m.tokens, <<c>>) \in Seq(Seq(STRING)) /\ <<>> \in Seq(STRING)
  BY <1>1, AppendProperties, EmptySeq
<1> DEFINE b == Build(m, c)
<1>4. n = [b EXCEPT !.tokens = Append(@, b.builder), !.builder = <<>>]
  BY <1>1, <1>2 DEF lison_smart_push
<1> HIDE DEF b
<1>5. b \in Lexers /\ b.builder = <<c>> /\ b.tokens = m.tokens /\ b.is_str = m.is_str
  BY <1>2 DEF b
<1> QED  BY <1>1, <1>3, <1>4, <1>5 DEF Lexers

\* The next character is lexed as the text says.
LEMMA LexStep ==
    ASSUME text \in Seq(STRING), at \in Nat, at < Len(text), Lexing(text, at, lexer)
    PROVE  Lexing(text, at + 1, LexChar(text[at + 1], lexer))
<1> DEFINE c == text[at + 1]
           i == at + 1
           l == lexer
           m == lison_smart_push(l)
           n == LexChar(c, l)
<1>0. /\ at \in 0 .. Len(text) /\ i \in DOMAIN text /\ l \in Lexers /\ c \in STRING /\ i \in Nat
      /\ i + 1 = at + 2 /\ l.tokens \in Seq(Seq(STRING)) /\ l.builder \in Seq(STRING) /\ l.is_str \in BOOLEAN
  BY DEF Lexing, Lexers
<1>1. l.is_str <=> Quoted(text, i)
  BY Zenon DEF Lexing
<1>2. Quoted(text, at + 2) <=> IF c = "\"" THEN ~ Quoted(text, i) ELSE Quoted(text, i)
  BY QuotedNext, Zenon
<1>3. ~ InWord(text, i) => /\ m \in Lexers /\ m.builder = <<>> /\ m.is_str = l.is_str
                           /\ Lexed(m.tokens, text, Upto(text, at))
  BY <1>0, LexPush
<1>4. ASSUME InWord(text, i), c # "\"", n = Build(l, c)
      PROVE  Lexing(text, at + 1, n)
  <2>1. Quoted(text, at + 2) <=> Quoted(text, i)
    BY <1>2, <1>4, Zenon
  <2>2. InWord(text, i) /\ n = Build(l, c)
    BY <1>4, Zenon
  <2> HIDE DEF c, n
  <2>3. n.tokens = l.tokens /\ n.builder = Append(l.builder, c) /\ n.is_str = l.is_str /\ n \in Lexers
    BY <1>0, <2>2, Built
  <2>4. n.is_str <=> Quoted(text, at + 2)
    BY <1>1, <2>1, <2>3, Zenon
  <2> QED  BY <1>0, <2>2, <2>3, <2>4, LexBuild DEF c
<1>5. ASSUME c = "\""
      PROVE  Lexing(text, at + 1, n)
  <2>1. InWord(text, i)
    BY <1>0, <1>5, InWords, Zenon
  <2>2. Quoted(text, at + 2) <=> ~ Quoted(text, i)
    BY <1>2, <1>5, Zenon
  <2>3. n = [Build(l, c) EXCEPT !.is_str = ~ @]
    BY <1>5, Zenon DEF LexChar
  <2> HIDE DEF c, n
  <2>4. n.tokens = l.tokens /\ n.builder = Append(l.builder, c) /\ n.is_str = ~ l.is_str /\ n \in Lexers
    <3> DEFINE b == Build(l, c)
    <3>1. b \in Lexers /\ b.tokens = l.tokens /\ b.builder = Append(l.builder, c) /\ b.is_str = l.is_str
      BY <1>0, Built
    <3>2. n = [b EXCEPT !.is_str = ~ @]
      BY <2>3
    <3> HIDE DEF b
    <3> QED  BY <1>0, <3>1, <3>2 DEF Lexers
  <2>5. n.is_str <=> Quoted(text, at + 2)
    BY <1>1, <2>2, <2>4, Zenon
  <2> QED  BY <1>0, <2>1, <2>4, <2>5, LexBuild DEF c
<1>6. ASSUME ~ InWord(text, i), c # "\"", i \notin Starts(text), n = m
      PROVE  Lexing(text, at + 1, n)
  <2>1. n.is_str <=> Quoted(text, at + 2)
    BY <1>1, <1>2, <1>3, <1>6, Zenon
  <2>2. ~ InWord(text, i) /\ i \notin Starts(text) /\ n = m
    BY <1>6, Zenon
  <2> HIDE DEF c, n, m
  <2> QED  BY <1>0, <1>3, <2>1, <2>2, LexCut
<1>7. ASSUME ~ InWord(text, i), c # "\"", i \in Starts(text), NEW t \in Seq(STRING), t = TokenAt(text, i),
             n \in Lexers, n.tokens = Append(m.tokens, t), n.builder = <<>>, n.is_str = m.is_str
      PROVE  Lexing(text, at + 1, n)
  <2>1. n.is_str <=> Quoted(text, at + 2)
    BY <1>1, <1>2, <1>3, <1>7, Zenon
  <2>2. /\ ~ InWord(text, i) /\ i \in Starts(text) /\ t \in Seq(STRING) /\ t = TokenAt(text, i)
        /\ n \in Lexers /\ n.tokens = Append(m.tokens, t) /\ n.builder = <<>> /\ n.is_str = m.is_str
    BY <1>7, Zenon
  <2> HIDE DEF c, n, m
  <2> QED  BY <1>0, <1>3, <2>1, <2>2, LexCut
<1>8. ASSUME c \in {"'", "(", ")", "#"}, ~ InWord(text, i), n = Alone(l, c), TokenAt(text, i) = <<c>>
      PROVE  Lexing(text, at + 1, n)
  <2>1. i \in Starts(text)
    BY <1>0, <1>8, LoneTokens, Zenon
  <2>2. c # "\""
    BY <1>8, Zenon
  <2>3. n = lison_smart_push(Build(m, c))
    BY <1>8, Zenon DEF Alone
  <2> HIDE DEF n, m, c
  <2>4. n \in Lexers /\ n.builder = <<>> /\ n.is_str = m.is_str /\ n.tokens = Append(m.tokens, <<c>>) /\ <<c>> \in Seq(STRING)
    BY <1>0, <1>3, <1>8, <2>3, AloneIs
  <2> QED  BY <1>7, <1>8, <2>1, <2>2, <2>4, Zenon DEF c, n, m
<1>9. CASE c = "\n"
  <2>1. n = Emit(m, Newline) /\ c # "\""
    BY <1>9, Zenon DEF LexChar
  <2>2. ~ InWord(text, i) /\ i \in Starts(text) /\ TokenAt(text, i) = <<c>>
    BY <1>0, <1>9, InWords, LoneTokens, Zenon
  <2>3. <<c>> = Newline
    BY <1>9, Zenon DEF Newline
  <2> HIDE DEF n, m, c
  <2>4. m \in Lexers /\ m.builder = <<>> /\ <<c>> \in Seq(STRING)
    BY <1>0, <1>3, <2>2
  <2>5. n \in Lexers /\ n.builder = <<>> /\ n.is_str = m.is_str /\ n.tokens = Append(m.tokens, <<c>>)
    <3>1. n = Emit(m, <<c>>)
      BY <2>1, <2>3, Zenon
    <3>2. c \in STRING
      BY <1>0
    <3> QED  BY <2>4, <3>1, <3>2, Built
  <2> QED  BY <1>7, <2>1, <2>2, <2>4, <2>5, Zenon DEF c, n, m
<1>10. CASE c = "\r"
  <2>1. n = m /\ c # "\""
    BY <1>10, Zenon DEF LexChar
  <2>2. ~ InWord(text, i) /\ i \notin Starts(text)
    BY <1>0, <1>10, InWords, LoneTokens, Zenon
  <2> QED  BY <1>6, <2>1, <2>2, Zenon
<1>11. CASE c = " "
  <2>1. n = LexBlank(l) /\ c # "\""
    BY <1>11, Zenon DEF LexChar
  <2>2. CASE InWord(text, i)
    <3>1. n = Build(l, c)
      BY <1>0, <1>1, <1>11, <2>1, <2>2, InWords, Zenon DEF LexBlank
    <3> QED  BY <1>4, <2>1, <2>2, <3>1, Zenon
  <2>3. CASE ~ InWord(text, i)
    <3>1. n = m
      BY <1>0, <1>1, <1>11, <2>1, <2>3, InWords, Zenon DEF LexBlank
    <3>2. i \notin Starts(text)
      BY <1>0, <1>11, <2>3, LoneTokens, Zenon
    <3> QED  BY <1>6, <2>1, <2>3, <3>1, <3>2, Zenon
  <2> QED  BY <2>2, <2>3, Zenon
<1>12. CASE c = "#"
  <2>1. ~ InWord(text, i) /\ i \in Starts(text) /\ c # "\""
    BY <1>0, <1>12, InWords, LoneTokens, Zenon
  <2>2. TokenAt(text, i) = IF i < Len(text) /\ text[i + 1] = "t" THEN <<"#", "t">> ELSE <<c>>
    BY <1>0, <1>12, <2>1, LoneTokens, Zenon
  <2>3. n = IF at + 1 < Len(text) /\ text[at + 2] = "t" THEN Emit(m, <<"#", "t">>) ELSE Alone(l, c)
    BY <1>12, Zenon DEF LexChar
  <2>4. CASE i < Len(text) /\ text[i + 1] = "t"
    <3> DEFINE t == <<"#", "t">>
    <3>1. n = Emit(m, t) /\ t = TokenAt(text, i)
      BY <1>0, <2>2, <2>3, <2>4, Zenon
    <3>2. t \in Seq(STRING)
      <4>1. t = <<c, text[i + 1]>> /\ text[i + 1] \in STRING
        BY <1>0, <1>12, <2>4
      <4>2. <<c, text[i + 1]>> \in Seq(STRING)
        BY <1>0, <4>1
      <4> QED  BY <4>1, <4>2
    <3> HIDE DEF n, m, c, t
    <3>3. m \in Lexers /\ m.builder = <<>>
      BY <1>3, <2>1, Zenon
    <3>4. n \in Lexers /\ n.builder = <<>> /\ n.is_str = m.is_str /\ n.tokens = Append(m.tokens, t)
      <4>1. n = Emit(m, t)
        BY <3>1
      <4>2. c \in STRING
        BY <1>0
      <4> QED  BY <3>2, <3>3, <4>1, <4>2, Built
    <3> QED  BY <1>7, <2>1, <3>1, <3>2, <3>4, Zenon DEF c, n, m
  <2>5. CASE ~ (i < Len(text) /\ text[i + 1] = "t")
    <3>1. n = Alone(l, c) /\ TokenAt(text, i) = <<c>>
      BY <1>0, <2>2, <2>3, <2>5, Zenon
    <3> QED  BY <1>8, <1>12, <2>1, <3>1, Zenon
  <2> QED  BY <2>4, <2>5, Zenon
<1>13. CASE c \in {"'", "(", ")"}
  <2>1. n = LexMark(l, c) /\ c # "\"" /\ c # "#"
    BY <1>13, Zenon DEF LexChar
  <2>2. CASE InWord(text, i)
    <3>1. n = Build(l, c)
      BY <1>0, <1>1, <1>13, <2>1, <2>2, InWords, Zenon DEF LexMark
    <3> QED  BY <1>4, <2>1, <2>2, <3>1, Zenon
  <2>3. CASE ~ InWord(text, i)
    <3>1. n = Alone(l, c)
      BY <1>0, <1>1, <1>13, <2>1, <2>3, InWords, Zenon DEF LexMark
    <3>2. TokenAt(text, i) = <<c>>
      BY <1>0, <2>1, <2>3, LoneTokens, Zenon
    <3>3. c \in {"'", "(", ")", "#"}
      BY <1>13
    <3> QED  BY <1>8, <2>3, <3>1, <3>2, <3>3, Zenon
  <2> QED  BY <2>2, <2>3, Zenon
<1>14. CASE c \notin {"\n", "\r", " ", "#", "'", "(", ")", "\""}
  <2>1. n = Build(l, c) /\ c # "\"" /\ InWord(text, i)
    BY <1>0, <1>14, InWords, Zenon DEF LexChar
  <2> QED  BY <1>4, <2>1, Zenon
<1> QED  BY <1>5, <1>9, <1>10, <1>11, <1>12, <1>13, <1>14, Zenon

\* What the token is that begins at a position.
LEMMA TokenIs ==
    ASSUME NEW s \in Seq(STRING), NEW i \in Starts(s)
    PROVE  \/ ~ InWord(s, i) /\ TokenAt(s, i) = <<s[i]>>
           \/ ~ InWord(s, i) /\ s[i] = "#" /\ TokenAt(s, i) = <<"#", "t">>
           \/ \E j \in i .. Len(s) : /\ \A k \in i .. j : InWord(s, k)
                                     /\ ~ InWord(s, j + 1) /\ ~ InWord(s, i - 1)
                                     /\ TokenAt(s, i) = SubSeq(s, i, j)
<1>1. i \in DOMAIN s /\ i \in Nat /\ DOMAIN s = 1 .. Len(s) /\ Len(s) \in Nat
  BY DEF Starts
<1>2. CASE ~ InWord(s, i)
  BY <1>1, <1>2, LoneTokens, Zenon
<1>3. CASE InWord(s, i)
  <2> DEFINE T == {j \in i .. Len(s) : ~ InWord(s, j + 1)}
  <2>1. Len(s) \in T
    <3>1. Len(s) + 1 \notin DOMAIN s
      BY <1>1
    <3>2. ~ InWord(s, Len(s) + 1)
      BY <3>1, Zenon DEF InWord
    <3> QED  BY <1>1, <3>2
  <2>2. T \subseteq Nat /\ T # {}
    BY <1>1, <2>1
  <2> HIDE DEF T
  <2>3. PICK j \in T : \A k \in T : j <= k
    BY <2>2, LeastNumber
  <2>4. j \in i .. Len(s) /\ ~ InWord(s, j + 1) /\ \A k \in i .. Len(s) : ~ InWord(s, k + 1) => j <= k
    BY <2>3 DEF T
  <2>5. ASSUME NEW k \in i .. j
        PROVE  InWord(s, k)
    <3>1. CASE k = i
      BY <1>3, <3>1
    <3>2. CASE k # i
      <4>1. k - 1 \in i .. Len(s) /\ (k - 1) + 1 = k /\ ~ (j <= k - 1)
        BY <1>1, <2>4, <3>2
      <4> QED  BY <2>4, <4>1
    <3> QED  BY <3>1, <3>2
  <2>6. ~ InWord(s, i - 1)
    <3>1. s[i] # "\n" /\ ~ Single(s, i)
      BY <1>1, <1>3, InWords, Zenon DEF InWord
    <3> QED  BY <3>1, Zenon DEF Starts
  <2>7. Word(s, i, j) /\ j \in 1 .. Len(s) /\ i \in 1 .. j
    BY <1>1, <2>4, <2>5, <2>6 DEF Word
  <2>8. TokenAt(s, i) = SubSeq(s, i, j)
    BY <2>4, <2>7, WordToken
  <2> QED  BY <2>4, <2>5, <2>6, <2>8
<1> QED  BY <1>2, <1>3

\* The token that says that a line ends begins where one does.
LEMMA NewlineAt ==
    ASSUME NEW s \in Seq(STRING), NEW i \in Starts(s)
    PROVE  TokenAt(s, i) = Newline <=> s[i] = "\n"
<1>1. i \in DOMAIN s /\ i \in Nat /\ DOMAIN s = 1 .. Len(s) /\ Len(s) \in Nat
  BY DEF Starts
<1>2. CASE ~ InWord(s, i) /\ TokenAt(s, i) = <<s[i]>>
  BY <1>2 DEF Newline
<1>3. CASE ~ InWord(s, i) /\ s[i] = "#" /\ TokenAt(s, i) = <<"#", "t">>
  BY <1>3 DEF Newline
<1>4. CASE ~ (~ InWord(s, i) /\ TokenAt(s, i) = <<s[i]>>)
           /\ ~ (~ InWord(s, i) /\ s[i] = "#" /\ TokenAt(s, i) = <<"#", "t">>)
  <2>1. PICK j \in i .. Len(s) : /\ \A k \in i .. j : InWord(s, k)
                                 /\ TokenAt(s, i) = SubSeq(s, i, j)
    BY <1>4, TokenIs, Zenon
  <2>2. InWord(s, i)
    BY <1>1, <2>1
  <2>3. s[i] # "\n"
    BY <1>1, <2>2, InWords, Zenon
  <2>4. SubSeq(s, i, j)[1] = s[i]
    <3>1. \A k \in i .. j : s[k] \in STRING
      BY <1>1
    <3>2. \A k \in 1 .. j - i + 1 : SubSeq(s, i, j)[k] = s[i + k - 1]
      BY <1>1, <3>1, SubSeqProperties
    <3>3. 1 \in 1 .. j - i + 1 /\ i + 1 - 1 = i
      BY <1>1
    <3> QED  BY <3>2, <3>3
  <2>5. Newline[1] = "\n"
    BY DEF Newline
  <2> QED  BY <2>1, <2>3, <2>4, <2>5
<1> QED  BY <1>2, <1>3, <1>4

\* The rank of a position is a number up to that of all.
LEMMA RankIs ==
    ASSUME NEW n \in Nat, NEW S, S \subseteq 1 .. n, NEW i \in S
    PROVE  Rank(S, i) \in 1 .. Cardinality(S)
<1> DEFINE T == {j \in S : j <= i}
<1>1. IsFiniteSet(S) /\ Cardinality(S) \in Nat
  BY FiniteBelow
<1>2. T \in SUBSET S /\ i \in T
  OBVIOUS
<1> HIDE DEF T
<1>3. IsFiniteSet(T) /\ Cardinality(T) <= Cardinality(S) /\ Cardinality(T) \in Nat
  BY <1>1, <1>2, FS_Subset, FS_CardinalityType
<1>4. Cardinality(T) # 0
  BY <1>2, <1>3, FS_EmptySet
<1> QED  BY <1>1, <1>3, <1>4 DEF Rank, T

\* There are as many tokens for ends of lines as there are ends of lines.
LEMMA LinesAgree ==
    ASSUME NEW s \in Seq(STRING), NEW T, NEW ts \in Seq(T), Lexed(ts, s, Starts(s))
    PROVE  Count(ts, Newline, 1, Len(ts)) = Count(s, "\n", 1, Len(s))
<1> DEFINE S == Starts(s)
           A == {k \in 1 .. Len(ts) : ts[k] = Newline}
           B == {i \in 1 .. Len(s) : s[i] = "\n"}
           At(k) == CHOOSE i \in S : Rank(S, i) = k
           f == [k \in A |-> At(k)]
<1>1. S \subseteq 1 .. Len(s) /\ Len(s) \in Nat /\ B \subseteq S
  BY DEF Starts
<1>2. IsFiniteSet(S) /\ S \subseteq Nat
  <2>1. S \subseteq Nat
    BY <1>1
  <2> HIDE DEF S
  <2> QED  BY <1>1, <2>1, FiniteBelow
<1>3. Len(ts) = Cardinality(S) /\ \A k \in 1 .. Len(ts) : \E j \in S : Rank(S, j) = k /\ ts[k] = TokenAt(s, j)
  BY DEF Lexed
<1>4. \A i \in S : TokenAt(s, i) = Newline <=> s[i] = "\n"
  BY NewlineAt
<1>5. IsFiniteSet(A)
  BY FiniteBelow, LenProperties
<1> HIDE DEF S
<1>6. ASSUME NEW k \in 1 .. Len(ts)
      PROVE  At(k) \in S /\ Rank(S, At(k)) = k /\ ts[k] = TokenAt(s, At(k))
  <2>1. PICK j \in S : Rank(S, j) = k /\ ts[k] = TokenAt(s, j)
    BY <1>3
  <2>2. At(k) \in S /\ Rank(S, At(k)) = k
    BY <2>1
  <2>3. At(k) = j
    BY <1>2, <2>1, <2>2, RankUnique
  <2> QED  BY <2>1, <2>2, <2>3
<1> HIDE DEF At
<1>7. \A k \in A : At(k) \in B
  <2>1. \A i \in S : s[i] = "\n" => i \in B
    BY <1>1
  <2> HIDE DEF B
  <2> QED  BY <1>4, <1>6, <2>1
<1>8. \A k, m \in A : At(k) = At(m) => k = m
  BY <1>6
<1>9. ASSUME NEW i \in B
      PROVE  \E k \in A : At(k) = i
  <2>1. i \in S /\ s[i] = "\n"
    BY <1>1
  <2> DEFINE k == Rank(S, i)
  <2>2. k \in 1 .. Len(ts)
    BY <1>1, <1>3, <2>1, RankIs
  <2> HIDE DEF k
  <2>3. At(k) \in S /\ Rank(S, At(k)) = k /\ ts[k] = TokenAt(s, At(k))
    BY <1>6, <2>2
  <2>4. At(k) = i
    BY <1>2, <2>1, <2>3, RankUnique DEF k
  <2>5. k \in A
    BY <1>4, <2>1, <2>2, <2>3, <2>4
  <2> QED  BY <2>4, <2>5
<1>10. f \in Bijection(A, B)
  <2> HIDE DEF A, B
  <2>1. f \in [A -> B] /\ \A k \in A : f[k] = At(k)
    BY <1>7
  <2> HIDE DEF f
  <2> QED  BY <1>8, <1>9, <2>1 DEF Bijection, Injection, Surjection, IsInjective
<1>11. Cardinality(A) = Cardinality(B)
  <2> HIDE DEF A, B, f
  <2> QED  BY <1>5, <1>10, FS_Bijection DEF ExistsBijection
<1> QED  BY <1>11 DEF Count

-----------------------------------------------------------------------------
\* While the text is lexed, the lexer has its first tokens; then the parser
\* has all of them.
LexInv ==
    /\ text \in Texts
    /\ at \in 0 .. Len(text)
    /\ pc \in {"lex", "quote", "root", "done", "fault"}
    /\ pc = "lex" => Lexing(text, at, lexer)
    /\ pc # "lex" => tokens \in Seq(Seq(STRING)) /\ Lexed(tokens, text, Starts(text))

LEMMA LexInit == Init => LexInv
<1> SUFFICES ASSUME Init  PROVE LexInv
  OBVIOUS
<1>1. text \in Seq(STRING) /\ Len(text) \in Nat /\ text \in Texts
  BY LisonAssumption DEF Init
<1>2. lexer = NoToken /\ pc = "lex" /\ at = 0
  BY DEF Init
<1>3. lexer \in Lexers /\ lexer.tokens = <<>> /\ lexer.builder = <<>> /\ lexer.is_str = FALSE
  <2>1. <<>> \in Seq(STRING) /\ <<>> \in Seq(Seq(STRING))
    BY EmptySeq
  <2> QED  BY <1>2, <2>1 DEF NoToken, Lexers
<1>4. ~ InWord(text, 0)
  <2>1. 0 \notin DOMAIN text
    BY <1>1
  <2> QED  BY <2>1, Zenon DEF InWord
<1>5. ~ Quoted(text, 1)
  <2>1. \A e : ~ OddBefore(text, e, 1)
    <3> SUFFICES ASSUME NEW e  PROVE ~ OddBefore(text, e, 1)
      OBVIOUS
    <3>1. Count(text, e, 1, 0) = 0 /\ 1 - 1 = 0
      BY CountNext
    <3> QED  BY <3>1 DEF OddBefore
  <2> QED  BY <2>1, Zenon DEF Quoted, OddBefore
<1>6. Lexed(<<>>, text, Upto(text, 0))
  <2>1. Upto(text, 0) = {}
    BY DEF Upto
  <2> QED  BY <2>1, FS_EmptySet DEF Lexed
<1>7. Lexing(text, 0, lexer)
  <2>1. 0 + 1 = 1
    OBVIOUS
  <2>2. lexer.is_str <=> Quoted(text, 0 + 1)
    BY <1>3, <1>5, <2>1
  <2> QED  BY <1>3, <1>4, <1>6, <2>2 DEF Lexing
<1> QED  BY <1>1, <1>2, <1>7 DEF LexInv

LEMMA LexNext == LexInv /\ [Next]_lisonVars => LexInv'
<1> SUFFICES ASSUME LexInv, [Next]_lisonVars  PROVE LexInv'
  OBVIOUS
<1>1. /\ text \in Seq(STRING) /\ Len(text) \in Nat /\ text \in Texts /\ at \in 0 .. Len(text)
      /\ pc \in {"lex", "quote", "root", "done", "fault"}
  BY LisonAssumption DEF LexInv
<1>2. CASE Lex
  <2>1. /\ pc = "lex" /\ at < Len(text) /\ at' = at + 1 /\ text' = text /\ pc' = pc
        /\ lexer' = LexChar(text[at + 1], lexer)
    BY <1>2, Zenon DEF Lex
  <2>2. Lexing(text, at, lexer) /\ at \in Nat
    BY <1>1, <2>1 DEF LexInv
  <2>3. Lexing(text, at + 1, LexChar(text[at + 1], lexer))
    BY <1>1, <2>1, <2>2, LexStep
  <2>4. Lexing(text', at', lexer')
    BY <2>1, <2>3, Zenon
  <2> QED  BY <1>1, <2>1, <2>4 DEF LexInv
<1>3. CASE LexEnd
  <2>1. /\ pc = "lex" /\ at = Len(text) /\ text' = text /\ at' = at /\ pc' = "quote"
        /\ tokens' = lison_smart_push(lexer).tokens
    BY <1>3 DEF LexEnd
  <2>2. Lexing(text, Len(text), lexer) /\ Len(text) \in 0 .. Len(text)
    BY <1>1, <2>1 DEF LexInv
  <2>3. ~ InWord(text, Len(text) + 1)
    <3>1. Len(text) + 1 \notin DOMAIN text
      BY <1>1
    <3> QED  BY <3>1, Zenon DEF InWord
  <2>4. Upto(text, Len(text)) = Starts(text)
    BY <1>1 DEF Upto, Starts
  <2> DEFINE m == lison_smart_push(lexer)
  <2>5. m \in Lexers /\ Lexed(m.tokens, text, Upto(text, Len(text)))
    BY <1>1, <2>2, <2>3, LexPush
  <2> HIDE DEF m
  <2>6. tokens' \in Seq(Seq(STRING)) /\ Lexed(tokens', text', Starts(text'))
    BY <2>1, <2>4, <2>5 DEF Lexers, m
  <2> QED  BY <1>1, <2>1, <2>6 DEF LexInv
<1>4. CASE Read
  <2>1. UNCHANGED <<text, at, lexer, pc, tokens>>
    BY <1>4, Zenon DEF Read
  <2> QED  BY <2>1 DEF LexInv
<1>5. CASE Fault \/ FirstForm \/ SecondForm
  <2>1. UNCHANGED <<text, at, tokens>>
    BY <1>5, Zenon DEF Fault, FirstForm, SecondForm
  <2>2. pc \in {"quote", "root"}
    BY <1>5, Zenon DEF Fault, FirstForm, SecondForm
  <2>3. pc' \in {"root", "done", "fault"}
    <3>1. FirstForm => pc' \in {"root", "done", "fault"}
      BY Zenon DEF FirstForm
    <3> QED  BY <1>5, <3>1, Zenon DEF Fault, SecondForm
  <2> QED  BY <2>1, <2>2, <2>3 DEF LexInv
<1>6. CASE Comment \/ Returned \/ UNCHANGED lisonVars
  <2>1. UNCHANGED lisonVars
    BY <1>6, Zenon DEF Comment, Returned
  <2> QED  BY <2>1 DEF LexInv, lisonVars
<1> QED  BY <1>2, <1>3, <1>4, <1>5, <1>6, Zenon DEF Next

\* The tokens of any text are those that the book describes: the words, the
\* parentheses outside of strings and the ends of lines (lexer.c:35-129).
THEOREM LisonLexesByTheBook == Spec => []LexesByTheBook
<1>1. LexInv => LexesByTheBook
  <2> SUFFICES ASSUME LexInv, pc = "quote"  PROVE tokens = TokensOf(text)
    BY Zenon DEF LexesByTheBook
  <2>1. text \in Seq(STRING) /\ tokens \in Seq(Seq(STRING)) /\ Lexed(tokens, text, Starts(text))
    BY LisonAssumption DEF LexInv
  <2> QED  BY <2>1, LexedAll
<1> QED  BY <1>1, LexInit, LexNext, PTL DEF Spec

-----------------------------------------------------------------------------
(* Sums.  The running sums of a sequence are a function of their own. *)

Sums(g, n, w) ==
    /\ g \in [0 .. n -> Int]
    /\ g[0] = 0
    /\ \A k \in 1 .. n : g[k] = g[k - 1] + w[k]

LEMMA SumsExist ==
    ASSUME NEW N \in Nat, NEW w \in [1 .. N -> Int]
    PROVE  \E g : Sums(g, N, w)
<1> DEFINE T == {n \in 0 .. N : ~ \E g : Sums(g, n, w)}
<1>1. SUFFICES T = {}
  <2>1. N \in 0 .. N
    OBVIOUS
  <2> QED  BY <2>1
<1>2. SUFFICES ASSUME T # {}  PROVE FALSE
  OBVIOUS
<1>3. PICK n \in T : \A j \in T : n <= j
  <2>1. T \subseteq Nat
    OBVIOUS
  <2> HIDE DEF T
  <2> QED  BY <1>2, <2>1, LeastNumber
<1>4. n \in 0 .. N /\ ~ \E g : Sums(g, n, w)
  BY <1>3
<1>5. n # 0
  <2> DEFINE z == [k \in 0 .. 0 |-> 0]
  <2>1. Sums(z, 0, w)
    BY DEF Sums
  <2> QED  BY <1>4, <2>1
<1>6. PICK g : Sums(g, n - 1, w)
  <2>1. n - 1 \in 0 .. N /\ ~ (n <= n - 1)
    BY <1>4, <1>5
  <2>2. n - 1 \notin T
    BY <1>3, <2>1
  <2> QED  BY <2>1, <2>2
<1> DEFINE h == [k \in 0 .. n |-> IF k = n THEN g[n - 1] + w[n] ELSE g[k]]
<1>7. Sums(h, n, w)
  <2>1. /\ g \in [0 .. n - 1 -> Int] /\ g[0] = 0
        /\ \A k \in 1 .. n - 1 : g[k] = g[k - 1] + w[k]
    BY <1>6 DEF Sums
  <2>2. n - 1 \in 0 .. n - 1 /\ n \in 1 .. N /\ 0 \in 0 .. n
    BY <1>4, <1>5
  <2>3. \A k \in 0 .. n : k = n \/ k \in 0 .. n - 1
    BY <1>4
  <2>4. h \in [0 .. n -> Int]
    BY <2>1, <2>2, <2>3
  <2>5. h[0] = 0
    BY <1>5, <2>1, <2>2
  <2>6. ASSUME NEW k \in 1 .. n
        PROVE  h[k] = h[k - 1] + w[k]
    <3>1. k \in 0 .. n /\ k - 1 \in 0 .. n /\ k - 1 # n
      BY <1>4
    <3>2. CASE k = n
      BY <3>1, <3>2
    <3>3. CASE k # n
      <4>1. k \in 1 .. n - 1
        BY <1>4, <3>3
      <4> QED  BY <2>1, <3>1, <3>3, <4>1
    <3> QED  BY <3>2, <3>3
  <2> HIDE DEF h
  <2> QED  BY <2>4, <2>5, <2>6 DEF Sums
<1> QED  BY <1>4, <1>7

\* The same list has the same sums.
LEMMA SumsSame ==
    ASSUME NEW n \in Nat, NEW w, NEW g, NEW h, Sums(g, n, w), Sums(h, n, w)
    PROVE  g[n] = h[n]
<1> DEFINE T == {k \in 0 .. n : g[k] # h[k]}
<1>1. SUFFICES T = {}
  OBVIOUS
<1>2. SUFFICES ASSUME T # {}  PROVE FALSE
  OBVIOUS
<1>3. PICK k \in T : \A j \in T : k <= j
  <2>1. T \subseteq Nat
    OBVIOUS
  <2> HIDE DEF T
  <2> QED  BY <1>2, <2>1, LeastNumber
<1>4. k \in 1 .. n
  BY <1>3 DEF Sums
<1>5. g[k - 1] = h[k - 1]
  <2>1. k - 1 \in 0 .. n /\ ~ (k <= k - 1)
    BY <1>4
  <2> QED  BY <1>3, <2>1
<1>6. g[k] = h[k]
  BY <1>4, <1>5 DEF Sums
<1> QED  BY <1>3, <1>6

\* Total computes the last of the running sums.
LEMMA TotalIs ==
    ASSUME NEW w \in Seq(Int)
    PROVE  \E g : Sums(g, Len(w), w) /\ Total(w) = g[Len(w)]
<1> DEFINE N == Len(w)
           F(f) == [k \in 0 .. N |-> IF k = 0 THEN 0 ELSE f[k - 1] + w[k]]
           t == CHOOSE f : f = F(f)
<1>1. Total(w) = t[N]
  BY DEF Total
<1>2. N \in Nat /\ w \in [1 .. N -> Int]
  BY LenProperties
<1> HIDE DEF N
<1>4. PICK g : Sums(g, N, w)
  BY <1>2, SumsExist
<1>5. g = F(g)
  BY <1>4 DEF Sums
<1>6. t = F(t)
  BY <1>5
<1> HIDE DEF t
<1>7. Sums(t, N, w)
  <2>1. t[0] = 0 /\ \A k \in 1 .. N : t[k] = t[k - 1] + w[k]
    <3>1. 0 \in 0 .. N /\ \A k \in 1 .. N : k \in 0 .. N /\ k # 0
      BY <1>2
    <3> QED  BY <1>6, <3>1
  <2> DEFINE T == {k \in 0 .. N : t[k] \notin Int}
  <2>2. T = {}
    <3> SUFFICES ASSUME T # {}  PROVE FALSE
      OBVIOUS
    <3>1. PICK k \in T : \A j \in T : k <= j
      <4>1. T \subseteq Nat
        OBVIOUS
      <4> HIDE DEF T
      <4> QED  BY <4>1, LeastNumber
    <3>2. k \in 1 .. N
      BY <2>1, <3>1
    <3>3. k - 1 \in 0 .. N /\ ~ (k <= k - 1)
      BY <1>2, <3>2
    <3>4. t[k - 1] \in Int
      BY <3>1, <3>3
    <3> QED  BY <1>2, <2>1, <3>1, <3>2, <3>4
  <2>3. t \in [0 .. N -> Int]
    <3>1. DOMAIN t = 0 .. N /\ t = [k \in 0 .. N |-> t[k]]
      BY <1>6
    <3> QED  BY <2>2, <3>1
  <2> QED  BY <2>1, <2>3 DEF Sums
<1> QED  BY <1>1, <1>7 DEF N

\* A sequence with one number more has that much more in total.
LEMMA TotalNext ==
    ASSUME NEW w \in Seq(Int), NEW v \in Seq(Int), Len(v) = Len(w) + 1, \A k \in 1 .. Len(w) : v[k] = w[k]
    PROVE  Total(w) \in Int /\ Total(v) = Total(w) + v[Len(v)] /\ v[Len(v)] \in Int
<1> DEFINE n == Len(w)
<1>1. n \in Nat /\ Len(v) = n + 1
  BY LenProperties
<1>2. PICK g : Sums(g, n, w) /\ Total(w) = g[n]
  BY TotalIs
<1>3. PICK h : Sums(h, n + 1, v) /\ Total(v) = h[n + 1]
  BY <1>1, TotalIs
<1>4. \A k \in 1 .. n : v[k] = w[k]
  OBVIOUS
<1>5. v[n + 1] \in Int
  BY <1>1, ElementOfSeq
<1> HIDE DEF n
<1> DEFINE f == [k \in 0 .. n |-> h[k]]
<1>6. /\ h \in [0 .. n + 1 -> Int] /\ h[0] = 0 /\ \A k \in 1 .. n + 1 : h[k] = h[k - 1] + v[k]
      /\ g \in [0 .. n -> Int]
  BY <1>2, <1>3 DEF Sums
<1>7. Sums(f, n, w)
  <2>1. \A k \in 0 .. n : f[k] = h[k] /\ h[k] \in Int
    BY <1>1, <1>6
  <2>2. f \in [0 .. n -> Int] /\ f[0] = 0
    BY <1>1, <1>6, <2>1
  <2>4. ASSUME NEW k \in 1 .. n
        PROVE  f[k] = f[k - 1] + w[k]
    <3>1. n \in Nat
      BY <1>1
    <3>2. k \in 0 .. n /\ k - 1 \in 0 .. n /\ k \in 1 .. n + 1
      BY <3>1
    <3> QED  BY <1>4, <1>6, <2>1, <3>2
  <2> HIDE DEF f
  <2> QED  BY <2>2, <2>4 DEF Sums
<1>8. f[n] = g[n]
  <2> HIDE DEF f
  <2> QED  BY <1>1, <1>2, <1>7, SumsSame
<1>9. f[n] = h[n] /\ g[n] \in Int /\ (n + 1) - 1 = n /\ n + 1 \in 1 .. n + 1
  BY <1>1, <1>6
<1>10. h[n + 1] = h[n] + v[n + 1]
  BY <1>6, <1>9
<1> QED  BY <1>1, <1>2, <1>3, <1>5, <1>8, <1>9, <1>10 DEF n

LEMMA TotalFacts ==
    ASSUME NEW w \in Seq(Int)
    PROVE  Total(w) \in Int /\ (Len(w) = 0 => Total(w) = 0)
<1>1. PICK g : Sums(g, Len(w), w) /\ Total(w) = g[Len(w)]
  BY TotalIs
<1>2. Len(w) \in Nat
  BY LenProperties
<1> QED  BY <1>1, <1>2 DEF Sums

\* The same numbers have the same total.
LEMMA TotalSame ==
    ASSUME NEW w \in Seq(Int), NEW v \in Seq(Int), Len(v) = Len(w), \A k \in 1 .. Len(w) : v[k] = w[k]
    PROVE  Total(v) = Total(w)
<1>1. v = w
  BY SeqEqual
<1> QED  BY <1>1

-----------------------------------------------------------------------------
(* Sequences of anything *)

IsSeq(s) == \E S : s \in Seq(S)

LEMMA SeqIs ==
    ASSUME NEW s, IsSeq(s)
    PROVE  Len(s) \in Nat /\ DOMAIN s = 1 .. Len(s) /\ (s = <<>> <=> Len(s) = 0)
<1>1. PICK S : s \in Seq(S)
  BY DEF IsSeq
<1> QED  BY <1>1, LenProperties, EmptySeq

\* The sequence t is s and then e.
Longer(t, s, e) ==
    /\ IsSeq(t) /\ t # <<>>
    /\ Len(t) = Len(s) + 1 /\ Len(s) \in Nat
    /\ \A k \in 1 .. Len(s) : t[k] = s[k]
    /\ t[Len(t)] = e

LEMMA Pushed ==
    ASSUME NEW s, IsSeq(s), NEW e
    PROVE  Longer(Append(s, e), s, e)
<1> DEFINE t == Append(s, e)
<1>1. PICK S : s \in Seq(S)
  BY DEF IsSeq
<1> DEFINE T == S \cup {e}
<1>2. s \in Seq(T) /\ e \in T
  BY <1>1, SeqMonotonic
<1> HIDE DEF T
<1>3. Append(s, e) \in Seq(T) /\ Len(s) \in Nat
  BY <1>2, AppendProperties, LenProperties
<1>4. IsSeq(t)
  BY <1>3 DEF IsSeq
<1> QED  BY <1>2, <1>3, <1>4, AppendProperties DEF Longer

LEMMA Popped ==
    ASSUME NEW s, IsSeq(s), s # <<>>, NEW t, t = Front(s)
    PROVE  /\ IsSeq(t)
           /\ Len(s) = Len(t) + 1 /\ Len(t) \in Nat /\ Len(s) \in Nat
           /\ \A k \in 1 .. Len(t) : s[k] = t[k]
           /\ Last(s) = s[Len(s)]
<1>1. PICK S : s \in Seq(S)
  BY DEF IsSeq
<1>2. Len(s) \in Nat /\ Len(s) # 0
  BY SeqIs
<1>3. \A i \in 1 .. Len(s) - 1 : s[i] \in S
  BY <1>1, <1>2, ElementOfSeq
<1> DEFINE m == Len(s) - 1
<1>4. m \in Int /\ m \in Nat /\ 1 \in Int
  BY <1>2
<1>5. t = SubSeq(s, 1, m)
  BY DEF Front
<1> HIDE DEF m
<1>6. /\ SubSeq(s, 1, m) \in Seq(S)
      /\ Len(SubSeq(s, 1, m)) = IF 1 <= m THEN m - 1 + 1 ELSE 0
      /\ \A i \in 1 .. m - 1 + 1 : SubSeq(s, 1, m)[i] = s[1 + i - 1]
  BY <1>3, <1>4, SubSeqProperties DEF m
<1>7. m - 1 + 1 = m /\ \A i \in 1 .. m : 1 + i - 1 = i
  BY <1>4
<1>8. Len(t) = m /\ \A i \in 1 .. m : s[i] = t[i]
  BY <1>4, <1>5, <1>6, <1>7
<1>9. IsSeq(t)
  BY <1>5, <1>6 DEF IsSeq
<1> QED  BY <1>2, <1>4, <1>8, <1>9 DEF Last, m

-----------------------------------------------------------------------------
(* What lists hold *)

Weight(f) == IF f.type = "LIST" THEN f.vectors ELSE 0

GoodForms(fs) == IsSeq(fs) /\ \A k \in 1 .. Len(fs) : Weight(fs[k]) \in Int

GoodStack(st) ==
    /\ IsSeq(st)
    /\ \A k \in 1 .. Len(st) : /\ GoodForms(st[k].forms)
                               /\ st[k] = [forms |-> st[k].forms, is_list |-> st[k].is_list]

\* The vectors that the open lists hold.
Held(st) == Total([k \in DOMAIN st |-> Vectors(st[k].forms)])

LEMMA VectorsAre ==
    ASSUME NEW fs, GoodForms(fs), NEW f, Weight(f) \in Int, NEW fs2, fs2 = Append(fs, f)
    PROVE  /\ Vectors(fs) \in Int /\ Vectors(<<>>) = 0
           /\ GoodForms(fs2)
           /\ Vectors(fs2) = Vectors(fs) + Allocated(fs2) - Allocated(fs) + Weight(f)
           /\ Allocated(fs2) = 1 /\ Allocated(fs) \in {0, 1}
<1> DEFINE W(s) == [k \in DOMAIN s |-> Weight(s[k])]
<1>1. \A s : Vectors(s) = Allocated(s) + Total(W(s))
  BY DEF Vectors, Weight
<1>2. ASSUME NEW s, GoodForms(s)
      PROVE  W(s) \in Seq(Int) /\ Len(W(s)) = Len(s) /\ \A k \in 1 .. Len(s) : W(s)[k] = Weight(s[k])
  <2>1. DOMAIN s = 1 .. Len(s) /\ Len(s) \in Nat /\ \A k \in 1 .. Len(s) : Weight(s[k]) \in Int
    BY <1>2, SeqIs DEF GoodForms
  <2> HIDE DEF Weight
  <2>2. W(s) \in [1 .. Len(s) -> Int]
    BY <2>1
  <2> QED  BY <2>1, <2>2
<1>3. /\ IsSeq(fs2) /\ fs2 # <<>> /\ Len(fs2) = Len(fs) + 1 /\ Len(fs) \in Nat
      /\ \A k \in 1 .. Len(fs) : fs2[k] = fs[k]
      /\ fs2[Len(fs2)] = f
  <2>1. IsSeq(fs)
    BY DEF GoodForms
  <2>2. Longer(fs2, fs, f)
    BY <2>1, Pushed
  <2> QED  BY <2>2 DEF Longer
<1>4. GoodForms(fs2)
  <2>1. \A k \in 1 .. Len(fs2) : k \in 1 .. Len(fs) \/ k = Len(fs2)
    BY <1>3
  <2> QED  BY <1>3, <2>1 DEF GoodForms
<1>5. GoodForms(<<>>)
  <2>1. <<>> \in Seq({})
    OBVIOUS
  <2>2. IsSeq(<<>>) /\ Len(<<>>) = 0
    BY <2>1 DEF IsSeq
  <2> QED  BY <2>2 DEF GoodForms
<1>6. /\ W(fs) \in Seq(Int) /\ Len(W(fs)) = Len(fs) /\ \A k \in 1 .. Len(fs) : W(fs)[k] = Weight(fs[k])
      /\ W(fs2) \in Seq(Int) /\ Len(W(fs2)) = Len(fs2) /\ \A k \in 1 .. Len(fs2) : W(fs2)[k] = Weight(fs2[k])
      /\ W(<<>>) \in Seq(Int) /\ Len(W(<<>>)) = 0
  BY <1>2, <1>4, <1>5
<1> DEFINE u == W(fs)
           v == W(fs2)
           e == W(<<>>)
<1> HIDE DEF W, u, v, e
<1>7. Len(v) = Len(u) + 1 /\ (\A k \in 1 .. Len(u) : v[k] = u[k]) /\ v[Len(v)] = Weight(f)
      /\ u \in Seq(Int) /\ v \in Seq(Int)
  <2>1. \A k \in 1 .. Len(fs) : k \in 1 .. Len(fs2)
    BY <1>3
  <2>2. Len(fs2) \in 1 .. Len(fs2)
    BY <1>3
  <2> QED  BY <1>3, <1>6, <2>1, <2>2 DEF u, v
<1>8. Total(u) \in Int /\ Total(v) = Total(u) + v[Len(v)]
  BY <1>7, TotalNext
<1>9. Total(e) = 0
  BY <1>6, TotalFacts DEF e
<1>10. Allocated(fs) \in {0, 1} /\ Allocated(fs2) = 1 /\ Allocated(<<>>) = 0
  BY <1>3 DEF Allocated
<1>11. Vectors(fs) = Allocated(fs) + Total(u) /\ Vectors(fs2) = Allocated(fs2) + Total(v) /\ Vectors(<<>>) = 0
  BY <1>1, <1>9, <1>10 DEF u, v, e
<1> QED  BY <1>4, <1>7, <1>8, <1>10, <1>11

\* What a stack of lists holds, and the lists below its last.
LEMMA HeldIs ==
    ASSUME NEW st, GoodStack(st)
    PROVE  /\ Held(st) \in Int
           /\ st = <<>> => Held(st) = 0
           /\ \A k \in 1 .. Len(st) : Vectors(st[k].forms) \in Int
<1> DEFINE W == [k \in DOMAIN st |-> Vectors(st[k].forms)]
<1>1. DOMAIN st = 1 .. Len(st) /\ Len(st) \in Nat /\ (st = <<>> <=> Len(st) = 0)
  BY SeqIs DEF GoodStack
<1>2. \A k \in 1 .. Len(st) : Vectors(st[k].forms) \in Int
  <2> DEFINE f == [type |-> "NONE"]
  <2>1. Weight(f) \in Int
    BY DEF Weight
  <2> HIDE DEF f
  <2>2. \A k \in 1 .. Len(st) : GoodForms(st[k].forms)
    BY DEF GoodStack
  <2> QED  BY <2>1, <2>2, VectorsAre
<1>3. W \in Seq(Int) /\ Len(W) = Len(st)
  <2>1. W \in [1 .. Len(st) -> Int]
    BY <1>1, <1>2
  <2> QED  BY <1>1, <2>1
<1> HIDE DEF W
<1>4. Total(W) \in Int /\ (Len(W) = 0 => Total(W) = 0)
  BY <1>3, TotalFacts
<1> QED  BY <1>1, <1>2, <1>3, <1>4 DEF Held, W

LEMMA HeldNext ==
    ASSUME NEW st, GoodStack(st), NEW tt, GoodStack(tt), Len(tt) = Len(st) + 1,
           \A k \in 1 .. Len(st) : tt[k] = st[k]
    PROVE  Held(tt) = Held(st) + Vectors(tt[Len(tt)].forms)
<1> DEFINE W(s) == [k \in DOMAIN s |-> Vectors(s[k].forms)]
<1>1. ASSUME NEW s, GoodStack(s)
      PROVE  /\ W(s) \in Seq(Int) /\ Len(W(s)) = Len(s) /\ Len(s) \in Nat
             /\ \A k \in 1 .. Len(s) : W(s)[k] = Vectors(s[k].forms)
  <2>1. DOMAIN s = 1 .. Len(s) /\ Len(s) \in Nat /\ \A k \in 1 .. Len(s) : Vectors(s[k].forms) \in Int
    BY <1>1, SeqIs, HeldIs DEF GoodStack
  <2>2. W(s) \in [1 .. Len(s) -> Int]
    BY <2>1
  <2> QED  BY <2>1, <2>2
<1> DEFINE u == W(st)
           v == W(tt)
<1>2. /\ u \in Seq(Int) /\ Len(u) = Len(st) /\ Len(st) \in Nat /\ \A k \in 1 .. Len(st) : u[k] = Vectors(st[k].forms)
      /\ v \in Seq(Int) /\ Len(v) = Len(tt) /\ \A k \in 1 .. Len(tt) : v[k] = Vectors(tt[k].forms)
  BY <1>1
<1> HIDE DEF W, u, v
<1>3. Len(tt) \in 1 .. Len(tt) /\ \A k \in 1 .. Len(st) : k \in 1 .. Len(tt)
  BY <1>2
<1>4. \A k \in 1 .. Len(u) : v[k] = u[k]
  BY <1>2, <1>3
<1>5. Total(v) = Total(u) + v[Len(v)]
  BY <1>2, <1>4, TotalNext
<1>6. Held(st) = Total(u) /\ Held(tt) = Total(v)
  BY DEF Held, u, v, W
<1> QED  BY <1>2, <1>3, <1>5, <1>6

\* A stack is the lists below its last, and its last.
LEMMA TopIs ==
    ASSUME NEW st, GoodStack(st), st # <<>>
    PROVE  /\ GoodStack(Front(st)) /\ GoodForms(Last(st).forms)
           /\ Last(st) = [forms |-> Last(st).forms, is_list |-> Last(st).is_list]
           /\ Held(st) = Held(Front(st)) + Vectors(Last(st).forms)
           /\ Held(Front(st)) \in Int /\ Vectors(Last(st).forms) \in Int
<1> DEFINE t == Front(st)
           l == Last(st)
<1>1. /\ IsSeq(t) /\ Len(st) = Len(t) + 1 /\ Len(t) \in Nat /\ Len(st) \in Nat
      /\ \A k \in 1 .. Len(t) : st[k] = t[k]
      /\ l = st[Len(st)]
  <2>1. IsSeq(st)
    BY DEF GoodStack
  <2> QED  BY <2>1, Popped
<1> HIDE DEF t, l
<1>2. \A k \in 1 .. Len(t) : k \in 1 .. Len(st)
  BY <1>1
<1>3. Len(st) \in 1 .. Len(st)
  BY <1>1
<1>4. GoodStack(t)
  BY <1>1, <1>2 DEF GoodStack
<1>5. GoodForms(l.forms) /\ l = [forms |-> l.forms, is_list |-> l.is_list]
  BY <1>1, <1>3 DEF GoodStack
<1>6. Held(st) = Held(t) + Vectors(l.forms)
  BY <1>1, <1>4, HeldNext
<1>7. Held(t) \in Int /\ Vectors(l.forms) \in Int
  BY <1>1, <1>3, <1>4, HeldIs
<1> QED  BY <1>4, <1>5, <1>6, <1>7 DEF t, l

\* A list that is pushed on a stack.
LEMMA PushList ==
    ASSUME NEW st, GoodStack(st), NEW l, GoodForms(l.forms), l = [forms |-> l.forms, is_list |-> l.is_list],
           NEW tt, tt = Append(st, l)
    PROVE  GoodStack(tt) /\ tt # <<>> /\ Held(tt) = Held(st) + Vectors(l.forms)
<1>1. /\ IsSeq(tt) /\ tt # <<>> /\ Len(tt) = Len(st) + 1 /\ Len(st) \in Nat
      /\ \A k \in 1 .. Len(st) : tt[k] = st[k]
      /\ tt[Len(tt)] = l
  <2>1. IsSeq(st)
    BY DEF GoodStack
  <2>2. Longer(tt, st, l)
    BY <2>1, Pushed
  <2> QED  BY <2>2 DEF Longer
<1>2. \A k \in 1 .. Len(tt) : k \in 1 .. Len(st) \/ k = Len(tt)
  BY <1>1
<1>3. GoodStack(tt)
  BY <1>1, <1>2 DEF GoodStack
<1> QED  BY <1>1, <1>3, HeldNext

\* A form that is taken: the vectors that lists and form held are those that
\* the lists hold.
LEMMA TookKeeps ==
    ASSUME NEW form, NEW lists, GoodStack(lists), Weight(form) \in Int, live = Held(lists) + Weight(form),
           Took(form, lists)
    PROVE  /\ lists = <<>> => stack' = <<>> /\ result' = form /\ live' = Weight(form)
           /\ lists # <<>> => GoodStack(stack') /\ stack' # <<>> /\ result' = result /\ live' = Held(stack')
<1>0. Held(lists) \in Int /\ (lists = <<>> => Held(lists) = 0)
  BY HeldIs
<1>1. CASE lists = <<>>
  <2>1. live = Weight(form)
    BY <1>0, <1>1
  <2> QED  BY <1>1, <2>1 DEF Took
<1>2. CASE lists # <<>>
  <2> DEFINE l == Last(lists)
             fs == Append(l.forms, form)
             m == [l EXCEPT !.forms = fs]
             t == Front(lists)
  <2>1. /\ stack' = Append(t, m)
        /\ live' = live + Allocated(fs) - Allocated(l.forms)
        /\ result' = result
    BY <1>2 DEF Took
  <2>2. /\ GoodStack(t) /\ GoodForms(l.forms) /\ l = [forms |-> l.forms, is_list |-> l.is_list]
        /\ Held(lists) = Held(t) + Vectors(l.forms) /\ Held(t) \in Int
    BY <1>2, TopIs
  <2>3. /\ Vectors(l.forms) \in Int /\ GoodForms(fs)
        /\ Vectors(fs) = Vectors(l.forms) + Allocated(fs) - Allocated(l.forms) + Weight(form)
        /\ Allocated(fs) = 1 /\ Allocated(l.forms) \in {0, 1}
    BY <2>2, VectorsAre
  <2> HIDE DEF t, l, fs
  <2>4. m = [forms |-> fs, is_list |-> l.is_list]
    BY <2>2
  <2>5. m.forms = fs /\ m = [forms |-> m.forms, is_list |-> m.is_list]
    BY <2>4
  <2> HIDE DEF m
  <2>6. GoodStack(stack') /\ stack' # <<>> /\ Held(stack') = Held(t) + Vectors(fs)
    BY <2>1, <2>2, <2>3, <2>5, PushList
  <2>7. live' = Held(stack')
    BY <1>0, <2>1, <2>2, <2>3, <2>6
  <2> QED  BY <1>2, <2>1, <2>6, <2>7
<1> QED  BY <1>1, <1>2

\* An error frees all that the lists hold.
LEMMA RaiseFrees ==
    ASSUME NEW kind, NEW freed \in Int, NEW outer, GoodStack(outer), live = Held(outer) + freed,
           Raise(kind, freed, outer)
    PROVE  stack' = <<>> /\ result' = lison_raise(kind) /\ live' = 0
<1>1. Held(outer) \in Int
  BY HeldIs
<1> QED  BY <1>1 DEF Raise, Held

\* An atom is no list, no error and no quote.
LEMMA AtomIs ==
    ASSUME NEW t
    PROVE  /\ read_atom(t).type \in {"NUMBER", "FLOAT", "STR", "NIL", "TRUE", "SYMBOL"}
           /\ Weight(read_atom(t)) = 0
<1>1. read_atom(t).type \in {"NUMBER", "FLOAT", "STR", "NIL", "TRUE", "SYMBOL"}
  BY Zenon DEF read_atom, Atom
<1>2. read_atom(t).type # "LIST"
  BY <1>1
<1> QED  BY <1>1, <1>2 DEF Weight

-----------------------------------------------------------------------------
(* Parentheses *)

LEMMA DepthNext ==
    ASSUME NEW ts, NEW k \in Nat
    PROVE  /\ Depth(ts, k) \in Int
           /\ Depth(ts, k + 1) = Depth(ts, k) + (IF ts[k + 1] = Open THEN 1 ELSE 0)
                                     - (IF ts[k + 1] = Close THEN 1 ELSE 0)
<1>1. /\ Count(ts, Open, 1, k) \in Nat /\ Count(ts, Close, 1, k) \in Nat
      /\ Count(ts, Open, 1, k + 1) = Count(ts, Open, 1, k) + IF ts[k + 1] = Open THEN 1 ELSE 0
      /\ Count(ts, Close, 1, k + 1) = Count(ts, Close, 1, k) + IF ts[k + 1] = Close THEN 1 ELSE 0
  BY CountNext
<1> HIDE DEF Open, Close
<1> QED  BY <1>1 DEF Depth

LEMMA FourMarks ==
    /\ Close # Newline /\ Open # Newline /\ Quote # Newline
    /\ Close # Open /\ Close # Quote /\ Open # Quote
BY DEF Newline, Close, Open, Quote

\* The next token begins a list, ends one or does neither.
LEMMA DepthCases ==
    ASSUME NEW ts, NEW k \in Nat
    PROVE  /\ Depth(ts, k) \in Int
           /\ ts[k + 1] = Open => Depth(ts, k + 1) = Depth(ts, k) + 1
           /\ ts[k + 1] = Close => Depth(ts, k + 1) = Depth(ts, k) - 1
           /\ ts[k + 1] # Open /\ ts[k + 1] # Close => Depth(ts, k + 1) = Depth(ts, k)
<1>1. /\ Depth(ts, k) \in Int
      /\ Depth(ts, k + 1) = Depth(ts, k) + (IF ts[k + 1] = Open THEN 1 ELSE 0)
                                - (IF ts[k + 1] = Close THEN 1 ELSE 0)
  BY DepthNext
<1> QED  BY <1>1, FourMarks

\* The list that begins at k has not ended at o.
Above(ts, k, o) == \A j \in k .. o : Depth(ts, j) >= Depth(ts, k)

LEMMA AboveNext ==
    ASSUME NEW ts, NEW k \in Nat, NEW o \in Nat, k <= o + 1, Above(ts, k, o),
           k <= o => Depth(ts, o + 1) >= Depth(ts, k)
    PROVE  Above(ts, k, o + 1)
<1>1. \A j \in k .. o + 1 : j \in k .. o \/ j = o + 1
  OBVIOUS
<1>2. Depth(ts, o + 1) >= Depth(ts, k)
  <2>1. CASE k = o + 1
    BY <2>1, DepthNext
  <2>2. CASE k <= o
    BY <2>2
  <2> QED  BY <2>1, <2>2
<1> QED  BY <1>1, <1>2 DEF Above

-----------------------------------------------------------------------------
(* The lists that are open.  What the book says of a place in the tokens is *)
(* said by those before it, so it stays as more slots are read.             *)

Opens(ts, n) == Count(ts, Open, 1, n)

\* The tokens of us up to n are those of ts.
Agree(ts, us, n) ==
    /\ \A i \in 1 .. n : us[i] = ts[i]
    /\ \A k \in Lists(ts) : k \in 1 .. n => k \in Lists(us)

LEMMA CountSplit ==
    ASSUME NEW s, NEW e, NEW n \in Nat, NEW k \in Nat, k <= n
    PROVE  /\ Count(s, e, k + 1, n) \in Nat
           /\ Count(s, e, 1, n) = Count(s, e, 1, k) + Count(s, e, k + 1, n)
<1> DEFINE A == {i \in 1 .. k : s[i] = e}
           B == {i \in k + 1 .. n : s[i] = e}
<1>1. A \subseteq 1 .. n /\ B \subseteq 1 .. n /\ A \cap B = {} /\ {i \in 1 .. n : s[i] = e} = A \cup B
  OBVIOUS
<1>2. /\ Count(s, e, 1, k) = Cardinality(A) /\ Count(s, e, k + 1, n) = Cardinality(B)
      /\ Count(s, e, 1, n) = Cardinality(A \cup B)
  BY <1>1 DEF Count
<1> HIDE DEF A, B
<1>3. /\ IsFiniteSet(A) /\ IsFiniteSet(B) /\ Cardinality(A) \in Nat /\ Cardinality(B) \in Nat
  BY <1>1, FiniteBelow
<1>4. Cardinality(A \cup B) = Cardinality(A) + Cardinality(B) - Cardinality({})
  BY <1>1, <1>3, FS_Union
<1>5. Cardinality({}) = 0
  BY FS_EmptySet
<1> QED  BY <1>2, <1>3, <1>4, <1>5

LEMMA DepthSame ==
    ASSUME NEW ts, NEW us, NEW n \in Nat, Agree(ts, us, n), NEW j \in 0 .. n
    PROVE  Depth(us, j) = Depth(ts, j) /\ Opens(us, j) = Opens(ts, j)
<1>1. ASSUME NEW e
      PROVE  Count(us, e, 1, j) = Count(ts, e, 1, j)
  <2>1. {i \in 1 .. j : us[i] = e} = {i \in 1 .. j : ts[i] = e}
    BY DEF Agree
  <2> QED  BY <2>1 DEF Count
<1> QED  BY <1>1 DEF Depth, Opens

LEMMA AboveSame ==
    ASSUME NEW ts, NEW us, NEW n \in Nat, Agree(ts, us, n), NEW k \in Nat, NEW o \in 0 .. n, Above(ts, k, o)
    PROVE  Above(us, k, o)
<1>1. ASSUME NEW j \in k .. o
      PROVE  Depth(us, j) >= Depth(us, k)
  <2>1. j \in 0 .. n /\ k \in 0 .. n
    OBVIOUS
  <2> QED  BY <2>1, DepthSame DEF Above
<1> QED  BY <1>1 DEF Above

\* What a list holds besides its own vector.
Inner(l) == Vectors(l.forms) - Allocated(l.forms)

Inners(st) == [i \in 1 .. Len(st) |-> Inner(st[i])]

\* The lists at ks, each in the one before it, are open at o, and nothing else
\* is; the i-th holds v[i] vectors, of lists that lie in no other of them.
Span(ts, ks, n, v, o) ==
    /\ n \in Nat
    /\ \A i \in 1 .. n : /\ ks[i] \in Lists(ts) /\ ks[i] \in 1 .. o /\ Above(ts, ks[i], o)
                         /\ Depth(ts, ks[i]) = Depth(ts, o) - (n - i)
    /\ \A i \in 1 .. n - 1 : v[i] \in 0 .. Opens(ts, ks[i + 1]) - Opens(ts, ks[i]) - 1
    /\ n # 0 => v[n] \in 0 .. Opens(ts, o) - Opens(ts, ks[n])

Spans(ts, st, o) == \E ks : Span(ts, ks, Len(st), Inners(st), o)

LEMMA SpansNone ==
    ASSUME NEW ts, NEW o
    PROVE  Spans(ts, <<>>, o)
<1>1. Len(<<>>) = 0 /\ 1 .. 0 = {} /\ 1 .. 0 - 1 = {}
  OBVIOUS
<1>2. Span(ts, <<>>, 0, Inners(<<>>), o)
  BY <1>1 DEF Span
<1> QED  BY <1>1, <1>2 DEF Spans

LEMMA SpanSame ==
    ASSUME NEW ts, NEW us, NEW o \in Nat, Agree(ts, us, o), NEW ks, NEW n, NEW v, Span(ts, ks, n, v, o)
    PROVE  Span(us, ks, n, v, o)
<1>1. n \in Nat /\ o \in 0 .. o
  BY DEF Span
<1>2. ASSUME NEW i \in 1 .. n
      PROVE  /\ ks[i] \in Lists(us) /\ ks[i] \in 1 .. o /\ Above(us, ks[i], o)
             /\ Depth(us, ks[i]) = Depth(us, o) - (n - i)
             /\ Opens(us, ks[i]) = Opens(ts, ks[i])
  <2>1. /\ ks[i] \in Lists(ts) /\ ks[i] \in 1 .. o /\ Above(ts, ks[i], o)
        /\ Depth(ts, ks[i]) = Depth(ts, o) - (n - i)
    BY DEF Span
  <2>2. ks[i] \in 0 .. o /\ ks[i] \in Nat
    BY <2>1
  <2>3. ks[i] \in Lists(us)
    BY <2>1 DEF Agree
  <2>4. Depth(us, ks[i]) = Depth(ts, ks[i]) /\ Opens(us, ks[i]) = Opens(ts, ks[i]) /\ Depth(us, o) = Depth(ts, o)
    BY <1>1, <2>2, DepthSame
  <2>5. Above(us, ks[i], o)
    BY <1>1, <2>1, <2>2, AboveSame
  <2> QED  BY <2>1, <2>3, <2>4, <2>5
<1>3. Opens(us, o) = Opens(ts, o)
  BY <1>1, DepthSame
<1>4. ASSUME NEW i \in 1 .. n - 1
      PROVE  v[i] \in 0 .. Opens(us, ks[i + 1]) - Opens(us, ks[i]) - 1
  <2>1. i \in 1 .. n /\ i + 1 \in 1 .. n
    BY <1>1
  <2>2. v[i] \in 0 .. Opens(ts, ks[i + 1]) - Opens(ts, ks[i]) - 1
    BY DEF Span
  <2> QED  BY <1>2, <2>1, <2>2
<1>5. n # 0 => v[n] \in 0 .. Opens(us, o) - Opens(us, ks[n])
  <2>1. n # 0 => n \in 1 .. n
    BY <1>1
  <2>2. n # 0 => v[n] \in 0 .. Opens(ts, o) - Opens(ts, ks[n])
    BY DEF Span
  <2> QED  BY <1>2, <1>3, <2>1, <2>2
<1> QED  BY <1>1, <1>2, <1>4, <1>5 DEF Span

\* The numbers of lists that begin before the places of Span.
LEMMA SpanOpens ==
    ASSUME NEW ts, NEW ks, NEW n, NEW v, NEW o \in Nat, Span(ts, ks, n, v, o)
    PROVE  /\ n \in Nat /\ Opens(ts, o) \in Nat /\ Depth(ts, o) \in Int
           /\ \A i \in 1 .. n : ks[i] \in Nat /\ Opens(ts, ks[i]) \in Nat
<1>1. n \in Nat /\ \A i \in 1 .. n : ks[i] \in Nat
  BY DEF Span
<1> QED  BY <1>1, CountNext, DepthNext DEF Opens

LEMMA SpanSkip ==
    ASSUME NEW ts, NEW ks, NEW n, NEW v, NEW o \in Nat, Span(ts, ks, n, v, o),
           ts[o + 1] # Open, ts[o + 1] # Close, NEW w, \A i \in 1 .. n : w[i] = v[i]
    PROVE  Span(ts, ks, n, w, o + 1)
<1>1. /\ n \in Nat /\ Opens(ts, o) \in Nat /\ Depth(ts, o) \in Int
      /\ \A i \in 1 .. n : ks[i] \in Nat /\ Opens(ts, ks[i]) \in Nat
  BY SpanOpens
<1>2. Depth(ts, o + 1) = Depth(ts, o) /\ Opens(ts, o + 1) = Opens(ts, o)
  <2>1. Depth(ts, o + 1) = Depth(ts, o)
    BY DepthCases
  <2>2. Opens(ts, o + 1) = Opens(ts, o) + IF ts[o + 1] = Open THEN 1 ELSE 0
    BY CountNext DEF Opens
  <2> QED  BY <1>1, <2>1, <2>2
<1>3. ASSUME NEW i \in 1 .. n
      PROVE  /\ ks[i] \in Lists(ts) /\ ks[i] \in 1 .. o + 1 /\ Above(ts, ks[i], o + 1)
             /\ Depth(ts, ks[i]) = Depth(ts, o + 1) - (n - i)
  <2>1. /\ ks[i] \in Lists(ts) /\ ks[i] \in 1 .. o /\ Above(ts, ks[i], o)
        /\ Depth(ts, ks[i]) = Depth(ts, o) - (n - i)
    BY DEF Span
  <2>2. ks[i] \in Nat /\ ks[i] <= o + 1 /\ ks[i] \in 1 .. o + 1 /\ o \in ks[i] .. o
    BY <2>1
  <2>3. Depth(ts, o + 1) >= Depth(ts, ks[i])
    BY <1>2, <2>1, <2>2 DEF Above
  <2>4. Above(ts, ks[i], o + 1)
    BY <2>1, <2>2, <2>3, AboveNext
  <2> QED  BY <1>2, <2>1, <2>2, <2>4
<1>4. /\ \A i \in 1 .. n - 1 : w[i] \in 0 .. Opens(ts, ks[i + 1]) - Opens(ts, ks[i]) - 1
      /\ n # 0 => w[n] \in 0 .. Opens(ts, o) - Opens(ts, ks[n])
  <2>1. \A i \in 1 .. n - 1 : i \in 1 .. n
    BY <1>1
  <2>2. n # 0 => n \in 1 .. n
    BY <1>1
  <2> QED  BY <2>1, <2>2 DEF Span
<1> QED  BY <1>1, <1>2, <1>3, <1>4 DEF Span

LEMMA SpanOpen ==
    ASSUME NEW ts, NEW ks, NEW n, NEW v, NEW o \in Nat, Span(ts, ks, n, v, o),
           ts[o + 1] = Open, o + 1 \in DOMAIN ts,
           NEW w, \A i \in 1 .. n : w[i] = v[i], w[n + 1] = 0,
           NEW js, js[n + 1] = o + 1, \A i \in 1 .. n : js[i] = ks[i]
    PROVE  Span(ts, js, n + 1, w, o + 1)
<1>1. /\ n \in Nat /\ Opens(ts, o) \in Nat /\ Depth(ts, o) \in Int
      /\ \A i \in 1 .. n : ks[i] \in Nat /\ Opens(ts, ks[i]) \in Nat
  BY SpanOpens
<1>2. Depth(ts, o + 1) = Depth(ts, o) + 1 /\ Opens(ts, o + 1) = Opens(ts, o) + 1
  <2>1. Depth(ts, o + 1) = Depth(ts, o) + 1
    BY DepthCases
  <2>2. Opens(ts, o + 1) = Opens(ts, o) + IF ts[o + 1] = Open THEN 1 ELSE 0
    BY CountNext DEF Opens
  <2> QED  BY <2>1, <2>2
<1>3. js[n + 1] = o + 1 /\ \A i \in 1 .. n : js[i] = ks[i]
  OBVIOUS
<1>4. ASSUME NEW i \in 1 .. n
      PROVE  /\ ks[i] \in Lists(ts) /\ ks[i] \in 1 .. o + 1 /\ Above(ts, ks[i], o + 1)
             /\ Depth(ts, ks[i]) = Depth(ts, o + 1) - ((n + 1) - i)
  <2>1. /\ ks[i] \in Lists(ts) /\ ks[i] \in 1 .. o /\ Above(ts, ks[i], o)
        /\ Depth(ts, ks[i]) = Depth(ts, o) - (n - i)
    BY DEF Span
  <2>2. ks[i] \in Nat /\ ks[i] <= o + 1 /\ ks[i] \in 1 .. o + 1 /\ o \in ks[i] .. o
    BY <2>1
  <2>3. Depth(ts, o + 1) >= Depth(ts, ks[i])
    BY <1>1, <1>2, <2>1
  <2>4. Above(ts, ks[i], o + 1)
    BY <2>1, <2>2, <2>3, AboveNext
  <2>5. Depth(ts, ks[i]) = Depth(ts, o + 1) - ((n + 1) - i)
    BY <1>1, <1>2, <2>1
  <2> QED  BY <2>1, <2>2, <2>4, <2>5
<1>5. /\ o + 1 \in Lists(ts) /\ o + 1 \in 1 .. o + 1 /\ Above(ts, o + 1, o + 1)
      /\ Depth(ts, o + 1) = Depth(ts, o + 1) - ((n + 1) - (n + 1))
  <2>1. Depth(ts, o + 1) \in Int
    BY <1>1, <1>2
  <2> QED  BY <1>1, <2>1 DEF Lists, Above
<1>6. \A i \in 1 .. n + 1 : i \in 1 .. n \/ i = n + 1
  BY <1>1
<1>7. \A i \in 1 .. n + 1 : /\ js[i] \in Lists(ts) /\ js[i] \in 1 .. o + 1 /\ Above(ts, js[i], o + 1)
                            /\ Depth(ts, js[i]) = Depth(ts, o + 1) - ((n + 1) - i)
  BY <1>3, <1>4, <1>5, <1>6
<1>8. ASSUME NEW i \in 1 .. (n + 1) - 1
      PROVE  w[i] \in 0 .. Opens(ts, js[i + 1]) - Opens(ts, js[i]) - 1
  <2>1. i \in 1 .. n /\ js[i] = ks[i] /\ w[i] = v[i]
    BY <1>1, <1>3
  <2>2. CASE i = n
    <3>1. v[n] \in 0 .. Opens(ts, o) - Opens(ts, ks[n])
      BY <1>1, <2>1, <2>2 DEF Span
    <3>2. Opens(ts, js[i + 1]) = Opens(ts, o) + 1
      BY <1>2, <1>3, <2>2
    <3>3. Opens(ts, ks[n]) \in Nat
      BY <1>1, <2>1, <2>2
    <3> QED  BY <1>1, <2>1, <2>2, <3>1, <3>2, <3>3
  <2>3. CASE i # n
    <3>1. i \in 1 .. n - 1 /\ i + 1 \in 1 .. n
      BY <1>1, <2>1, <2>3
    <3>2. js[i + 1] = ks[i + 1]
      BY <1>3, <3>1
    <3>3. v[i] \in 0 .. Opens(ts, ks[i + 1]) - Opens(ts, ks[i]) - 1
      BY <3>1 DEF Span
    <3> QED  BY <2>1, <3>2, <3>3
  <2> QED  BY <2>2, <2>3
<1>9. w[n + 1] \in 0 .. Opens(ts, o + 1) - Opens(ts, js[n + 1])
  <2>1. Opens(ts, o + 1) - Opens(ts, js[n + 1]) = 0
    BY <1>1, <1>2, <1>3
  <2> QED  BY <2>1
<1>10. n + 1 \in Nat
  BY <1>1
<1> QED  BY <1>7, <1>8, <1>9, <1>10 DEF Span

\* The last list ends; the one it lies in holds its vectors.
LEMMA SpanClose ==
    ASSUME NEW ts, NEW ks, NEW n, NEW v, NEW o \in Nat, Span(ts, ks, n, v, o), n > 1,
           ts[o + 1] = Close,
           NEW w, \A i \in 1 .. n - 2 : w[i] = v[i],
           NEW a \in {0, 1}, w[n - 1] = v[n - 1] + v[n] + a
    PROVE  Span(ts, ks, n - 1, w, o + 1)
<1>1. /\ n \in Nat /\ Opens(ts, o) \in Nat /\ Depth(ts, o) \in Int
      /\ \A i \in 1 .. n : ks[i] \in Nat /\ Opens(ts, ks[i]) \in Nat
  BY SpanOpens
<1>2. Depth(ts, o + 1) = Depth(ts, o) - 1 /\ Opens(ts, o + 1) = Opens(ts, o)
  <2>1. Depth(ts, o + 1) = Depth(ts, o) - 1
    BY DepthCases
  <2>2. Opens(ts, o + 1) = Opens(ts, o) + IF ts[o + 1] = Open THEN 1 ELSE 0
    BY CountNext DEF Opens
  <2> QED  BY <1>1, <2>1, <2>2, FourMarks
<1>3. ASSUME NEW i \in 1 .. n - 1
      PROVE  /\ ks[i] \in Lists(ts) /\ ks[i] \in 1 .. o + 1 /\ Above(ts, ks[i], o + 1)
             /\ Depth(ts, ks[i]) = Depth(ts, o + 1) - ((n - 1) - i)
  <2>0. i \in 1 .. n
    BY <1>1
  <2>1. /\ ks[i] \in Lists(ts) /\ ks[i] \in 1 .. o /\ Above(ts, ks[i], o)
        /\ Depth(ts, ks[i]) = Depth(ts, o) - (n - i)
    BY <2>0 DEF Span
  <2>2. ks[i] \in Nat /\ ks[i] <= o + 1 /\ ks[i] \in 1 .. o + 1
    BY <2>1
  <2>3. Depth(ts, o + 1) >= Depth(ts, ks[i])
    BY <1>1, <1>2, <2>1
  <2>4. Above(ts, ks[i], o + 1)
    BY <2>1, <2>2, <2>3, AboveNext
  <2>5. Depth(ts, ks[i]) = Depth(ts, o + 1) - ((n - 1) - i)
    BY <1>1, <1>2, <2>1
  <2> QED  BY <2>1, <2>2, <2>4, <2>5
<1>4. ASSUME NEW i \in 1 .. (n - 1) - 1
      PROVE  w[i] \in 0 .. Opens(ts, ks[i + 1]) - Opens(ts, ks[i]) - 1
  <2>1. i \in 1 .. n - 2 /\ i \in 1 .. n - 1
    BY <1>1
  <2> QED  BY <2>1 DEF Span
<1>5. w[n - 1] \in 0 .. Opens(ts, o + 1) - Opens(ts, ks[n - 1])
  <2>1. n - 1 \in 1 .. n - 1 /\ n # 0 /\ (n - 1) + 1 = n /\ n \in 1 .. n /\ n - 1 \in 1 .. n
    BY <1>1
  <2>2. /\ v[n - 1] \in 0 .. Opens(ts, ks[(n - 1) + 1]) - Opens(ts, ks[n - 1]) - 1
        /\ v[n] \in 0 .. Opens(ts, o) - Opens(ts, ks[n])
    BY <2>1 DEF Span
  <2>3. v[n - 1] \in 0 .. Opens(ts, ks[n]) - Opens(ts, ks[n - 1]) - 1
    BY <2>1, <2>2
  <2> DEFINE p == Opens(ts, ks[n - 1])
             q == Opens(ts, ks[n])
             r == Opens(ts, o)
             x == v[n - 1]
             y == v[n]
  <2>4. p \in Nat /\ q \in Nat /\ r \in Nat /\ x \in 0 .. q - p - 1 /\ y \in 0 .. r - q
    BY <1>1, <2>1, <2>2, <2>3
  <2> HIDE DEF p, q, r, x, y
  <2>5. x + y + a \in 0 .. r - p
    BY <2>4
  <2> QED  BY <1>2, <2>5 DEF p, q, r, x, y
<1>6. n - 1 \in Nat /\ n - 1 # 0
  BY <1>1
<1> QED  BY <1>3, <1>4, <1>5, <1>6 DEF Span

\* The stack after the token t was read.
Turn(t) ==
    \/ stack' = <<>>
    \/ stack' = stack /\ offset' = offset + 1 /\ t # Open /\ t # Close
    \/ /\ t = Open /\ offset' = offset + 1
       /\ \E m : Inner(m) = 0 /\ stack' = Append(stack, m)
    \/ /\ t # Open /\ t # Close /\ offset' = offset + 1 /\ stack # <<>>
       /\ \E m : Inner(m) = Inner(Last(stack)) /\ stack' = Append(Front(stack), m)
    \/ /\ t = Close /\ offset' = offset + 1 /\ stack # <<>> /\ Front(stack) # <<>>
       /\ \E m : \E a \in {0, 1} :
            /\ Inner(m) = Inner(Last(Front(stack))) + Inner(Last(stack)) + a
            /\ stack' = Append(Front(Front(stack)), m)

LEMMA TurnSpans ==
    ASSUME offset \in Nat, IsSeq(stack), NEW ts, Spans(ts, stack, offset), NEW t, t = ts[offset + 1],
           offset + 1 \in DOMAIN ts, Turn(t)
    PROVE  Spans(ts, stack', offset')
<1> DEFINE n == Len(stack)
           v == Inners(stack)
<1>1. PICK ks : Span(ts, ks, n, v, offset)
  BY DEF Spans
<1>2. n \in Nat /\ (stack = <<>> <=> n = 0) /\ \A i \in 1 .. n : v[i] = Inner(stack[i])
  BY SeqIs DEF Inners
<1>3. CASE stack' = <<>>
  BY <1>3, SpansNone
<1>4. CASE stack' = stack /\ offset' = offset + 1 /\ t # Open /\ t # Close
  <2>1. Span(ts, ks, n, v, offset + 1)
    <3> HIDE DEF n, v
    <3> QED  BY <1>1, <1>4, SpanSkip
  <2> QED  BY <1>4, <2>1 DEF Spans
<1>5. ASSUME t = Open, offset' = offset + 1, NEW m, Inner(m) = 0, stack' = Append(stack, m)
      PROVE  Spans(ts, stack', offset')
  <2>1. Longer(stack', stack, m)
    BY <1>5, Pushed
  <2> DEFINE w == Inners(stack')
             js == [i \in 1 .. n + 1 |-> IF i = n + 1 THEN offset + 1 ELSE ks[i]]
  <2>2. Len(stack') = n + 1 /\ \A i \in 1 .. n + 1 : w[i] = Inner(stack'[i])
    BY <1>2, <2>1 DEF Longer, Inners
  <2>3. n + 1 \in 1 .. n + 1 /\ \A i \in 1 .. n : i \in 1 .. n + 1 /\ i # n + 1
    BY <1>2
  <2>4. w[n + 1] = 0 /\ \A i \in 1 .. n : w[i] = v[i]
    BY <1>2, <1>5, <2>1, <2>2, <2>3 DEF Longer
  <2>5. js[n + 1] = offset + 1 /\ \A i \in 1 .. n : js[i] = ks[i]
    BY <2>3
  <2> HIDE DEF n, v, w, js
  <2>6. Span(ts, js, n + 1, w, offset + 1)
    <3>1. ts[offset + 1] = Open
      BY <1>5
    <3> QED  BY ONLY <1>1, <2>4, <2>5, <3>1, offset \in Nat, offset + 1 \in DOMAIN ts, SpanOpen
  <2> QED  BY <1>5, <2>2, <2>6 DEF Spans, w
<1>6. ASSUME t # Open, t # Close, offset' = offset + 1, stack # <<>>,
             NEW m, Inner(m) = Inner(Last(stack)), stack' = Append(Front(stack), m)
      PROVE  Spans(ts, stack', offset')
  <2> DEFINE s == Front(stack)
             w == Inners(stack')
  <2>1. IsSeq(s) /\ n = Len(s) + 1 /\ Len(s) \in Nat /\ (\A k \in 1 .. Len(s) : stack[k] = s[k]) /\ Last(stack) = stack[n]
    BY <1>6, Popped
  <2>2. stack' = Append(s, m)
    BY <1>6
  <2> HIDE DEF s
  <2>3. Longer(stack', s, m)
    BY <2>1, <2>2, Pushed
  <2>4. Len(stack') = n /\ stack'[n] = m /\ \A k \in 1 .. Len(s) : stack'[k] = s[k]
    BY <2>1, <2>3 DEF Longer
  <2>5. \A i \in 1 .. n : i \in 1 .. Len(s) \/ i = n
    BY <1>2, <2>1
  <2>6. \A i \in 1 .. n : Inner(stack'[i]) = Inner(stack[i])
    BY <1>6, <2>1, <2>4, <2>5
  <2>7. \A i \in 1 .. n : w[i] = v[i]
    BY <1>2, <2>4, <2>6 DEF Inners
  <2> HIDE DEF n, v, w
  <2>8. Span(ts, ks, n, w, offset + 1)
    BY <1>1, <1>6, <2>7, SpanSkip
  <2> QED  BY <1>6, <2>4, <2>8 DEF Spans, w
<1>7. ASSUME t = Close, offset' = offset + 1, stack # <<>>, Front(stack) # <<>>, NEW m, NEW a \in {0, 1},
             Inner(m) = Inner(Last(Front(stack))) + Inner(Last(stack)) + a,
             stack' = Append(Front(Front(stack)), m)
      PROVE  Spans(ts, stack', offset')
  <2> DEFINE s == Front(stack)
             r == Front(s)
             w == Inners(stack')
  <2>1. IsSeq(s) /\ n = Len(s) + 1 /\ Len(s) \in Nat /\ (\A k \in 1 .. Len(s) : stack[k] = s[k]) /\ Last(stack) = stack[n]
    BY <1>7, Popped
  <2>2. s # <<>> /\ Inner(m) = Inner(Last(s)) + Inner(Last(stack)) + a
    BY <1>7
  <2>3. stack' = Append(r, m)
    BY <1>7
  <2> HIDE DEF s
  <2>4. IsSeq(r) /\ Len(s) = Len(r) + 1 /\ Len(r) \in Nat /\ (\A k \in 1 .. Len(r) : s[k] = r[k]) /\ Last(s) = s[Len(s)]
    BY <2>1, <2>2, Popped
  <2> HIDE DEF r
  <2>5. Longer(stack', r, m)
    BY <2>3, <2>4, Pushed
  <2>6. Len(stack') = n - 1 /\ stack'[n - 1] = m /\ (\A k \in 1 .. Len(r) : stack'[k] = r[k]) /\ Len(r) = n - 2
    BY <2>1, <2>4, <2>5 DEF Longer
  <2>7. /\ n > 1 /\ n - 1 \in 1 .. n - 1 /\ n - 1 \in 1 .. n /\ n \in 1 .. n /\ n - 1 = Len(s) /\ n - 1 \in 1 .. Len(s)
        /\ \A i \in 1 .. n - 2 : i \in 1 .. Len(r) /\ i \in 1 .. Len(s) /\ i \in 1 .. n /\ i \in 1 .. n - 1
    BY <1>2, <2>1, <2>4, <2>6
  <2>8. \A i \in 1 .. n - 1 : w[i] = Inner(stack'[i])
    BY <2>6 DEF Inners
  <2>9. \A i \in 1 .. n - 2 : w[i] = v[i]
    BY <1>2, <2>1, <2>4, <2>6, <2>7, <2>8
  <2>10. w[n - 1] = v[n - 1] + v[n] + a
    <3>1. v[n - 1] = Inner(Last(s)) /\ v[n] = Inner(Last(stack))
      BY <1>2, <2>1, <2>4, <2>7
    <3> QED  BY <2>2, <2>6, <2>7, <2>8, <3>1
  <2> HIDE DEF n, v, w
  <2>11. Span(ts, ks, n - 1, w, offset + 1)
    BY <1>1, <1>7, <2>7, <2>9, <2>10, SpanClose
  <2> QED  BY <1>7, <2>6, <2>11 DEF Spans, w
<1> QED  BY <1>3, <1>4, <1>5, <1>6, <1>7 DEF Turn

\* What a slot of memory may hold.
Marks == Seq(STRING) \cup Junk

LEMMA TokensMarks ==
    ASSUME tokens \in Seq(Seq(STRING))
    PROVE  tokens \in Seq(Marks)
<1>1. Seq(STRING) \subseteq Marks
  BY DEF Marks
<1> QED  BY <1>1, SeqMonotonic

\* What reading a slot adds to memory.
LEMMA MemoryIs ==
    ASSUME tokens \in Seq(Seq(STRING)), slots \in Seq(Marks)
    PROVE  /\ memory \in Seq(Marks) /\ DOMAIN memory = 1 .. Len(memory)
           /\ Len(memory) = Len(tokens) + Len(slots)
           /\ Len(memory) \in Nat /\ Len(tokens) \in Nat /\ Len(slots) \in Nat
           /\ \A i \in 1 .. Len(tokens) : memory[i] = tokens[i]
           /\ \A i \in 1 .. Len(slots) : memory[Len(tokens) + i] = slots[i]
<1>1. Len(tokens) \in Nat /\ Len(slots) \in Nat
  BY LenProperties
<1>2. /\ memory \in Seq(Marks)
      /\ Len(memory) = Len(tokens) + Len(slots)
      /\ \A i \in 1 .. Len(tokens) + Len(slots) : memory[i] = IF i <= Len(tokens) THEN tokens[i] ELSE slots[i - Len(tokens)]
  <2>1. tokens \in Seq(Marks)
    BY TokensMarks
  <2> HIDE DEF Marks
  <2> QED  BY <2>1, ConcatProperties DEF memory
<1>3. Len(memory) \in Nat /\ DOMAIN memory = 1 .. Len(memory)
  BY <1>2, LenProperties
<1> DEFINE a == Len(tokens)
           b == Len(slots)
<1> HIDE DEF a, b
<1>4. a \in Nat /\ b \in Nat
  BY <1>1 DEF a, b
<1>5. \A i \in 1 .. a : i \in 1 .. a + b /\ i <= a
  BY <1>4
<1>6. \A i \in 1 .. b : a + i \in 1 .. a + b /\ ~ (a + i <= a) /\ (a + i) - a = i
  BY <1>4
<1>7. \A i \in 1 .. Len(tokens) : memory[i] = tokens[i]
  BY <1>2, <1>5 DEF a, b
<1>8. \A i \in 1 .. Len(slots) : memory[Len(tokens) + i] = slots[i]
  BY <1>2, <1>6 DEF a, b
<1> QED  BY <1>1, <1>2, <1>3, <1>7, <1>8

LEMMA MemoryRead ==
    ASSUME tokens \in Seq(Seq(STRING)), slots \in Seq(Marks), offset \in Nat, offset <= Len(memory),
           NEW t \in reader_current, tokens' = tokens,
           slots' = IF offset < Len(memory) THEN slots ELSE Append(slots, t)
    PROVE  /\ slots' \in Seq(Marks)
           /\ Agree(memory, memory', offset) /\ memory'[offset + 1] = t
           /\ Len(memory') \in Nat /\ offset + 1 <= Len(memory') /\ offset + 1 \in DOMAIN memory'
<1>1. /\ memory \in Seq(Marks) /\ DOMAIN memory = 1 .. Len(memory)
      /\ Len(memory) = Len(tokens) + Len(slots)
      /\ Len(memory) \in Nat /\ Len(tokens) \in Nat /\ Len(slots) \in Nat
      /\ \A i \in 1 .. Len(tokens) : memory[i] = tokens[i]
      /\ \A i \in 1 .. Len(slots) : memory[Len(tokens) + i] = slots[i]
  BY MemoryIs, Zenon
<1>2. CASE offset < Len(memory)
  <2>1. slots' = slots /\ memory' = memory /\ t = memory[offset + 1]
    <3>1. slots' = slots
      BY <1>2
    <3>2. memory' = memory
      BY <3>1 DEF memory
    <3> QED  BY <1>2, <3>1, <3>2, Zenon DEF reader_current
  <2>2. Agree(memory, memory', offset)
    BY <2>1 DEF Agree
  <2>3. offset + 1 <= Len(memory) /\ offset + 1 \in 1 .. Len(memory)
    BY <1>1, <1>2
  <2> QED  BY <1>1, <2>1, <2>2, <2>3
<1>3. CASE ~ (offset < Len(memory))
  <2>1. offset = Len(memory)
    BY <1>1, <1>3
  <2>2. t \in Junk
    BY <1>3, Zenon DEF reader_current
  <2>3. t \in Marks /\ slots' = Append(slots, t)
    BY <1>3, <2>2, Zenon DEF Marks
  <2>4. /\ slots' \in Seq(Marks) /\ Len(slots') = Len(slots) + 1
        /\ (\A i \in 1 .. Len(slots) : slots'[i] = slots[i]) /\ slots'[Len(slots) + 1] = t
    <3> DEFINE f == slots'
    <3>1. f = Append(slots, t)
      BY <2>3
    <3> HIDE DEF f
    <3>2. slots \in Seq(Marks) /\ t \in Marks
      BY <2>3
    <3>3. /\ f \in Seq(Marks) /\ Len(f) = Len(slots) + 1
          /\ (\A i \in 1 .. Len(slots) : f[i] = slots[i]) /\ f[Len(slots) + 1] = t
      BY ONLY <3>1, <3>2, AppendProperties
    <3> QED  BY <3>3 DEF f
  <2> DEFINE m == tokens \o slots'
  <2>5. m = memory'
    BY DEF memory
  <2>6. /\ m \in Seq(Marks) /\ Len(m) = Len(tokens) + Len(slots')
        /\ \A i \in 1 .. Len(tokens) + Len(slots') : m[i] = IF i <= Len(tokens) THEN tokens[i] ELSE slots'[i - Len(tokens)]
    <3> DEFINE f == slots'
    <3>1. f \in Seq(Marks) /\ tokens \in Seq(Marks)
      BY <2>4, TokensMarks
    <3> HIDE DEF f
    <3>2. /\ tokens \o f \in Seq(Marks) /\ Len(tokens \o f) = Len(tokens) + Len(f)
          /\ \A i \in 1 .. Len(tokens) + Len(f) :
                (tokens \o f)[i] = IF i <= Len(tokens) THEN tokens[i] ELSE f[i - Len(tokens)]
      BY ONLY <3>1, ConcatProperties
    <3> QED  BY <3>2 DEF f
  <2>7. Len(m) = Len(memory) + 1 /\ DOMAIN m = 1 .. Len(m)
    <3>1. Len(m) = Len(memory) + 1
      BY <1>1, <2>4, <2>6
    <3> QED  BY <2>6, <3>1, LenProperties
  <2> HIDE DEF m
  <2> DEFINE a == Len(tokens)
             b == Len(slots)
             f == slots'
             c == Len(memory)
  <2>8. a \in Nat /\ b \in Nat /\ c = a + b /\ Len(f) = b + 1 /\ f[b + 1] = t
        /\ (\A i \in 1 .. b : f[i] = slots[i])
        /\ (\A i \in 1 .. a : memory[i] = tokens[i]) /\ (\A i \in 1 .. b : memory[a + i] = slots[i])
        /\ (\A i \in 1 .. a + Len(f) : m[i] = IF i <= a THEN tokens[i] ELSE f[i - a])
    BY <1>1, <2>4, <2>6
  <2> HIDE DEF a, b, f, c
  <2>9. ASSUME NEW i \in 1 .. c
        PROVE  m[i] = memory[i]
    <3>1. CASE i <= a
      <4>1. i \in 1 .. a /\ i \in 1 .. a + Len(f)
        BY <2>8, <3>1
      <4> QED  BY <2>8, <3>1, <4>1
    <3>2. CASE ~ (i <= a)
      <4>1. i - a \in 1 .. b /\ a + (i - a) = i /\ i \in 1 .. a + Len(f)
        BY <2>8, <3>2
      <4> QED  BY <2>8, <3>2, <4>1
    <3> QED  BY <3>1, <3>2
  <2>10. m[c + 1] = t
    <3>1. c + 1 \in 1 .. a + Len(f) /\ ~ (c + 1 <= a) /\ (c + 1) - a = b + 1
      BY <2>8
    <3> QED  BY <2>8, <3>1
  <2>11. c = offset /\ c \in Nat /\ Len(m) = c + 1
    BY <1>1, <2>1, <2>7 DEF c
  <2>12. \A k \in Lists(memory) : k \in 1 .. offset => k \in Lists(m)
    <3>1. \A k \in 1 .. c : k \in DOMAIN m
      BY <2>7, <2>11
    <3> QED  BY <2>9, <2>11, <3>1 DEF Lists
  <2>13. Agree(memory, m, offset)
    BY <2>9, <2>11, <2>12 DEF Agree
  <2>14. offset + 1 <= Len(m) /\ Len(m) \in Nat /\ offset + 1 \in DOMAIN m /\ m[offset + 1] = t
    BY <2>7, <2>10, <2>11
  <2> QED  BY <2>4, <2>5, <2>13, <2>14
<1> QED  BY <1>2, <1>3

\* As LeftAtEnd, for any tokens and places.
LeftIn(ts, from, to, n) ==
    \/ n = 0
    \/ \E o \in from .. to, k \in Lists(ts) : Innermost(ts, k, o) /\ n \in 0 .. Count(ts, Open, k + 1, o)

\* What is left stays within its bounds.
LEMMA LeftSame ==
    ASSUME NEW ts, NEW us, NEW a \in Nat, NEW b \in Nat, NEW c \in Nat, b <= c, Agree(ts, us, b),
           DOMAIN ts = 1 .. Len(ts), NEW n, LeftIn(ts, a, b, n)
    PROVE  LeftIn(us, a, c, n)
<1>1. CASE n = 0
  BY <1>1 DEF LeftIn
<1>2. CASE n # 0
  <2>1. PICK o \in a .. b, k \in Lists(ts) : Innermost(ts, k, o) /\ n \in 0 .. Count(ts, Open, k + 1, o)
    BY <1>2 DEF LeftIn
  <2>2. k \in DOMAIN ts /\ k <= o /\ Depth(ts, o) = Depth(ts, k) /\ Above(ts, k, o)
    BY <2>1 DEF Innermost, Above, Lists
  <2>3. k \in 1 .. b /\ k \in 0 .. b /\ o \in 0 .. b /\ o \in a .. c /\ k \in Nat
    BY <2>2
  <2>4. k \in Lists(us)
    BY <2>3 DEF Agree
  <2>5. Depth(us, o) = Depth(us, k) /\ Above(us, k, o)
    BY <2>2, <2>3, DepthSame, AboveSame
  <2>6. Innermost(us, k, o)
    BY <2>2, <2>5 DEF Innermost, Above
  <2>7. Count(us, Open, k + 1, o) = Count(ts, Open, k + 1, o)
    <3>1. \A i \in k + 1 .. o : i \in 1 .. b
      BY <2>3
    <3>2. {i \in k + 1 .. o : us[i] = Open} = {i \in k + 1 .. o : ts[i] = Open}
      BY <3>1 DEF Agree
    <3> QED  BY <3>2 DEF Count
  <2> QED  BY <2>1, <2>3, <2>4, <2>6, <2>7 DEF LeftIn
<1> QED  BY <1>1, <1>2

\* What the last list holds at the end of the tokens.
LEMMA LeftHere ==
    ASSUME offset \in Nat, Len(tokens) \in Nat, reader_eof, IsSeq(stack), stack # <<>>,
           Spans(memory, stack, offset)
    PROVE  LeftIn(memory, Len(tokens), offset, Inner(Last(stack)))
<1> DEFINE n == Len(stack)
           v == Inners(stack)
           ts == memory
<1>1. PICK ks : Span(ts, ks, n, v, offset)
  BY DEF Spans
<1>2. n \in Nat /\ n # 0 /\ n \in 1 .. n /\ v[n] = Inner(Last(stack))
  BY SeqIs DEF Inners, Last
<1> HIDE DEF n, v, ts
<1> DEFINE k == ks[n]
<1>3. /\ k \in Lists(ts) /\ k \in 1 .. offset /\ Above(ts, k, offset)
      /\ Depth(ts, k) = Depth(ts, offset) - (n - n)
      /\ v[n] \in 0 .. Opens(ts, offset) - Opens(ts, k)
  BY <1>1, <1>2 DEF Span
<1> HIDE DEF k
<1>4. Depth(ts, offset) \in Int /\ k \in Nat /\ k <= offset
  BY <1>3, DepthNext
<1>5. Innermost(ts, k, offset)
  <2>1. Depth(ts, offset) = Depth(ts, k)
    BY <1>2, <1>3, <1>4
  <2> QED  BY <1>3, <1>4, <2>1 DEF Innermost, Above
<1>6. Count(ts, Open, k + 1, offset) = Opens(ts, offset) - Opens(ts, k)
  <2>1. /\ Count(ts, Open, k + 1, offset) \in Nat
        /\ Opens(ts, offset) = Opens(ts, k) + Count(ts, Open, k + 1, offset)
    BY <1>4, CountSplit DEF Opens
  <2>2. Opens(ts, k) \in Nat
    BY <1>4, CountNext DEF Opens
  <2> QED  BY <2>1, <2>2
<1>7. offset \in Len(tokens) .. offset
  BY DEF reader_eof
<1> QED  BY <1>2, <1>3, <1>5, <1>6, <1>7 DEF LeftIn, ts

-----------------------------------------------------------------------------
(* What is allocated *)

\* What the lists held is freed or is in the form that was read; but for what
\* the last of them read when it meets the end of the tokens.
LiveAfter ==
    /\ offset' \in {offset, offset + 1} /\ GoodStack(stack') /\ live' \in Int
    /\ result' # NONE => stack' = <<>>
    /\ result' = NONE => live' = Held(stack')
    /\ result' # NONE /\ result'.type \notin {"LIST", "ERROR"} => live' = 0
    /\ result'.type = "ERROR" =>
            live' = 0 \/ (reader_eof /\ stack # <<>> /\ live' = Inner(Last(stack)))

\* Behind the end of the tokens, in no list or in one that has read nothing.
Behind(st) == reader_eof /\ (st = <<>> \/ (Front(st) = <<>> /\ Last(st).forms = <<>>))

Left == LeftIn(memory, Len(tokens), offset, live)

\* The vectors that are live are those of the open lists, which are where the
\* slots of memory open them; or the first form ended with the tokens, and
\* they are what its last list had read.
LiveInv ==
    /\ slots \in Seq(Marks) /\ offset \in Nat /\ GoodStack(stack) /\ live \in Int
    /\ result # NONE => stack = <<>>
    /\ pc = "lex" => stack = <<>> /\ result = NONE /\ live = 0 /\ slots = <<>> /\ offset = 0
    /\ pc # "lex" => offset <= Len(memory)
    /\ pc \in {"quote", "root"} => Spans(memory, stack, offset)
    /\ pc = "quote" /\ result = NONE => live = Held(stack)
    /\ pc = "quote" /\ result.type = "QUOTE" => live = 0
    /\ pc = "quote" /\ result.type = "ERROR" => Left
    /\ pc = "root" /\ result = NONE => live = Held(stack) \/ (Behind(stack) /\ Left)
    /\ pc = "root" /\ result # NONE /\ result.type # "LIST" => Left
    /\ pc = "done" /\ result.type = "ERROR" /\ result.kind # NOQUOTE => Left

LEMMA Kinds == EOF # PAIR
BY Zenon DEF EOF, PAIR

LEMMA NothingHeld == GoodStack(<<>>) /\ Held(<<>>) = 0
<1>1. <<>> \in Seq({}) /\ Len(<<>>) = 0
  OBVIOUS
<1>2. IsSeq(<<>>)
  BY <1>1 DEF IsSeq
<1>3. GoodStack(<<>>)
  BY <1>1, <1>2 DEF GoodStack
<1> QED  BY <1>3, HeldIs

\* A list that is marked keeps its forms.
LEMMA MarkKeeps ==
    ASSUME NEW f, NEW b, NEW l, l = [forms |-> f, is_list |-> b],
           NEW m, m = [l EXCEPT !.is_list = TRUE]
    PROVE  m = [forms |-> f, is_list |-> TRUE]
<1>1. DOMAIN m = {"forms", "is_list"}
  OBVIOUS
<1>2. m.forms = f /\ m.is_list = TRUE
  OBVIOUS
<1> QED  OBVIOUS

\* A list that takes a form.
LEMMA TookTurn ==
    ASSUME NEW form, Weight(form) \in Int, NEW lists, GoodStack(lists), Took(form, lists)
    PROVE  \/ lists = <<>> /\ stack' = <<>>
           \/ /\ lists # <<>>
              /\ \E m : /\ Inner(m) = Inner(Last(lists)) + Weight(form)
                        /\ stack' = Append(Front(lists), m)
<1>1. CASE lists = <<>>
  BY <1>1, Zenon DEF Took
<1>2. CASE lists # <<>>
  <2> DEFINE l == Last(lists)
             fs == Append(l.forms, form)
             m == [l EXCEPT !.forms = fs]
  <2>1. stack' = Append(Front(lists), m)
    BY <1>2, Zenon DEF Took
  <2>2. GoodForms(l.forms) /\ l = [forms |-> l.forms, is_list |-> l.is_list] /\ Vectors(l.forms) \in Int
    BY <1>2, TopIs
  <2>3. /\ Vectors(fs) = Vectors(l.forms) + Allocated(fs) - Allocated(l.forms) + Weight(form)
        /\ Allocated(fs) = 1 /\ Allocated(l.forms) \in {0, 1}
    BY <2>2, VectorsAre
  <2> HIDE DEF fs, l
  <2>4. m.forms = fs
    BY <2>2
  <2> HIDE DEF m
  <2>5. Inner(m) = Inner(l) + Weight(form)
    BY <2>2, <2>3, <2>4 DEF Inner
  <2> QED  BY <1>2, <2>1, <2>5 DEF l
<1> QED  BY <1>1, <1>2

\* A turn of the loop of read_list changes the stack as its token says.
LEMMA ReadTurn ==
    ASSUME offset \in Nat, GoodStack(stack), NEW t, IF stack = <<>> THEN read_form(t) ELSE read_list(t)
    PROVE  Turn(t)
<1>0. Close # Newline /\ Open # Newline /\ Quote # Newline /\ Close # Open /\ Close # Quote /\ Open # Quote
  BY DEF Newline, Close, Open, Quote
<1>1. ASSUME OpenList, t = Open
      PROVE  Turn(t)
  <2> DEFINE l == [forms |-> <<>>, is_list |-> FALSE]
  <2>1. stack' = Append(stack, l) /\ offset' = offset + 1
    BY <1>1 DEF OpenList, reader_next
  <2>2. Inner(l) = 0
    <3>1. IsSeq(<<>>) /\ Len(<<>>) = 0
      BY NothingHeld DEF GoodStack
    <3>2. GoodForms(<<>>) /\ Weight(NONE) \in Int
      BY <3>1 DEF GoodForms, Weight, NONE
    <3>3. Vectors(<<>>) = 0
      BY <3>2, VectorsAre
    <3>4. l.forms = <<>> /\ Allocated(<<>>) = 0
      BY DEF Allocated
    <3> HIDE DEF l
    <3> QED  BY <3>3, <3>4 DEF Inner
  <2> HIDE DEF l
  <2> QED  BY <1>1, <2>1, <2>2 DEF Turn
<1>2. ASSUME SkipNewline, t = Newline
      PROVE  Turn(t)
  <2>1. stack' = stack /\ offset' = offset + 1
    BY <1>2 DEF SkipNewline, reader_next
  <2> QED  BY <1>0, <1>2, <2>1 DEF Turn
<1>3. ASSUME NEW kind, NEW freed, NEW outer, Raise(kind, freed, outer)
      PROVE  Turn(t)
  <2>1. stack' = <<>>
    BY <1>3 DEF Raise
  <2> QED  BY <2>1 DEF Turn
<1>4. ASSUME NEW form, Weight(form) = 0, reader_next, Took(form, stack), t # Open, t # Close
      PROVE  Turn(t)
  <2>1. offset' = offset + 1
    BY <1>4 DEF reader_next
  <2>2. CASE stack = <<>>
    <3>1. stack' = <<>>
      BY <1>4, <2>2, Zenon DEF Took
    <3> QED  BY <3>1 DEF Turn
  <2>3. CASE stack # <<>>
    <3>1. PICK m : Inner(m) = Inner(Last(stack)) + Weight(form) /\ stack' = Append(Front(stack), m)
      BY <1>4, <2>3, TookTurn
    <3>2. Inner(Last(stack)) \in Int
      <4>1. Vectors(Last(stack).forms) \in Int
        BY <2>3, TopIs
      <4> QED  BY <4>1 DEF Inner, Allocated
    <3>3. Inner(m) = Inner(Last(stack))
      BY <1>4, <3>1, <3>2
    <3> QED  BY <1>4, <2>1, <2>3, <3>1, <3>3 DEF Turn
  <2> QED  BY <2>2, <2>3
<1>5. CASE stack = <<>>
  <2>1. read_form(t)
    BY <1>5
  <2>2. CASE t = Open
    BY <1>0, <1>1, <2>1, <2>2, Zenon DEF read_form
  <2>3. CASE t = Close
    BY <1>0, <1>3, <2>1, <2>3, Zenon DEF read_form
  <2>4. CASE t = Newline
    BY <1>0, <1>2, <2>1, <2>4, Zenon DEF read_form
  <2>5. CASE t = Quote
    <3> DEFINE f == [type |-> "QUOTE"]
    <3>1. reader_next /\ Took(f, stack)
      BY <1>0, <2>1, <2>5, Zenon DEF read_form
    <3>2. Weight(f) = 0
      BY DEF Weight
    <3> HIDE DEF f
    <3> QED  BY <1>0, <1>4, <2>5, <3>1, <3>2
  <2>6. CASE t \notin {Close, Newline, Open, Quote}
    <3>1. reader_next /\ Took(read_atom(t), stack)
      BY <2>1, <2>6, Zenon DEF read_form
    <3>2. Weight(read_atom(t)) = 0
      BY AtomIs
    <3> QED  BY <1>4, <2>6, <3>1, <3>2
  <2> QED  BY <2>2, <2>3, <2>4, <2>5, <2>6
<1>6. CASE stack # <<>>
  <2>1. read_list(t)
    BY <1>6
  <2> DEFINE lists == Front(stack)
             l == Top
  <2>2. /\ GoodStack(lists) /\ GoodForms(l.forms) /\ l = [forms |-> l.forms, is_list |-> l.is_list]
        /\ Vectors(l.forms) \in Int /\ l = Last(stack)
    BY <1>6, TopIs DEF Top
  <2> HIDE DEF lists, l
  <2>3. CASE t = Close
    <3>1. CloseList
      BY <1>0, <2>1, <2>3, Zenon DEF read_list
    <3> DEFINE f == [type |-> "LIST", forms |-> l.forms, vectors |-> Vectors(l.forms)]
    <3>2. CASE IsPair(Top.forms) \/ Top.is_list \/ OnLastLine
      <4>1. reader_next /\ Took(f, lists)
        BY <3>1, <3>2, Zenon DEF CloseList, lists, l
      <4>2. offset' = offset + 1
        BY <4>1 DEF reader_next
      <4>3. Weight(f) = Vectors(l.forms)
        BY DEF Weight
      <4> HIDE DEF f
      <4>4. CASE lists = <<>>
        <5>1. stack' = <<>>
          BY <4>1, <4>4, Zenon DEF Took
        <5> QED  BY <5>1 DEF Turn
      <4>5. CASE lists # <<>>
        <5>1. PICK m : Inner(m) = Inner(Last(lists)) + Weight(f) /\ stack' = Append(Front(lists), m)
          BY <2>2, <4>1, <4>3, <4>5, TookTurn
        <5>2. Inner(Last(lists)) \in Int
          <6>1. Vectors(Last(lists).forms) \in Int
            BY <2>2, <4>5, TopIs
          <6> QED  BY <6>1 DEF Inner, Allocated
        <5>3. Vectors(l.forms) = Inner(l) + Allocated(l.forms) /\ Allocated(l.forms) \in {0, 1} /\ Inner(l) \in Int
          BY <2>2 DEF Inner, Allocated
        <5> DEFINE a == Allocated(l.forms)
        <5> HIDE DEF a
        <5>4. a \in {0, 1} /\ Inner(m) = Inner(Last(lists)) + Inner(l) + a
          BY <4>3, <5>1, <5>2, <5>3 DEF a
        <5>5. Inner(m) = Inner(Last(Front(stack))) + Inner(Last(stack)) + a
          BY <2>2, <5>4 DEF lists
        <5>6. stack' = Append(Front(Front(stack)), m) /\ Front(stack) # <<>>
          BY <4>5, <5>1 DEF lists
        <5> QED  BY <1>6, <2>3, <4>2, <5>4, <5>5, <5>6 DEF Turn
      <4> QED  BY <4>4, <4>5
    <3>3. CASE ~ (IsPair(Top.forms) \/ Top.is_list \/ OnLastLine)
      <4>1. Raise(PAIR, Vectors(l.forms), lists)
        BY <3>1, <3>3, Zenon DEF CloseList, lists, l
      <4> QED  BY <1>3, <4>1
    <3> QED  BY <3>2, <3>3
  <2>4. CASE t = Newline
    BY <1>0, <1>2, <2>1, <2>4, Zenon DEF read_list
  <2>5. CASE t \notin {Close, Newline} /\ reader_eof
    BY <1>3, <2>1, <2>5, Zenon DEF read_list
  <2>6. CASE t = Open /\ ~ reader_eof
    BY <1>0, <1>1, <2>1, <2>6, Zenon DEF read_list
  <2>7. CASE t = Quote /\ ~ reader_eof
    <3> DEFINE m == [l EXCEPT !.is_list = TRUE]
    <3>1. stack' = Append(lists, m) /\ offset' = offset + 1
      BY <1>0, <2>1, <2>7, Zenon DEF read_list, lists, l, reader_next
    <3>2. m.forms = l.forms
      BY <2>2
    <3> HIDE DEF m
    <3>3. Inner(m) = Inner(l)
      BY <3>2 DEF Inner
    <3>4. Inner(m) = Inner(Last(stack)) /\ stack' = Append(Front(stack), m)
      BY <2>2, <3>1, <3>3 DEF lists
    <3> QED  BY <1>0, <1>6, <2>7, <3>1, <3>4 DEF Turn
  <2>8. CASE t \notin {Close, Newline, Open, Quote} /\ ~ reader_eof
    <3>1. reader_next /\ Took(read_atom(t), stack)
      BY <2>1, <2>8, Zenon DEF read_list
    <3>2. Weight(read_atom(t)) = 0
      BY AtomIs
    <3> QED  BY <1>4, <2>8, <3>1, <3>2
  <2> QED  BY <2>3, <2>4, <2>5, <2>6, <2>7, <2>8
<1> QED  BY <1>5, <1>6

LEMMA OpenListLive ==
    ASSUME offset \in Nat, GoodStack(stack), live = Held(stack), result = NONE, OpenList
    PROVE  LiveAfter
<1> DEFINE l == [forms |-> <<>>, is_list |-> FALSE]
<1>1. /\ stack' = Append(stack, l) /\ offset' = offset + 1 /\ result' = result /\ live' = live
  BY DEF OpenList, reader_next
<1>2. GoodForms(<<>>) /\ Vectors(<<>>) = 0
  <2>1. IsSeq(<<>>) /\ Len(<<>>) = 0
    BY NothingHeld DEF GoodStack
  <2>2. GoodForms(<<>>)
    BY <2>1 DEF GoodForms
  <2>3. Weight(NONE) \in Int
    BY DEF Weight, NONE
  <2> QED  BY <2>2, <2>3, VectorsAre
<1>3. l.forms = <<>> /\ l = [forms |-> l.forms, is_list |-> l.is_list]
  OBVIOUS
<1> HIDE DEF l
<1>4. GoodStack(stack') /\ stack' # <<>> /\ Held(stack') = Held(stack) + Vectors(l.forms)
  BY <1>1, <1>2, <1>3, PushList
<1>5. Held(stack) \in Int
  BY HeldIs
<1> QED  BY <1>1, <1>2, <1>3, <1>4, <1>5 DEF LiveAfter, NONE

\* Taking a form that the lists do not hold yet.
LEMMA TookLive ==
    ASSUME offset \in Nat, offset' = offset + 1, NEW form, NEW lists, GoodStack(lists), result = NONE,
           Weight(form) \in Int, live = Held(lists) + Weight(form), Took(form, lists),
           form.type # "NONE", form.type # "ERROR", form.type # "LIST" => Weight(form) = 0
    PROVE  LiveAfter
<1>1. /\ lists = <<>> => stack' = <<>> /\ result' = form /\ live' = Weight(form)
      /\ lists # <<>> => GoodStack(stack') /\ stack' # <<>> /\ result' = result /\ live' = Held(stack')
  BY TookKeeps
<1>2. CASE lists = <<>>
  <2>1. form # NONE
    BY DEF NONE
  <2> QED  BY <1>1, <1>2, <2>1, NothingHeld DEF LiveAfter
<1>3. CASE lists # <<>>
  <2>1. live' \in Int
    BY <1>1, <1>3, HeldIs
  <2>2. NONE.type = "NONE"
    BY DEF NONE
  <2> QED  BY <1>1, <1>3, <2>1, <2>2 DEF LiveAfter
<1> QED  BY <1>2, <1>3

LEMMA RaiseLive ==
    ASSUME offset \in Nat, offset' = offset, NEW freed \in Int, NEW outer, GoodStack(outer),
           live = Held(outer) + freed, NEW kind, Raise(kind, freed, outer)
    PROVE  LiveAfter
<1>1. stack' = <<>> /\ result' = lison_raise(kind) /\ live' = 0
  BY RaiseFrees
<1>2. result'.type = "ERROR" /\ result' # NONE
  BY <1>1 DEF lison_raise, NONE
<1> QED  BY <1>1, <1>2, NothingHeld DEF LiveAfter

LEMMA ReadListLive ==
    ASSUME offset \in Nat, GoodStack(stack), live = Held(stack), result = NONE, stack # <<>>,
           NEW t, read_list(t)
    PROVE  LiveAfter
<1>0. Close # Newline /\ Open # Newline /\ Quote # Newline /\ Close # Open /\ Close # Quote /\ Open # Quote
  BY DEF Newline, Close, Open, Quote
<1> DEFINE lists == Front(stack)
           l == Top
<1>1. /\ GoodStack(lists) /\ GoodForms(l.forms) /\ l = [forms |-> l.forms, is_list |-> l.is_list]
      /\ Held(stack) = Held(lists) + Vectors(l.forms)
      /\ Held(lists) \in Int /\ Vectors(l.forms) \in Int
  BY TopIs DEF Top
<1> HIDE DEF lists, l
<1>2. CASE t = Close
  <2>1. CloseList
    BY <1>0, <1>2, Zenon DEF read_list
  <2> DEFINE f == [type |-> "LIST", forms |-> l.forms, vectors |-> Vectors(l.forms)]
  <2>2. CASE IsPair(Top.forms) \/ Top.is_list \/ OnLastLine
    <3>1. reader_next /\ Took(f, lists)
      BY <2>1, <2>2, Zenon DEF CloseList, lists, l
    <3>2. offset' = offset + 1
      BY <3>1 DEF reader_next
    <3>3. Weight(f) = Vectors(l.forms) /\ f.type = "LIST"
      BY DEF Weight
    <3> HIDE DEF f
    <3> QED  BY <1>1, <3>1, <3>2, <3>3, TookLive
  <2>3. CASE ~ (IsPair(Top.forms) \/ Top.is_list \/ OnLastLine)
    <3>1. Raise(PAIR, Vectors(l.forms), lists) /\ offset' = offset
      BY <2>1, <2>3, Zenon DEF CloseList, lists, l
    <3> QED  BY <1>1, <3>1, RaiseLive
  <2> QED  BY <2>2, <2>3
<1>3. CASE t = Newline
  <2>1. SkipNewline
    BY <1>0, <1>3, Zenon DEF read_list
  <2>2. UNCHANGED <<stack, result, live>> /\ offset' = offset + 1
    BY <2>1 DEF SkipNewline, reader_next
  <2>3. live \in Int /\ NONE.type = "NONE"
    BY HeldIs DEF NONE
  <2> QED  BY <2>2, <2>3 DEF LiveAfter
<1>4. CASE t \notin {Close, Newline} /\ reader_eof
  <2>1. Raise(EOF, Allocated(l.forms), lists) /\ offset' = offset
    BY <1>0, <1>4, Zenon DEF read_list, lists, l
  <2>2. /\ stack' = <<>> /\ result' = lison_raise(EOF) /\ live' = live - Allocated(l.forms) - Held(lists)
    BY <2>1, Zenon DEF Raise, Held
  <2>3. live' \in Int /\ live' = Inner(Last(stack))
    <3>1. Allocated(l.forms) \in {0, 1} /\ live = Held(lists) + Vectors(l.forms)
      BY <1>1 DEF Allocated
    <3>2. live' = Vectors(l.forms) - Allocated(l.forms) /\ live' \in Int
      BY <1>1, <2>2, <3>1
    <3>3. l = Last(stack)
      BY DEF l, Top
    <3> QED  BY <3>2, <3>3 DEF Inner
  <2>4. result'.type = "ERROR" /\ result' # NONE /\ result'.kind = EOF
    BY <2>2 DEF lison_raise, NONE
  <2> QED  BY <1>4, <2>1, <2>2, <2>3, <2>4, NothingHeld DEF LiveAfter
<1>5. CASE t = Open /\ ~ reader_eof
  <2>1. OpenList
    BY <1>0, <1>5, Zenon DEF read_list
  <2> QED  BY <2>1, OpenListLive
<1>6. CASE t = Quote /\ ~ reader_eof
  <2> DEFINE m == [l EXCEPT !.is_list = TRUE]
  <2>1. stack' = Append(lists, m) /\ offset' = offset + 1 /\ UNCHANGED <<result, live>>
    BY <1>0, <1>6, Zenon DEF read_list, lists, l, reader_next
  <2>2. m.forms = l.forms /\ m = [forms |-> m.forms, is_list |-> m.is_list]
    <3> DEFINE f == l.forms
               b == l.is_list
    <3>1. l = [forms |-> f, is_list |-> b]
      BY <1>1
    <3> HIDE DEF f, b
    <3>2. m = [forms |-> f, is_list |-> TRUE]
      BY <3>1, MarkKeeps
    <3>3. f = l.forms
      BY DEF f
    <3> HIDE DEF m
    <3> QED  BY <3>2, <3>3
  <2>5. GoodForms(m.forms) /\ Vectors(m.forms) = Vectors(l.forms)
    BY <1>1, <2>2
  <2> HIDE DEF m
  <2>6. GoodStack(stack') /\ stack' # <<>> /\ Held(stack') = Held(lists) + Vectors(m.forms)
    <3>1. GoodStack(lists) /\ GoodForms(m.forms) /\ m = [forms |-> m.forms, is_list |-> m.is_list]
          /\ stack' = Append(lists, m)
      BY <1>1, <2>1, <2>2, <2>5
    <3> QED  BY ONLY <3>1, PushList
  <2>3. GoodStack(stack') /\ stack' # <<>> /\ Held(stack') = Held(lists) + Vectors(l.forms)
    BY <2>5, <2>6
  <2>4. NONE.type = "NONE"
    BY DEF NONE
  <2> QED  BY <1>1, <2>1, <2>3, <2>4 DEF LiveAfter
<1>7. CASE t \notin {Close, Newline, Open, Quote} /\ ~ reader_eof
  <2>1. reader_next /\ Took(read_atom(t), stack)
    BY <1>7, Zenon DEF read_list
  <2>2. offset' = offset + 1
    BY <2>1 DEF reader_next
  <2>3. Weight(read_atom(t)) = 0 /\ read_atom(t).type # "NONE" /\ read_atom(t).type # "ERROR"
    BY AtomIs
  <2>4. live = Held(stack) + Weight(read_atom(t)) /\ Weight(read_atom(t)) \in Int
    BY <1>1, <2>3
  <2> QED  BY <2>1, <2>2, <2>3, <2>4, TookLive
<1> QED  BY <1>2, <1>3, <1>4, <1>5, <1>6, <1>7

LEMMA ReadFormLive ==
    ASSUME offset \in Nat, stack = <<>>, live = 0, result = NONE, NEW t, read_form(t)
    PROVE  LiveAfter
<1>1. /\ Close # Newline /\ Open # Newline /\ Quote # Newline /\ Close # Open /\ Close # Quote /\ Open # Quote
      /\ GoodStack(stack) /\ live = Held(stack) /\ NONE.type = "NONE"
  BY NothingHeld DEF Newline, Close, Open, Quote, NONE
<1>2. CASE t = Open
  <2>1. OpenList
    BY <1>1, <1>2, Zenon DEF read_form
  <2> QED  BY <1>1, <2>1, OpenListLive
<1>3. CASE t = Close
  <2>1. Raise(EOF, 0, <<>>) /\ offset' = offset
    BY <1>1, <1>3, Zenon DEF read_form
  <2>2. live = Held(<<>>) + 0
    BY <1>1
  <2> QED  BY <2>1, <2>2, NothingHeld, RaiseLive
<1>4. CASE t = Newline
  <2>1. SkipNewline
    BY <1>1, <1>4, Zenon DEF read_form
  <2>2. UNCHANGED <<stack, result, live>> /\ offset' = offset + 1
    BY <2>1 DEF SkipNewline, reader_next
  <2> QED  BY <1>1, <2>2 DEF LiveAfter
<1>5. CASE t = Quote
  <2> DEFINE f == [type |-> "QUOTE"]
  <2>1. reader_next /\ Took(f, stack)
    BY <1>1, <1>5, Zenon DEF read_form
  <2>2. offset' = offset + 1
    BY <2>1 DEF reader_next
  <2>3. Weight(f) = 0 /\ f.type = "QUOTE"
    BY DEF Weight
  <2> HIDE DEF f
  <2>4. live = Held(stack) + Weight(f) /\ Weight(f) \in Int /\ f.type # "NONE" /\ f.type # "ERROR"
    BY <1>1, <2>3
  <2> QED  BY <1>1, <2>1, <2>2, <2>3, <2>4, TookLive
<1>6. CASE t \notin {Close, Newline, Open, Quote}
  <2>1. reader_next /\ Took(read_atom(t), stack)
    BY <1>6, Zenon DEF read_form
  <2>2. offset' = offset + 1
    BY <2>1 DEF reader_next
  <2>3. Weight(read_atom(t)) = 0 /\ read_atom(t).type # "NONE" /\ read_atom(t).type # "ERROR"
    BY AtomIs
  <2>4. live = Held(stack) + Weight(read_atom(t)) /\ Weight(read_atom(t)) \in Int
    BY <1>1, <2>3
  <2> QED  BY <1>1, <2>1, <2>2, <2>3, <2>4, TookLive
<1> QED  BY <1>2, <1>3, <1>4, <1>5, <1>6

\* After the first form ended with the tokens, the second one allocates nothing.
LEMMA PastTheEnd ==
    ASSUME offset \in Nat, live \in Int, GoodStack(stack), result = NONE, Behind(stack),
           NEW t, IF stack = <<>> THEN read_form(t) ELSE read_list(t)
    PROVE  /\ offset' \in {offset, offset + 1} /\ GoodStack(stack') /\ live' = live
           /\ result' # NONE => stack' = <<>>
           /\ result' = NONE => stack' = <<>> \/ (Front(stack') = <<>> /\ Last(stack').forms = <<>>)
<1>1. /\ Close # Newline /\ Open # Newline /\ Quote # Newline /\ Close # Open /\ Close # Quote /\ Open # Quote
      /\ GoodStack(<<>>) /\ Held(<<>>) = 0 /\ reader_eof
  BY NothingHeld DEF Newline, Close, Open, Quote, Behind
<1>2. Vectors(<<>>) = 0 /\ Allocated(<<>>) = 0 /\ GoodForms(<<>>)
  <2>1. IsSeq(<<>>) /\ Len(<<>>) = 0
    BY NothingHeld DEF GoodStack
  <2>2. GoodForms(<<>>) /\ Weight(NONE) \in Int
    BY <2>1 DEF GoodForms, Weight, NONE
  <2> QED  BY <2>2, VectorsAre DEF Allocated
<1>3. ASSUME NEW kind, Raise(kind, 0, <<>>), UNCHANGED offset
      PROVE  stack' = <<>> /\ live' = live /\ result' # NONE /\ offset' = offset
  <2>1. stack' = <<>> /\ result' = lison_raise(kind) /\ live' = live - 0 - Held(<<>>)
    BY <1>3, Zenon DEF Raise, Held
  <2>2. lison_raise(kind).type = "ERROR" /\ NONE.type = "NONE"
    BY DEF lison_raise, NONE
  <2> QED  BY <1>1, <1>3, <2>1, <2>2
<1>4. ASSUME NEW form, form # NONE, reader_next, Took(form, <<>>)
      PROVE  stack' = <<>> /\ live' = live /\ result' # NONE /\ offset' = offset + 1
  BY <1>4, Zenon DEF Took, reader_next
<1>5. CASE stack = <<>>
  <2>1. read_form(t)
    BY <1>5
  <2>2. CASE t = Open
    <3> DEFINE l == [forms |-> <<>>, is_list |-> FALSE]
    <3>1. OpenList
      BY <1>1, <2>1, <2>2, Zenon DEF read_form
    <3>2. stack' = Append(<<>>, l) /\ offset' = offset + 1 /\ live' = live /\ result' = result
      BY <1>5, <3>1 DEF OpenList, reader_next
    <3>3. l.forms = <<>> /\ l = [forms |-> l.forms, is_list |-> l.is_list]
      OBVIOUS
    <3> HIDE DEF l
    <3>4. GoodStack(stack') /\ stack' # <<>>
      BY <1>1, <1>2, <3>2, <3>3, PushList
    <3>5. Longer(stack', <<>>, l)
      BY <1>1, <3>2, Pushed DEF GoodStack
    <3>6. IsSeq(stack') /\ Len(stack') = 1 /\ stack'[1] = l
      BY <3>5 DEF Longer
    <3> DEFINE s == stack'
               f == Front(s)
    <3>7. IsSeq(s) /\ s # <<>> /\ f = Front(s)
      BY <3>4, <3>6
    <3> HIDE DEF f, s
    <3>8. IsSeq(f) /\ Len(s) = Len(f) + 1 /\ Len(f) \in Nat /\ Last(s) = s[Len(s)]
      BY <3>7, Popped
    <3>9. f = <<>> /\ Last(s) = l
      <4>1. Len(f) = 0
        BY <3>6, <3>8 DEF s
      <4> QED  BY <3>6, <3>8, <4>1, SeqIs DEF s
    <3>10. Front(stack') = <<>> /\ Last(stack').forms = <<>>
      BY <3>3, <3>9 DEF f, s
    <3> QED  BY <3>2, <3>4, <3>10
  <2>3. CASE t = Close
    <3>1. Raise(EOF, 0, <<>>) /\ UNCHANGED offset
      BY <1>1, <2>1, <2>3, Zenon DEF read_form
    <3> QED  BY <1>1, <1>3, <3>1
  <2>4. CASE t = Newline
    <3>1. SkipNewline
      BY <1>1, <2>1, <2>4, Zenon DEF read_form
    <3>2. UNCHANGED <<stack, result, live>> /\ offset' = offset + 1
      BY <3>1 DEF SkipNewline, reader_next
    <3> QED  BY <1>1, <1>5, <3>2
  <2>5. CASE t = Quote
    <3> DEFINE f == [type |-> "QUOTE"]
    <3>1. reader_next /\ Took(f, <<>>)
      BY <1>1, <1>5, <2>1, <2>5, Zenon DEF read_form
    <3>2. f # NONE
      <4>1. f.type # NONE.type
        BY DEF NONE
      <4> QED  BY <4>1
    <3> HIDE DEF f
    <3> QED  BY <1>1, <1>4, <3>1, <3>2
  <2>6. CASE t \notin {Close, Newline, Open, Quote}
    <3>1. reader_next /\ Took(read_atom(t), <<>>)
      BY <1>5, <2>1, <2>6, Zenon DEF read_form
    <3>2. read_atom(t) # NONE
      <4>1. read_atom(t).type # NONE.type
        BY AtomIs DEF NONE
      <4> QED  BY <4>1
    <3> QED  BY <1>1, <1>4, <3>1, <3>2
  <2> QED  BY <2>2, <2>3, <2>4, <2>5, <2>6
<1>6. CASE stack # <<>>
  <2>1. read_list(t) /\ Front(stack) = <<>> /\ Top.forms = <<>>
    BY <1>6 DEF Behind, Top
  <2>2. CASE t = Close
    <3>1. CloseList
      BY <1>1, <2>1, <2>2, Zenon DEF read_list
    <3> DEFINE f == [type |-> "LIST", forms |-> Top.forms, vectors |-> Vectors(Top.forms)]
    <3>2. CASE IsPair(Top.forms) \/ Top.is_list \/ OnLastLine
      <4>1. reader_next /\ Took(f, <<>>)
        BY <2>1, <3>1, <3>2, Zenon DEF CloseList
      <4>2. f # NONE
        <5>1. f.type # NONE.type
          BY DEF NONE
        <5> QED  BY <5>1
      <4> HIDE DEF f
      <4> QED  BY <1>1, <1>4, <4>1, <4>2
    <3>3. CASE ~ (IsPair(Top.forms) \/ Top.is_list \/ OnLastLine)
      <4>1. Raise(PAIR, Vectors(<<>>), <<>>) /\ UNCHANGED offset
        BY <2>1, <3>1, <3>3, Zenon DEF CloseList
      <4> QED  BY <1>1, <1>2, <1>3, <4>1
    <3> QED  BY <3>2, <3>3
  <2>3. CASE t = Newline
    <3>1. SkipNewline
      BY <1>1, <2>1, <2>3, Zenon DEF read_list
    <3>2. UNCHANGED <<stack, result, live>> /\ offset' = offset + 1
      BY <3>1 DEF SkipNewline, reader_next
    <3> QED  BY <1>1, <2>1, <3>2 DEF Top
  <2>4. CASE t \notin {Close, Newline}
    <3>1. Raise(EOF, Allocated(<<>>), <<>>) /\ UNCHANGED offset
      BY <1>1, <2>1, <2>4, Zenon DEF read_list
    <3> QED  BY <1>1, <1>2, <1>3, <3>1
  <2> QED  BY <2>2, <2>3, <2>4
<1> QED  BY <1>5, <1>6

LEMMA ReadLive ==
    ASSUME offset \in Nat, GoodStack(stack), live = Held(stack), result = NONE,
           NEW t, IF stack = <<>> THEN read_form(t) ELSE read_list(t)
    PROVE  LiveAfter
<1>1. CASE stack = <<>>
  <2>1. read_form(t) /\ live = 0
    BY <1>1, NothingHeld
  <2> QED  BY <1>1, <2>1, ReadFormLive
<1>2. CASE stack # <<>>
  <2>1. read_list(t)
    BY <1>2
  <2> QED  BY <1>2, <2>1, ReadListLive
<1> QED  BY <1>1, <1>2

LEMMA LiveInit == Init => LiveInv
<1> SUFFICES ASSUME Init  PROVE LiveInv
  OBVIOUS
<1>1. offset = 0 /\ stack = <<>> /\ live = 0 /\ pc = "lex" /\ result = NONE /\ slots = <<>>
  BY DEF Init
<1>2. NONE.type = "NONE"
  BY DEF NONE
<1> QED  BY <1>1, <1>2, NothingHeld, EmptySeq DEF LiveInv

\* A read leaves the lists where memory opens them.
LEMMA ReadMemory ==
    ASSUME tokens \in Seq(Seq(STRING)), slots \in Seq(Marks), offset \in Nat, offset <= Len(memory),
           GoodStack(stack), Spans(memory, stack, offset), tokens' = tokens, NEW t \in reader_current,
           slots' = IF offset < Len(memory) THEN slots ELSE Append(slots, t),
           IF stack = <<>> THEN read_form(t) ELSE read_list(t), offset' \in {offset, offset + 1}
    PROVE  /\ slots' \in Seq(Marks) /\ Agree(memory, memory', offset)
           /\ offset' \in Nat /\ offset <= offset' /\ offset' <= Len(memory')
           /\ Spans(memory', stack', offset')
<1> DEFINE us == memory'
<1>1. /\ slots' \in Seq(Marks) /\ Agree(memory, us, offset) /\ us[offset + 1] = t
      /\ Len(us) \in Nat /\ offset + 1 <= Len(us) /\ offset + 1 \in DOMAIN us
  BY MemoryRead, Zenon
<1>2. Turn(t) /\ IsSeq(stack)
  BY ReadTurn DEF GoodStack
<1> HIDE DEF us
<1>3. Spans(us, stack, offset)
  BY <1>1, SpanSame DEF Spans
<1>4. Spans(us, stack', offset')
  BY <1>1, <1>2, <1>3, TurnSpans
<1>5. offset' \in Nat /\ offset <= offset' /\ offset' <= Len(us)
  BY <1>1
<1> QED  BY <1>1, <1>4, <1>5 DEF us

LEMMA LiveNext == LexInv /\ LiveInv /\ [Next]_lisonVars => LiveInv'
<1> SUFFICES ASSUME LexInv, LiveInv, [Next]_lisonVars  PROVE LiveInv'
  OBVIOUS
<1>1. /\ offset \in Nat /\ GoodStack(stack) /\ live \in Int /\ Held(stack) \in Int /\ slots \in Seq(Marks)
      /\ pc # "lex" => tokens \in Seq(Seq(STRING)) /\ Len(tokens) \in Nat
  <2>1. offset \in Nat /\ GoodStack(stack) /\ live \in Int /\ slots \in Seq(Marks)
    BY DEF LiveInv
  <2>2. Held(stack) \in Int
    BY <2>1, HeldIs
  <2>3. pc # "lex" => tokens \in Seq(Seq(STRING))
    BY DEF LexInv
  <2> QED  BY <2>1, <2>2, <2>3, LenProperties
<1>2. NONE.type = "NONE" /\ NOLIST # NOQUOTE
  BY Zenon DEF NONE, NOLIST, NOQUOTE
<1>3. CASE Lex
  <2>1. pc = "lex" /\ UNCHANGED <<pc, slots, offset, stack, result, live>>
    BY <1>3, Zenon DEF Lex
  <2> QED  BY <1>2, <2>1 DEF LiveInv
<1>4. CASE LexEnd
  <2>1. pc = "lex" /\ pc' = "quote" /\ UNCHANGED <<slots, offset, stack, result, live>>
    BY <1>4, Zenon DEF LexEnd
  <2>2. stack = <<>> /\ result = NONE /\ live = 0 /\ slots = <<>> /\ offset = 0
    BY <2>1 DEF LiveInv
  <2>3. Spans(memory', stack', offset')
    BY <2>1, <2>2, SpansNone
  <2>4. 0 <= Len(memory')
    <3>1. tokens' \in Seq(Seq(STRING))
      <4>1. LexInv'
        BY LexNext, Zenon
      <4> QED  BY <2>1, <4>1 DEF LexInv
    <3>2. memory' = tokens' \o <<>>
      BY <2>1, <2>2 DEF memory
    <3>3. Len(memory') \in Nat
      BY <3>1, <3>2
    <3> QED  BY <3>3
  <2> QED  BY <1>2, <2>1, <2>2, <2>3, <2>4, NothingHeld DEF LiveInv
<1>5. CASE Read
  <2>1. /\ pc \in {"quote", "root"} /\ result = NONE /\ pc' = pc /\ tokens' = tokens
        /\ \E t \in reader_current :
              /\ slots' = IF offset < Len(memory) THEN slots ELSE Append(slots, t)
              /\ IF stack = <<>> THEN read_form(t) ELSE read_list(t)
    BY <1>5, Zenon DEF Read
  <2>2. PICK t \in reader_current :
              /\ slots' = IF offset < Len(memory) THEN slots ELSE Append(slots, t)
              /\ IF stack = <<>> THEN read_form(t) ELSE read_list(t)
    BY <2>1
  <2>3. pc # "lex" /\ offset <= Len(memory) /\ Spans(memory, stack, offset) /\ DOMAIN memory = 1 .. Len(memory)
    BY <1>1, <2>1, MemoryIs DEF LiveInv
  <2>4. ASSUME offset' \in {offset, offset + 1}
        PROVE  /\ slots' \in Seq(Marks) /\ Agree(memory, memory', offset)
               /\ offset' \in Nat /\ offset <= offset' /\ offset' <= Len(memory')
               /\ Spans(memory', stack', offset')
    BY ONLY <1>1, <2>1, <2>2, <2>3, <2>4, ReadMemory
  <2>5. ASSUME offset' \in {offset, offset + 1}, NEW n, LeftIn(memory, Len(tokens), offset, n)
        PROVE  LeftIn(memory', Len(tokens'), offset', n)
    <3> DEFINE us == memory'
               b == offset'
               a == Len(tokens)
    <3>1. b \in Nat /\ offset <= b /\ Agree(memory, us, offset) /\ LeftIn(memory, a, offset, n) /\ a \in Nat
      BY <1>1, <2>4, <2>5
    <3> HIDE DEF us, a, b
    <3>2. LeftIn(us, a, b, n)
      BY <1>1, <2>3, <3>1, LeftSame
    <3> QED  BY <2>1, <3>2 DEF us, a, b
  <2>6. CASE live = Held(stack)
    <3>1. LiveAfter
      BY <1>1, <2>1, <2>2, <2>6, ReadLive
    <3>2. /\ offset' \in {offset, offset + 1} /\ GoodStack(stack') /\ live' \in Int
          /\ result' # NONE => stack' = <<>>
          /\ result' = NONE => live' = Held(stack')
          /\ result' # NONE /\ result'.type \notin {"LIST", "ERROR"} => live' = 0
          /\ result'.type = "ERROR" =>
                live' = 0 \/ (reader_eof /\ stack # <<>> /\ live' = Inner(Last(stack)))
      BY <3>1 DEF LiveAfter
    <3>3. result' # NONE /\ result'.type # "LIST" => Left'
      <4>1. CASE live' = 0
        BY <4>1 DEF Left, LeftIn
      <4>2. CASE reader_eof /\ stack # <<>> /\ live' = Inner(Last(stack))
        <5>1. IsSeq(stack)
          BY <1>1 DEF GoodStack
        <5>2. LeftIn(memory, Len(tokens), offset, live')
          BY <1>1, <2>3, <4>2, <5>1, LeftHere
        <5> QED  BY <2>5, <3>2, <5>2 DEF Left
      <4> QED  BY <3>2, <4>1, <4>2
    <3>4. pc' \in {"quote", "root"} /\ pc' # "lex" /\ pc' # "done"
      BY <2>1
    <3>5. result'.type = "QUOTE" => live' = 0
      BY <1>2, <3>2
    <3>6. GoodStack(stack)' /\ (result = NONE => live = Held(stack))'
      BY <3>2
    <3>7. /\ slots' \in Seq(Marks) /\ offset' \in Nat /\ offset' <= Len(memory') /\ Spans(memory', stack', offset')
      BY <2>4, <3>2
    <3> QED  BY <1>2, <3>2, <3>3, <3>4, <3>5, <3>6, <3>7 DEF LiveInv
  <2>7. CASE live # Held(stack)
    <3>1. pc = "root" /\ Behind(stack) /\ Left
      BY <2>1, <2>7 DEF LiveInv
    <3>2. /\ offset' \in {offset, offset + 1} /\ GoodStack(stack') /\ live' = live
          /\ result' # NONE => stack' = <<>>
          /\ result' = NONE => stack' = <<>> \/ (Front(stack') = <<>> /\ Last(stack').forms = <<>>)
      BY <1>1, <2>1, <2>2, <3>1, PastTheEnd
    <3>3. Left'
      BY <2>5, <3>1, <3>2 DEF Left
    <3>4. (result = NONE => Behind(stack))'
      <4>1. reader_eof'
        BY <1>1, <2>1, <3>1, <3>2 DEF Behind, reader_eof
      <4> QED  BY <3>2, <4>1 DEF Behind
    <3>5. pc' = "root" /\ pc' # "lex" /\ pc' # "done" /\ pc' # "quote"
      BY <2>1, <3>1
    <3>6. /\ slots' \in Seq(Marks) /\ offset' \in Nat /\ offset' <= Len(memory') /\ Spans(memory', stack', offset')
      BY <2>4, <3>2
    <3> QED  BY <1>1, <3>2, <3>3, <3>4, <3>5, <3>6 DEF LiveInv
  <2> QED  BY <2>6, <2>7
<1>10. ASSUME UNCHANGED <<tokens, slots, offset, stack, live>>, pc # "lex", pc' # "lex", pc \in {"quote", "root"}
       PROVE  /\ slots' \in Seq(Marks) /\ offset' \in Nat /\ GoodStack(stack') /\ live' \in Int
              /\ offset' <= Len(memory') /\ Spans(memory', stack', offset')
              /\ (Left <=> Left') /\ (reader_eof <=> reader_eof')
  <2>1. memory' = memory
    BY <1>10 DEF memory
  <2>2. offset <= Len(memory) /\ Spans(memory, stack, offset)
    BY <1>10 DEF LiveInv
  <2> QED  BY <1>1, <1>10, <2>1, <2>2 DEF Left, reader_eof
<1>6. CASE Fault
  <2>1. /\ pc' = "fault" /\ pc \in {"quote", "root"} /\ UNCHANGED <<tokens, slots, offset, stack, live>>
        /\ UNCHANGED result
    BY <1>6, Zenon DEF Fault
  <2>2. result' # NONE => stack' = <<>>
    BY <2>1 DEF LiveInv
  <2> QED  BY <1>10, <2>1, <2>2 DEF LiveInv
<1>7. CASE FirstForm
  <2>1. pc = "quote" /\ result # NONE /\ UNCHANGED <<tokens, slots, offset, stack, live>>
    BY <1>7, Zenon DEF FirstForm
  <2>2. stack = <<>> /\ stack' = <<>>
    BY <2>1 DEF LiveInv
  <2>3. CASE result.type \in {"QUOTE", "ERROR"}
    <3>1. pc' = "root" /\ result' = NONE
      BY <1>7, <2>3, Zenon DEF FirstForm
    <3>2. live = 0 \/ Left
      BY <2>1, <2>3 DEF LiveInv
    <3>3. live' = Held(stack') \/ (Behind(stack)' /\ Left')
      <4>1. CASE live = 0
        BY <2>1, <2>2, <4>1, NothingHeld
      <4>2. CASE live # 0
        <5>1. Left
          BY <3>2, <4>2
        <5>2. PICK o \in Len(tokens) .. offset : TRUE
          BY <4>2, <5>1 DEF Left, LeftIn
        <5>3. reader_eof
          BY <1>1, <5>2 DEF reader_eof
        <5> QED  BY <1>10, <2>1, <2>2, <3>1, <5>1, <5>3 DEF Behind
      <4> QED  BY <4>1, <4>2
    <3> QED  BY <1>2, <1>10, <2>1, <2>2, <3>1, <3>3 DEF LiveInv
  <2>4. CASE result.type \notin {"QUOTE", "ERROR"}
    <3>1. pc' = "done" /\ result' = lison_raise(NOQUOTE)
      BY <1>7, <2>4, Zenon DEF FirstForm
    <3>2. result'.kind = NOQUOTE
      BY <3>1, Zenon DEF lison_raise
    <3> QED  BY <1>10, <2>1, <2>2, <3>1, <3>2 DEF LiveInv
  <2> QED  BY <2>3, <2>4
<1>8. CASE SecondForm
  <2>1. /\ pc = "root" /\ pc' = "done" /\ result # NONE /\ UNCHANGED <<tokens, slots, offset, stack, live>>
        /\ result' = IF result.type \in {"LIST", "ERROR"} THEN result ELSE lison_raise(NOLIST)
    BY <1>8, Zenon DEF SecondForm
  <2>2. stack' = <<>>
    BY <2>1 DEF LiveInv
  <2>3. result'.type = "ERROR" => Left'
    <3>1. CASE result.type = "LIST"
      BY <2>1, <3>1
    <3>2. CASE result.type # "LIST"
      <4>1. Left
        BY <2>1, <3>2 DEF LiveInv
      <4> QED  BY <1>10, <2>1, <4>1
    <3> QED  BY <3>1, <3>2
  <2> QED  BY <1>10, <2>1, <2>2, <2>3 DEF LiveInv
<1>9. CASE Comment \/ Returned \/ UNCHANGED lisonVars
  <2>1. UNCHANGED lisonVars
    BY <1>9, Zenon DEF Comment, Returned
  <2>2. UNCHANGED <<pc, tokens, slots, offset, stack, result, live>>
    BY <2>1 DEF lisonVars
  <2>3. /\ reader_eof' = reader_eof /\ memory' = memory /\ GoodStack(stack)' = GoodStack(stack)
        /\ Held(stack)' = Held(stack)
    BY <2>2 DEF reader_eof, memory
  <2>4. (Left' <=> Left) /\ (Behind(stack)' <=> Behind(stack)) /\ (Spans(memory, stack, offset)' <=> Spans(memory, stack, offset))
    BY <2>2, <2>3 DEF Left, Behind
  <2> QED  BY <2>2, <2>3, <2>4 DEF LiveInv
<1> QED  BY <1>3, <1>4, <1>5, <1>6, <1>7, <1>8, <1>9, Zenon DEF Next

\* An error that comes back through the lists around it frees what each of
\* them has read (parser.c:34-39, 50-56): when the call returns an error, no
\* vector is left but those of lists that were closed in the innermost list
\* that was open where the tokens end, whatever up to MaxOverrun slots past
\* the last token hold.
THEOREM LisonErrorFreesLists == Spec => []ErrorFreesLists
<1>1. LiveInv => ErrorFreesLists
  <2> SUFFICES ASSUME LiveInv, pc = "done", result.type = "ERROR", result.kind # NOQUOTE
               PROVE  live = 0 \/ LeftAtEnd(live)
    BY DEF ErrorFreesLists
  <2>1. Left
    BY DEF LiveInv
  <2> QED  BY <2>1, Zenon DEF Left, LeftIn, LeftAtEnd
<1> QED  BY <1>1, LexInit, LexNext, LiveInit, LiveNext, PTL DEF Spec

-----------------------------------------------------------------------------
(* The lengths of strings *)

Plain == \A i \in DOMAIN text : text[i] \notin {"#", "\r"}

\* No string goes on behind a line.
LEMMA EvenCut ==
    ASSUME text \in Seq(STRING), EvenQuotes, NEW n \in Nat, n <= Len(text),
           n = Len(text) \/ text[n + 1] = "\n"
    PROVE  ~ Quoted(text, n + 1)
<1>1. n \in 0 .. Len(text) /\ (n + 1) - 1 = n /\ ~ (0 = 1)
  OBVIOUS
<1>2. Count(text, "\"", 1, n) % 2 = 0
  BY <1>1, Zenon DEF EvenQuotes
<1> QED  BY <1>1, <1>2, Zenon DEF Quoted

\* Where no word goes on, there is no string.
LEMMA NoStringAt ==
    ASSUME text \in Seq(STRING), EvenQuotes, Plain, NEW i \in DOMAIN text, ~ InWord(text, i)
    PROVE  ~ Quoted(text, i)
<1>1. i - 1 \in Nat /\ i - 1 <= Len(text) /\ (i - 1) + 1 = i
  OBVIOUS
<1>2. CASE text[i] = "\n"
  BY <1>1, <1>2, EvenCut
<1>3. CASE text[i] # "\n"
  BY <1>3, InWords, Zenon DEF Plain
<1> QED  BY <1>2, <1>3

LEMMA NoStringFirst == ~ Quoted(text, 1)
<1>1. \A e : ~ OddBefore(text, e, 1)
  <2> SUFFICES ASSUME NEW e  PROVE ~ OddBefore(text, e, 1)
    OBVIOUS
  <2>1. Count(text, e, 1, 0) = 0 /\ 1 - 1 = 0
    BY CountNext
  <2> QED  BY <2>1 DEF OddBefore
<1> QED  BY <1>1, Zenon DEF Quoted, OddBefore

Mark(i) == text[i] = "\""

\* A word that begins with a quotation mark has another character.
LEMMA TwoQuotes ==
    ASSUME text \in Seq(STRING), EvenQuotes, Plain, NEW i \in DOMAIN text, Mark(i),
           ~ InWord(text, i - 1), ~ InWord(text, i + 1)
    PROVE  FALSE
<1>0. /\ DOMAIN text = 1 .. Len(text) /\ Len(text) \in Nat /\ i \in Nat /\ i - 1 \in Nat
      /\ (i - 1) + 1 = i /\ (i - 1) + 2 = i + 1
  OBVIOUS
<1>1. Quoted(text, i + 1) <=> ~ Quoted(text, i)
  <2> DEFINE n == i - 1
  <2>1. n \in Nat /\ Mark(n + 1) /\ n + 1 = i /\ n + 2 = i + 1
    BY <1>0, Zenon
  <2> HIDE DEF n
  <2>2. Quoted(text, n + 2) <=> IF Mark(n + 1) THEN ~ Quoted(text, n + 1) ELSE Quoted(text, n + 1)
    BY <2>1, QuotedNext, Zenon DEF Mark
  <2> QED  BY <2>1, <2>2, Zenon
<1>2. ~ Quoted(text, i + 1)
  <2>1. CASE i = Len(text)
    <3>1. i <= Len(text)
      BY <1>0, <2>1
    <3> QED  BY <1>0, <2>1, <3>1, EvenCut, Zenon
  <2>2. CASE i # Len(text)
    <3>1. i + 1 \in DOMAIN text
      BY <1>0, <2>2
    <3> QED  BY <3>1, NoStringAt
  <2> QED  BY <2>1, <2>2
<1>3. ~ Quoted(text, i)
  <2>1. CASE i = 1
    BY <2>1, NoStringFirst
  <2>2. CASE i # 1
    <3> DEFINE n == i - 2
    <3>1. i - 1 \in DOMAIN text /\ n \in Nat /\ n + 1 = i - 1 /\ n + 2 = i
      BY <1>0, <2>2
    <3>2. ~ Quoted(text, n + 1) /\ ~ Mark(n + 1)
      <4>1. ~ Quoted(text, i - 1)
        BY <3>1, NoStringAt
      <4>2. ~ Mark(i - 1)
        BY <3>1, InWords, Zenon DEF Mark
      <4> QED  BY <3>1, <4>1, <4>2, Zenon
    <3> HIDE DEF n
    <3>3. Quoted(text, n + 2) <=> IF Mark(n + 1) THEN ~ Quoted(text, n + 1) ELSE Quoted(text, n + 1)
      BY <3>1, QuotedNext, Zenon DEF Mark
    <3> QED  BY <3>1, <3>2, <3>3, Zenon
  <2> QED  BY <2>1, <2>2
<1> QED  BY <1>1, <1>2, <1>3, Zenon

\* What an atom is that has a length.
LEMMA StrIs ==
    ASSUME NEW t, read_atom(t).type = "STR"
    PROVE  t[1] = "\"" /\ read_atom(t).length = (Len(t) - 2) % SIZE
<1> DEFINE str == [type |-> "STR", token |-> t, length |-> (Len(t) - 2) % SIZE]
           P(x) == x = str \/ x.type \in {"NUMBER", "FLOAT", "NIL", "TRUE", "SYMBOL"}
           guard == t[1] = "\""
<1>1. ~ guard => read_atom(t).type \in {"NUMBER", "FLOAT", "NIL", "TRUE", "SYMBOL"}
  BY Zenon DEF read_atom, Atom
<1>2. /\ P(Atom("NUMBER", t)) /\ P(Atom("FLOAT", t)) /\ P(Atom("NIL", t)) /\ P(Atom("TRUE", t))
      /\ P(Atom("SYMBOL", t)) /\ P(str)
  BY DEF Atom
<1>3. str.length = (Len(t) - 2) % SIZE
  OBVIOUS
<1> HIDE DEF P
<1>4. P(read_atom(t))
  BY <1>2, Zenon DEF read_atom
<1>5. read_atom(t) = str
  <2> HIDE DEF str, guard
  <2> QED  BY <1>4 DEF P
<1> HIDE DEF str
<1> QED  BY <1>1, <1>3, <1>5, Zenon

\* A token that begins with a quotation mark is a word of two characters at
\* least, and no longer than the text.
LEMMA StringToken ==
    ASSUME text \in Seq(STRING), EvenQuotes, Plain, NEW i \in Starts(text),
           NEW t, t = TokenAt(text, i), t[1] = "\""
    PROVE  Len(t) \in 2 .. Len(text)
<1>1. i \in DOMAIN text /\ i \in Nat /\ DOMAIN text = 1 .. Len(text) /\ Len(text) \in Nat
  <2>1. i \in DOMAIN text
    BY Zenon DEF Starts
  <2>2. text \in Seq(STRING)
    BY Zenon
  <2> QED  BY ONLY <2>1, <2>2
<1>2. ASSUME ~ InWord(text, i), t = <<text[i]>>
      PROVE  FALSE
  <2>1. t[1] = text[i]
    BY ONLY <1>2
  <2> QED  BY <1>1, <1>2, <2>1, InWords, Zenon
<1>3. ASSUME t = <<"#", "t">>
      PROVE  FALSE
  <2>1. t[1] = "#"
    BY ONLY <1>3
  <2> QED  BY <2>1, Zenon
<1>4. PICK j \in i .. Len(text) : /\ \A k \in i .. j : InWord(text, k)
                                  /\ ~ InWord(text, j + 1) /\ ~ InWord(text, i - 1)
                                  /\ t = SubSeq(text, i, j)
  BY <1>2, <1>3, TokenIs, Zenon
<1>5. Len(t) = j - i + 1 /\ t[1] = text[i]
  <2>1. text \in Seq(STRING)
    BY Zenon
  <2>2. \A k \in i .. j : text[k] \in STRING
    BY ONLY <1>1, <2>1
  <2>3. /\ Len(SubSeq(text, i, j)) = j - i + 1
        /\ \A k \in 1 .. j - i + 1 : SubSeq(text, i, j)[k] = text[i + k - 1]
    BY ONLY <1>1, <2>2, SubSeqProperties
  <2>4. 1 \in 1 .. j - i + 1 /\ i + 1 - 1 = i
    BY ONLY <1>1
  <2> QED  BY ONLY <1>4, <2>3, <2>4
<1>6. j # i
  <2> SUFFICES ASSUME j = i  PROVE FALSE
    BY Zenon
  <2>1. Mark(i) /\ ~ InWord(text, i - 1) /\ ~ InWord(text, i + 1)
    BY <1>4, <1>5, Zenon DEF Mark
  <2> QED  BY <1>1, <2>1, TwoQuotes, Zenon
<1> QED  BY ONLY <1>1, <1>4, <1>5, <1>6

\* A remainder below the modulus.
LEMMA ModBelow ==
    ASSUME NEW m \in Nat, NEW x \in Nat, x < m
    PROVE  x % m = x
OBVIOUS

LEMMA StringsHold == LexInv => StringsInside
<1> SUFFICES ASSUME LexInv, pc = "quote", EvenQuotes, Plain,
                    NEW k \in DOMAIN tokens, read_atom(tokens[k]).type = "STR"
             PROVE  read_atom(tokens[k]).length < Len(tokens[k])
  BY Zenon DEF StringsInside, Plain
<1>1. /\ text \in Texts /\ text \in Seq(STRING) /\ Len(text) \in Nat /\ Len(text) < SIZE
      /\ tokens \in Seq(Seq(STRING)) /\ Lexed(tokens, text, Starts(text))
  BY LisonAssumption DEF LexInv
<1>2. PICK i \in Starts(text) : tokens[k] = TokenAt(text, i)
  BY <1>1 DEF Lexed
<1> DEFINE t == tokens[k]
<1>3. t[1] = "\"" /\ read_atom(t).length = (Len(t) - 2) % SIZE
  BY StrIs, Zenon
<1>4. Len(t) \in 2 .. Len(text)
  BY <1>1, <1>2, <1>3, StringToken, Zenon
<1>5. Len(t) - 2 \in Nat /\ Len(t) - 2 < SIZE /\ SIZE \in Nat /\ Len(t) \in Nat
  BY ONLY <1>1, <1>4, LisonAssumption
<1>6. (Len(t) - 2) % SIZE = Len(t) - 2
  BY ONLY <1>5, ModBelow
<1>7. read_atom(t).length = (Len(t) - 2) % SIZE
  BY <1>3, Zenon
<1> HIDE DEF t
<1> QED  BY ONLY <1>5, <1>6, <1>7 DEF t

-----------------------------------------------------------------------------
(* The ends of lists *)

\* A list has one end.
LEMMA MatchUnique ==
    ASSUME NEW ts, Len(ts) \in Nat, NEW k \in Nat, NEW c \in Match(ts, k), NEW e \in Match(ts, k)
    PROVE  c = e
<1>1. /\ c \in k + 1 .. Len(ts) /\ Depth(ts, c) < Depth(ts, k) /\ \A j \in k .. c - 1 : Depth(ts, j) >= Depth(ts, k)
      /\ e \in k + 1 .. Len(ts) /\ Depth(ts, e) < Depth(ts, k) /\ \A j \in k .. e - 1 : Depth(ts, j) >= Depth(ts, k)
  BY DEF Match
<1>2. Depth(ts, c) \in Int /\ Depth(ts, e) \in Int /\ Depth(ts, k) \in Int
  <2>1. c \in Nat /\ e \in Nat
    BY <1>1
  <2> QED  BY <2>1, DepthNext
<1>3. CASE c < e
  <2>1. c \in k .. e - 1
    BY <1>1, <1>3
  <2> QED  BY <1>1, <1>2, <2>1
<1>4. CASE e < c
  <2>1. e \in k .. c - 1
    BY <1>1, <1>4
  <2> QED  BY <1>1, <1>2, <2>1
<1> QED  BY <1>1, <1>3, <1>4

\* The end lies behind all that is above the beginning.
LEMMA MatchAfter ==
    ASSUME NEW ts, Len(ts) \in Nat, NEW k \in Nat, NEW o \in Nat, Above(ts, k, o), NEW c \in Match(ts, k)
    PROVE  c > o /\ c > k /\ c \in Nat /\ c <= Len(ts)
<1>1. c \in k + 1 .. Len(ts) /\ Depth(ts, c) < Depth(ts, k)
  BY DEF Match
<1>2. Depth(ts, c) \in Int /\ Depth(ts, k) \in Int
  BY <1>1, DepthNext
<1>3. ~ (c \in k .. o)
  BY <1>1, <1>2 DEF Above
<1> QED  BY <1>1, <1>3

LEMMA MatchHere ==
    ASSUME NEW ts, Len(ts) \in Nat, NEW k \in Nat, NEW o \in Nat, k <= o, o < Len(ts), Above(ts, k, o),
           Depth(ts, o + 1) < Depth(ts, k)
    PROVE  Match(ts, k) = {o + 1}
<1>1. (o + 1) - 1 = o /\ o + 1 \in k + 1 .. Len(ts)
  OBVIOUS
<1>2. o + 1 \in Match(ts, k)
  BY <1>1 DEF Match, Above
<1> QED  BY <1>2, MatchUnique

-----------------------------------------------------------------------------
(* The first tokens *)

AtQuote(ts, o) == \E q \in Solid(ts) : Solid(ts) \cap (1 .. o) = {q} /\ ts[q] = Quote

LEMMA OneRoot ==
    ASSUME NEW ts, Len(ts) \in Nat, DOMAIN ts = 1 .. Len(ts), NEW r \in Roots(ts), NEW k \in Roots(ts)
    PROVE  r = k
<1>1. /\ r \in 1 .. Len(ts) /\ ts[r] = Open /\ k \in 1 .. Len(ts) /\ ts[k] = Open
      /\ \E q \in Solid(ts) : q < r /\ Solid(ts) \cap (1 .. r) = {q, r}
      /\ \E q \in Solid(ts) : q < k /\ Solid(ts) \cap (1 .. k) = {q, k}
  BY DEF Roots, Lists
<1>2. PICK a \in Solid(ts) : a < r /\ Solid(ts) \cap (1 .. r) = {a, r}
  BY <1>1
<1>3. PICK b \in Solid(ts) : b < k /\ Solid(ts) \cap (1 .. k) = {b, k}
  BY <1>1
<1>4. Solid(ts) \subseteq 1 .. Len(ts) /\ r \in Solid(ts) /\ k \in Solid(ts)
  BY <1>1, FourMarks DEF Solid
<1> DEFINE S == Solid(ts)
<1> HIDE DEF S
<1>5. /\ S \subseteq 1 .. Len(ts) /\ r \in S /\ k \in S /\ a \in S /\ b \in S
      /\ S \cap (1 .. r) = {a, r} /\ S \cap (1 .. k) = {b, k} /\ a < r /\ b < k
  BY <1>2, <1>3, <1>4 DEF S
<1>6. CASE r < k
  <2>1. r \in 1 .. k /\ a \in 1 .. k
    BY <1>5, <1>6
  <2>2. r \in {b, k} /\ a \in {b, k}
    BY <1>5, <2>1
  <2> QED  BY <1>5, <1>6, <2>2
<1>7. CASE k < r
  <2>1. k \in 1 .. r /\ b \in 1 .. r
    BY <1>5, <1>7
  <2>2. k \in {a, r} /\ b \in {a, r}
    BY <1>5, <2>1
  <2> QED  BY <1>5, <1>7, <2>2
<1> QED  BY <1>5, <1>6, <1>7

LEMMA RootHere ==
    ASSUME NEW ts, Len(ts) \in Nat, DOMAIN ts = 1 .. Len(ts), NEW o \in Nat, o < Len(ts),
           AtQuote(ts, o), ts[o + 1] = Open
    PROVE  o + 1 \in Roots(ts)
<1>1. PICK q \in Solid(ts) : Solid(ts) \cap (1 .. o) = {q} /\ ts[q] = Quote
  BY DEF AtQuote
<1>2. o + 1 \in Solid(ts) /\ o + 1 \in Lists(ts) /\ q \in 1 .. o
  BY <1>1, FourMarks DEF Solid, Lists
<1>3. 1 .. o + 1 = (1 .. o) \cup {o + 1} /\ q < o + 1
  BY <1>2
<1>4. Solid(ts) \cap (1 .. o + 1) = {q, o + 1}
  BY <1>1, <1>2, <1>3
<1> QED  BY <1>1, <1>2, <1>3, <1>4 DEF Roots

\* The first token is no quote, or the second one begins no list.
LEMMA NoRoot ==
    ASSUME NEW ts, Len(ts) \in Nat, DOMAIN ts = 1 .. Len(ts), NEW o \in Nat, o < Len(ts),
           \/ Solid(ts) \cap (1 .. o) = {} /\ ts[o + 1] # Newline /\ ts[o + 1] # Quote
           \/ AtQuote(ts, o) /\ ts[o + 1] # Newline /\ ts[o + 1] # Open
    PROVE  Roots(ts) = {}
<1> SUFFICES ASSUME NEW k \in Roots(ts)  PROVE FALSE
  OBVIOUS
<1>1. /\ k \in 1 .. Len(ts) /\ ts[k] = Open
      /\ \E q \in Solid(ts) : q < k /\ ts[q] = Quote /\ Solid(ts) \cap (1 .. k) = {q, k}
  BY DEF Roots, Lists
<1>2. PICK q \in Solid(ts) : q < k /\ ts[q] = Quote /\ Solid(ts) \cap (1 .. k) = {q, k}
  BY <1>1
<1> DEFINE p == o + 1
           S == Solid(ts)
<1>3. S \subseteq 1 .. Len(ts) /\ p \in S /\ q \in S /\ k \in S /\ p \in Nat /\ p = o + 1
  BY <1>1, FourMarks DEF Solid
<1>4. S \cap (1 .. k) = {q, k} /\ q < k
  BY <1>2
<1>5. CASE S \cap (1 .. o) = {} /\ ts[p] # Quote
  <2> HIDE DEF S, p
  <2>1. q # p
    BY <1>2, <1>5
  <2>2. ~ (q \in 1 .. o)
    BY <1>3, <1>5
  <2>3. q > p
    BY <1>3, <2>1, <2>2
  <2>4. p \in 1 .. k
    BY <1>3, <1>4, <2>3
  <2>5. p \in {q, k}
    BY <1>3, <1>4, <2>4
  <2> QED  BY <1>3, <1>4, <2>3, <2>5
<1>6. CASE AtQuote(ts, o) /\ ts[p] # Open
  <2>1. PICK b \in S : S \cap (1 .. o) = {b}
    BY <1>6 DEF AtQuote
  <2> HIDE DEF S, p
  <2>2. p # k
    BY <1>1, <1>6
  <2>3. b \in 1 .. o /\ b < p
    BY <1>3, <2>1
  <2>4. CASE k > p
    <3>1. p \in 1 .. k /\ b \in 1 .. k
      BY <1>3, <2>3, <2>4
    <3>2. p \in {q, k} /\ b \in {q, k}
      BY <1>3, <1>4, <2>1, <3>1
    <3> QED  BY <1>3, <2>3, <2>4, <3>2
  <2>5. CASE k < p
    <3>1. k \in 1 .. o /\ q \in 1 .. o
      BY <1>3, <1>4, <2>5
    <3>2. k = b /\ q = b
      BY <1>3, <2>1, <3>1
    <3> QED  BY <1>3, <1>4, <3>2
  <2> QED  BY <1>3, <2>2, <2>4, <2>5
<1> QED  BY <1>5, <1>6

-----------------------------------------------------------------------------
(* Forms of a list *)

IsForm(ts, k, j) ==
    /\ ts[j] \notin {Newline, Quote, Close}
    /\ Depth(ts, j) = Depth(ts, k) + IF ts[j] = Open THEN 1 ELSE 0

\* The token behind those that were looked at.
LEMMA FormsNext ==
    ASSUME NEW ts, NEW k \in Nat, NEW e \in Nat, k < e
    PROVE  /\ Cardinality(Forms(ts, k, e)) \in Nat
           /\ IsForm(ts, k, e) => Cardinality(Forms(ts, k, e + 1)) = Cardinality(Forms(ts, k, e)) + 1
           /\ ~ IsForm(ts, k, e) => Forms(ts, k, e + 1) = Forms(ts, k, e)
           /\ HasQuote(ts, k, e + 1) => HasQuote(ts, k, e) \/ (ts[e] = Quote /\ Depth(ts, e) = Depth(ts, k))
           /\ HasQuote(ts, k, e) \/ (ts[e] = Quote /\ Depth(ts, e) = Depth(ts, k)) => HasQuote(ts, k, e + 1)
<1> DEFINE A == Forms(ts, k, e)
           B == Forms(ts, k, e + 1)
<1>1. (e + 1) - 1 = e /\ k + 1 .. e = (k + 1 .. e - 1) \cup {e} /\ e \notin k + 1 .. e - 1
  OBVIOUS
<1>2. A = {j \in k + 1 .. e - 1 : IsForm(ts, k, j)} /\ B = {j \in k + 1 .. e : IsForm(ts, k, j)}
  BY <1>1 DEF Forms, IsForm
<1>3. A \subseteq 1 .. e
  BY <1>2
<1>4. IsFiniteSet(A) /\ Cardinality(A) \in Nat
  <2> HIDE DEF A
  <2> QED  BY <1>3, FiniteBelow
<1>5. ASSUME IsForm(ts, k, e)
      PROVE  Cardinality(B) = Cardinality(A) + 1
  <2>1. B = A \cup {e} /\ e \notin A
    BY <1>1, <1>2, <1>5
  <2> HIDE DEF A, B
  <2> QED  BY <1>4, <2>1, FS_AddElement
<1>6. ASSUME ~ IsForm(ts, k, e)
      PROVE  B = A
  BY <1>1, <1>2, <1>6
<1>7. /\ HasQuote(ts, k, e + 1) => HasQuote(ts, k, e) \/ (ts[e] = Quote /\ Depth(ts, e) = Depth(ts, k))
      /\ HasQuote(ts, k, e) \/ (ts[e] = Quote /\ Depth(ts, e) = Depth(ts, k)) => HasQuote(ts, k, e + 1)
  <2> HIDE DEF A, B
  <2> QED  BY <1>1 DEF HasQuote
<1> QED  BY <1>4, <1>5, <1>6, <1>7

LEMMA FormsFirst ==
    ASSUME NEW ts, NEW k \in Nat
    PROVE  Cardinality(Forms(ts, k, k + 1)) = 0 /\ ~ HasQuote(ts, k, k + 1)
<1>1. k + 1 .. (k + 1) - 1 = {}
  OBVIOUS
<1>2. Forms(ts, k, k + 1) = {}
  BY <1>1 DEF Forms
<1> QED  BY <1>1, <1>2, FS_EmptySet DEF HasQuote

\* A list that was read, from m to c, is one form of the list around it.
LEMMA FormsOver ==
    ASSUME NEW ts, NEW k \in Nat, NEW m \in Nat, NEW c \in Nat, k < m, m < c, ts[m] = Open, ts[c] = Close,
           Depth(ts, m) = Depth(ts, k) + 1, Above(ts, m, c - 1)
    PROVE  /\ Cardinality(Forms(ts, k, m)) \in Nat
           /\ Cardinality(Forms(ts, k, c + 1)) = Cardinality(Forms(ts, k, m)) + 1
           /\ HasQuote(ts, k, c + 1) => HasQuote(ts, k, m)
           /\ HasQuote(ts, k, m) => HasQuote(ts, k, c + 1)
<1> DEFINE A == Forms(ts, k, m)
           B == Forms(ts, k, c + 1)
<1>1. (c + 1) - 1 = c /\ k + 1 .. c = (k + 1 .. m - 1) \cup (m .. c) /\ m \notin k + 1 .. m - 1
  OBVIOUS
<1>2. A = {j \in k + 1 .. m - 1 : IsForm(ts, k, j)} /\ B = {j \in k + 1 .. c : IsForm(ts, k, j)}
  BY <1>1 DEF Forms, IsForm
<1>3. IsForm(ts, k, m) /\ ts[m] # Quote
  BY FourMarks DEF IsForm
<1>4. ~ IsForm(ts, k, c) /\ ts[c] # Quote
  BY FourMarks DEF IsForm
<1>5. Depth(ts, k) \in Int /\ Depth(ts, m) \in Int
  BY DepthNext
<1>6. ASSUME NEW j \in m .. c, j # m, j # c
      PROVE  Depth(ts, j) > Depth(ts, k) /\ ~ IsForm(ts, k, j)
  <2> DEFINE i == j - 1
  <2>1. i \in Nat /\ i + 1 = j /\ i \in m .. c - 1 /\ j \in m .. c - 1 /\ j \in Nat
    BY <1>6
  <2>2. Depth(ts, j) >= Depth(ts, m) /\ Depth(ts, i) >= Depth(ts, m)
    BY <2>1 DEF Above
  <2>3. /\ Depth(ts, i) \in Int /\ Depth(ts, j) \in Int
        /\ ts[j] = Open => Depth(ts, j) = Depth(ts, i) + 1
    <3> HIDE DEF i
    <3>1. /\ Depth(ts, i) \in Int /\ Depth(ts, j) \in Int
          /\ Depth(ts, i + 1) = Depth(ts, i) + (IF ts[i + 1] = Open THEN 1 ELSE 0)
                                    - (IF ts[i + 1] = Close THEN 1 ELSE 0)
      BY <2>1, DepthNext
    <3> QED  BY <2>1, <3>1, FourMarks
  <2> HIDE DEF i
  <2> QED  BY <1>5, <2>2, <2>3 DEF IsForm
<1>7. B = A \cup {m} /\ m \notin A
  BY <1>1, <1>2, <1>3, <1>4, <1>6
<1>8. IsFiniteSet(A) /\ Cardinality(A) \in Nat
  <2>1. A \subseteq 1 .. m
    BY <1>2
  <2> HIDE DEF A
  <2> QED  BY <2>1, FiniteBelow
<1>9. Cardinality(B) = Cardinality(A) + 1
  <2> HIDE DEF A, B
  <2> QED  BY <1>7, <1>8, FS_AddElement
<1>10. HasQuote(ts, k, c + 1) => HasQuote(ts, k, m)
  <2> SUFFICES ASSUME NEW j \in k + 1 .. c, ts[j] = Quote, Depth(ts, j) = Depth(ts, k)
               PROVE  HasQuote(ts, k, m)
    BY <1>1 DEF HasQuote
  <2>1. j \in m .. c => FALSE
    BY <1>3, <1>4, <1>5, <1>6
  <2>2. j \in k + 1 .. m - 1
    BY <1>1, <2>1
  <2> QED  BY <2>2 DEF HasQuote
<1>11. HasQuote(ts, k, m) => HasQuote(ts, k, c + 1)
  BY <1>1 DEF HasQuote
<1> QED  BY <1>8, <1>9, <1>10, <1>11

-----------------------------------------------------------------------------
(* Open lists *)

Closed(ts, k, o) == \E c \in Match(ts, k) : c <= o /\ Sound(ts, k, c)

\* The lists at ks are open at o, each in the one before it, and each other
\* list since the first of them has ended, and is a pair if it has to be.
Nested(ts, ks, o) ==
    /\ ks \in Seq(Nat) /\ ks # <<>>
    /\ \A i \in 1 .. Len(ks) :
        /\ ks[i] \in Lists(ts) /\ ks[1] <= ks[i] /\ ks[i] <= o
        /\ Depth(ts, ks[i]) = Depth(ts, ks[1]) + i - 1
        /\ Above(ts, ks[i], o)
    /\ \A i \in 2 .. Len(ks) : ks[i - 1] < ks[i]
    /\ Depth(ts, o) = Depth(ts, ks[Len(ks)])
    /\ \A k \in Lists(ts) :
        ks[1] <= k /\ k <= o => Closed(ts, k, o) \/ \E i \in 1 .. Len(ks) : k = ks[i]

LEMMA ClosedNext ==
    ASSUME NEW ts, Len(ts) \in Nat, NEW k, NEW o \in Nat, Closed(ts, k, o)
    PROVE  Closed(ts, k, o + 1)
<1>1. PICK c \in Match(ts, k) : c <= o /\ Sound(ts, k, c)
  BY DEF Closed
<1>2. c \in k + 1 .. Len(ts)
  BY DEF Match
<1>3. c <= o + 1
  BY <1>1, <1>2
<1> QED  BY <1>1, <1>3 DEF Closed

\* What Nested says of a list.
LEMMA NestedAt ==
    ASSUME NEW ts, NEW ks, NEW o \in Nat, Nested(ts, ks, o)
    PROVE  /\ Len(ks) \in Nat /\ Len(ks) >= 1 /\ DOMAIN ks = 1 .. Len(ks)
           /\ \A i \in 1 .. Len(ks) : ks[i] \in Nat /\ Depth(ts, ks[i]) \in Int
           /\ ks[1] \in Nat /\ ks[Len(ks)] \in Nat /\ ks[Len(ks)] <= o /\ Above(ts, ks[Len(ks)], o)
           /\ ks[1] \in Lists(ts) /\ ks[Len(ks)] \in Lists(ts) /\ ks[1] <= ks[Len(ks)]
           /\ Above(ts, ks[1], o)
<1>1. ks \in Seq(Nat) /\ ks # <<>>
  BY DEF Nested
<1>2. Len(ks) \in Nat /\ Len(ks) >= 1 /\ DOMAIN ks = 1 .. Len(ks) /\ \A i \in 1 .. Len(ks) : ks[i] \in Nat
  BY <1>1, EmptySeq
<1>3. 1 \in 1 .. Len(ks) /\ Len(ks) \in 1 .. Len(ks)
  BY <1>2
<1> QED  BY <1>2, <1>3, DepthNext DEF Nested

\* A list begins, in no other.
LEMMA NestedStart ==
    ASSUME NEW ts, Len(ts) \in Nat, DOMAIN ts = 1 .. Len(ts), NEW o \in Nat, o < Len(ts), ts[o + 1] = Open
    PROVE  Nested(ts, <<o + 1>>, o + 1)
<1> DEFINE ks == <<o + 1>>
<1>1. ks \in Seq(Nat) /\ ks # <<>> /\ Len(ks) = 1 /\ ks[1] = o + 1 /\ o + 1 \in Lists(ts)
  BY DEF Lists
<1> HIDE DEF ks
<1>2. Above(ts, o + 1, o + 1) /\ Depth(ts, o + 1) \in Int
  BY DepthNext DEF Above
<1>3. \A k \in Lists(ts) : k \in Nat
  BY DEF Lists
<1>4. 2 .. Len(ks) = {} /\ \A i \in 1 .. Len(ks) : i = 1
  BY <1>1
<1>5. 1 \in 1 .. Len(ks)
  BY <1>1
<1>6. \A k \in Lists(ts) : ks[1] <= k /\ k <= o + 1 => \E i \in 1 .. Len(ks) : k = ks[i]
  BY <1>1, <1>3, <1>5
<1> QED  BY <1>1, <1>2, <1>4, <1>6 DEF Nested, ks

\* No list begins or ends.
LEMMA NestedSkip ==
    ASSUME NEW ts, Len(ts) \in Nat, NEW ks, NEW o \in Nat, Nested(ts, ks, o),
           ts[o + 1] # Open, ts[o + 1] # Close
    PROVE  Nested(ts, ks, o + 1) /\ Depth(ts, o + 1) = Depth(ts, ks[Len(ks)])
<1>1. Depth(ts, o + 1) = Depth(ts, o) /\ Depth(ts, o) \in Int
  BY DepthCases
<1>2. \A k \in Lists(ts) : k # o + 1 /\ k \in Nat
  BY DEF Lists
<1>3. ASSUME NEW i \in 1 .. Len(ks)
      PROVE  ks[i] <= o + 1 /\ Above(ts, ks[i], o + 1)
  <2>1. ks[i] \in Nat /\ ks[i] <= o /\ Above(ts, ks[i], o)
    BY NestedAt DEF Nested
  <2>2. Depth(ts, o) >= Depth(ts, ks[i])
    BY <2>1 DEF Above
  <2> QED  BY <1>1, <2>1, <2>2, AboveNext
<1>4. \A k \in Lists(ts) : ks[1] <= k /\ k <= o + 1 => Closed(ts, k, o + 1) \/ \E i \in 1 .. Len(ks) : k = ks[i]
  <2> TAKE k \in Lists(ts)
  <2> HAVE ks[1] <= k /\ k <= o + 1
  <2>1. k <= o
    BY <1>2
  <2> QED  BY <2>1, ClosedNext DEF Nested
<1> QED  BY <1>1, <1>3, <1>4 DEF Nested

\* A list begins in the last one.
LEMMA NestedOpen ==
    ASSUME NEW ts, Len(ts) \in Nat, DOMAIN ts = 1 .. Len(ts), NEW ks, NEW o \in Nat, o < Len(ts), Nested(ts, ks, o),
           ts[o + 1] = Open, NEW js, js = Append(ks, o + 1)
    PROVE  Nested(ts, js, o + 1)
<1>0. ks \in Seq(Nat) /\ Len(ks) \in Nat /\ Len(ks) >= 1 /\ ks[1] \in Nat /\ ks[Len(ks)] \in Nat
  BY NestedAt DEF Nested
<1>1. /\ js \in Seq(Nat) /\ js # <<>> /\ Len(js) = Len(ks) + 1
      /\ \A i \in 1 .. Len(ks) : js[i] = ks[i]
      /\ js[Len(ks) + 1] = o + 1
  BY <1>0, AppendProperties
<1>2. /\ Depth(ts, o) \in Int /\ Depth(ts, o + 1) = Depth(ts, o) + 1 /\ o + 1 \in Lists(ts)
      /\ Depth(ts, o) = Depth(ts, ks[Len(ks)]) /\ Depth(ts, ks[1]) \in Int
  <2>1. o + 1 \in DOMAIN ts
    OBVIOUS
  <2> QED  BY <1>0, <2>1, DepthCases DEF Nested, Lists
<1>3. 1 \in 1 .. Len(ks) /\ Len(ks) \in 1 .. Len(ks) /\ js[1] = ks[1]
  BY <1>0, <1>1
<1>4. ASSUME NEW i \in 1 .. Len(js)
      PROVE  /\ js[i] \in Lists(ts) /\ js[1] <= js[i] /\ js[i] <= o + 1
             /\ Depth(ts, js[i]) = Depth(ts, js[1]) + i - 1
             /\ Above(ts, js[i], o + 1)
  <2>1. CASE i \in 1 .. Len(ks)
    <3>1. /\ ks[i] \in Lists(ts) /\ ks[1] <= ks[i] /\ ks[i] <= o
          /\ Depth(ts, ks[i]) = Depth(ts, ks[1]) + i - 1 /\ Above(ts, ks[i], o) /\ ks[i] \in Nat
      BY <2>1, NestedAt DEF Nested
    <3>2. Depth(ts, o) >= Depth(ts, ks[i]) /\ Depth(ts, ks[i]) \in Int
      BY <3>1, DepthNext DEF Above
    <3>3. Depth(ts, o + 1) >= Depth(ts, ks[i]) /\ ks[i] <= o + 1
      <4>1. Depth(ts, o + 1) = Depth(ts, o) + 1 /\ Depth(ts, o) \in Int /\ o \in Nat
        BY <1>2
      <4> QED  BY ONLY <3>1, <3>2, <4>1
    <3>4. Above(ts, ks[i], o + 1)
      BY <3>1, <3>3, AboveNext
    <3> QED  BY <1>1, <1>3, <2>1, <3>1, <3>3, <3>4
  <2>2. CASE i = Len(ks) + 1
    <3>1. Above(ts, o + 1, o + 1) /\ js[i] = o + 1
      BY <1>1, <1>2, <2>2 DEF Above
    <3>2. Depth(ts, ks[Len(ks)]) = Depth(ts, ks[1]) + Len(ks) - 1 /\ ks[1] <= o
      BY <1>3 DEF Nested
    <3> QED  BY <1>0, <1>1, <1>2, <1>3, <2>2, <3>1, <3>2
  <2> QED  BY <1>0, <1>1, <2>1, <2>2
<1>5. ASSUME NEW i \in 2 .. Len(js)
      PROVE  js[i - 1] < js[i]
  <2>1. CASE i = Len(js)
    <3>1. js[i] = o + 1 /\ js[i - 1] = ks[Len(ks)] /\ ks[Len(ks)] <= o
      BY <1>0, <1>1, <1>3, <2>1 DEF Nested
    <3> QED  BY <1>0, <3>1
  <2>2. CASE i # Len(js)
    <3>1. i \in 2 .. Len(ks) /\ i \in 1 .. Len(ks) /\ i - 1 \in 1 .. Len(ks)
      BY ONLY <1>0, <1>1, <1>5, <2>2
    <3>2. ks[i - 1] < ks[i]
      BY <3>1 DEF Nested
    <3> QED  BY <1>1, <3>1, <3>2
  <2> QED  BY <2>1, <2>2
<1>6. ASSUME NEW k \in Lists(ts), js[1] <= k, k <= o + 1
      PROVE  Closed(ts, k, o + 1) \/ \E i \in 1 .. Len(js) : k = js[i]
  <2>1. CASE k = o + 1
    <3>1. Len(js) \in 1 .. Len(js) /\ js[Len(js)] = k
      BY <1>0, <1>1, <2>1
    <3> QED  BY <3>1
  <2>2. CASE k # o + 1
    <3>1. k \in Nat
      BY DEF Lists
    <3>2. k <= o /\ ks[1] <= k
      BY <1>3, <1>6, <2>2, <3>1
    <3>3. Closed(ts, k, o) \/ \E i \in 1 .. Len(ks) : k = ks[i]
      BY <3>2 DEF Nested
    <3>4. CASE Closed(ts, k, o)
      BY <3>4, ClosedNext
    <3>5. CASE \E i \in 1 .. Len(ks) : k = ks[i]
      <4>1. PICK i \in 1 .. Len(ks) : k = ks[i]
        BY <3>5
      <4>2. i \in 1 .. Len(js) /\ js[i] = k
        BY <1>0, <1>1, <4>1
      <4> QED  BY <4>2
    <3> QED  BY <3>3, <3>4, <3>5
  <2> QED  BY <2>1, <2>2
<1>7. js[Len(js)] = o + 1
  BY <1>1
<1> QED  BY <1>1, <1>4, <1>5, <1>6, <1>7 DEF Nested

\* The last list ends.
LEMMA CloseMatch ==
    ASSUME NEW ts, Len(ts) \in Nat, NEW ks, NEW o \in Nat, o < Len(ts), Nested(ts, ks, o), ts[o + 1] = Close
    PROVE  /\ Match(ts, ks[Len(ks)]) = {o + 1}
           /\ Depth(ts, o + 1) = Depth(ts, ks[Len(ks)]) - 1 /\ Depth(ts, ks[Len(ks)]) \in Int
<1>1. ks[Len(ks)] \in Nat /\ ks[Len(ks)] <= o /\ Above(ts, ks[Len(ks)], o)
  BY NestedAt
<1>2. /\ Depth(ts, o) \in Int /\ Depth(ts, o + 1) = Depth(ts, o) - 1
      /\ Depth(ts, o) = Depth(ts, ks[Len(ks)])
  BY DepthCases DEF Nested
<1>3. Depth(ts, o + 1) < Depth(ts, ks[Len(ks)])
  BY <1>2
<1> QED  BY <1>1, <1>2, <1>3, MatchHere

LEMMA NestedClose ==
    ASSUME NEW ts, Len(ts) \in Nat, NEW ks, NEW o \in Nat, o < Len(ts), Nested(ts, ks, o), ts[o + 1] = Close,
           Sound(ts, ks[Len(ks)], o + 1), Len(ks) # 1, NEW js, js = Front(ks)
    PROVE  Nested(ts, js, o + 1) /\ Len(ks) = Len(js) + 1 /\ \A i \in 1 .. Len(js) : js[i] = ks[i]
<1>0. /\ ks \in Seq(Nat) /\ Len(ks) \in Nat /\ Len(ks) >= 1 /\ ks[1] \in Nat /\ ks[Len(ks)] \in Nat
      /\ \A i \in 1 .. Len(ks) : ks[i] \in Nat /\ Depth(ts, ks[i]) \in Int
  <2>1. ks \in Seq(Nat)
    BY DEF Nested
  <2> QED  BY <2>1, NestedAt
<1>1. /\ js \in Seq(Nat) /\ js # <<>> /\ Len(ks) = Len(js) + 1 /\ Len(js) \in Nat /\ Len(js) >= 1
      /\ \A i \in 1 .. Len(js) : js[i] = ks[i]
  <2>1. IsSeq(ks) /\ ks # <<>>
    BY <1>0 DEF IsSeq, Nested
  <2>2. IsSeq(js) /\ Len(ks) = Len(js) + 1 /\ Len(js) \in Nat /\ \A i \in 1 .. Len(js) : ks[i] = js[i]
    BY <2>1, Popped
  <2>3. Len(js) >= 1 /\ DOMAIN js = 1 .. Len(js) /\ js # <<>>
    BY <1>0, <2>2, SeqIs
  <2>4. \A i \in 1 .. Len(js) : js[i] \in Nat
    BY <1>0, <2>2
  <2>5. js \in Seq(Nat)
    <3>1. PICK S : js \in Seq(S)
      BY <2>2 DEF IsSeq
    <3>2. js = [i \in 1 .. Len(js) |-> js[i]]
      BY <3>1
    <3> QED  BY <2>2, <2>4, <3>2
  <2> QED  BY <2>2, <2>3, <2>5
<1> DEFINE d == Len(ks)
<1>2. /\ Match(ts, ks[d]) = {o + 1} /\ Depth(ts, o + 1) = Depth(ts, ks[d]) - 1 /\ Depth(ts, o + 1) \in Int
  <2>1. Match(ts, ks[d]) = {o + 1} /\ Depth(ts, o + 1) = Depth(ts, ks[d]) - 1 /\ Depth(ts, ks[d]) \in Int
    BY CloseMatch
  <2> HIDE DEF d
  <2> QED  BY ONLY <2>1
<1>3. 1 \in 1 .. Len(js) /\ d \in 1 .. d /\ Len(js) \in 1 .. d /\ js[1] = ks[1] /\ \A i \in 1 .. Len(js) : i \in 1 .. d
  BY <1>0, <1>1
<1>4. \A i \in 1 .. d : Depth(ts, ks[i]) = Depth(ts, ks[1]) + i - 1
  BY DEF Nested
<1>5. Depth(ts, o + 1) = Depth(ts, ks[1]) + Len(js) - 1 /\ Depth(ts, ks[1]) \in Int
  <2>1. Depth(ts, ks[d]) = Depth(ts, ks[1]) + d - 1 /\ Depth(ts, ks[1]) \in Int
    BY <1>0, <1>3, <1>4
  <2> QED  BY <1>0, <1>1, <1>2, <2>1
<1>6. ASSUME NEW i \in 1 .. Len(js)
      PROVE  /\ js[i] \in Lists(ts) /\ js[1] <= js[i] /\ js[i] <= o + 1
             /\ Depth(ts, js[i]) = Depth(ts, js[1]) + i - 1
             /\ Above(ts, js[i], o + 1)
  <2>1. /\ i \in 1 .. d /\ js[i] = ks[i] /\ ks[i] \in Nat /\ Depth(ts, ks[i]) \in Int
        /\ ks[i] \in Lists(ts) /\ ks[1] <= ks[i] /\ ks[i] <= o /\ Above(ts, ks[i], o)
        /\ Depth(ts, ks[i]) = Depth(ts, ks[1]) + i - 1
    BY <1>0, <1>1, <1>3 DEF Nested
  <2>2. Depth(ts, o + 1) >= Depth(ts, ks[i]) /\ ks[i] <= o + 1
    <3> DEFINE a == Depth(ts, ks[1])
               b == Depth(ts, ks[i])
               n == Len(js)
    <3>1. i <= n /\ i \in Nat /\ n \in Nat
      BY <1>1
    <3>2. a \in Int /\ b = a + i - 1 /\ Depth(ts, o + 1) = a + n - 1
      BY <1>5, <2>1
    <3> HIDE DEF a, b, n
    <3>3. Depth(ts, o + 1) >= b
      BY ONLY <3>1, <3>2
    <3>4. ks[i] <= o + 1
      BY <2>1
    <3> QED  BY <3>3, <3>4 DEF b
  <2>3. Above(ts, ks[i], o + 1)
    BY <2>1, <2>2, AboveNext
  <2> QED  BY <1>3, <2>1, <2>2, <2>3
<1>7. \A i \in 2 .. Len(js) : js[i - 1] < js[i]
  <2> TAKE i \in 2 .. Len(js)
  <2>1. i \in 2 .. d /\ i \in 1 .. Len(js) /\ i - 1 \in 1 .. Len(js)
    BY <1>1
  <2>2. ks[i - 1] < ks[i]
    BY <2>1 DEF Nested
  <2> QED  BY <1>1, <2>1, <2>2
<1>8. Depth(ts, o + 1) = Depth(ts, js[Len(js)])
  <2>1. Len(js) \in 1 .. Len(js)
    BY <1>1
  <2>2. Depth(ts, js[Len(js)]) = Depth(ts, js[1]) + Len(js) - 1
    BY <1>6, <2>1
  <2> QED  BY <1>3, <1>5, <2>2
<1>9. ASSUME NEW k \in Lists(ts), js[1] <= k, k <= o + 1
      PROVE  Closed(ts, k, o + 1) \/ \E i \in 1 .. Len(js) : k = js[i]
  <2>1. k \in Nat /\ k # o + 1
    BY FourMarks DEF Lists
  <2>2. k <= o /\ ks[1] <= k
    BY <1>3, <1>9, <2>1
  <2>3. Closed(ts, k, o) \/ \E i \in 1 .. d : k = ks[i]
    BY <2>2 DEF Nested
  <2>4. CASE Closed(ts, k, o)
    BY <2>4, ClosedNext
  <2>5. CASE \E i \in 1 .. d : k = ks[i]
    <3>1. PICK i \in 1 .. d : k = ks[i]
      BY <2>5
    <3>2. CASE i = d
      BY <1>2, <3>1, <3>2 DEF Closed
    <3>3. CASE i # d
      <4>1. i \in 1 .. Len(js) /\ js[i] = k
        BY ONLY <1>1, <3>1, <3>3
      <4> QED  BY <4>1
    <3> QED  BY <3>2, <3>3
  <2> QED  BY <2>3, <2>4, <2>5
<1> QED  BY <1>1, <1>6, <1>7, <1>8, <1>9 DEF Nested

\* A list that was closed before and is no pair, where it has to be one.
LEMMA BrokenAfter ==
    ASSUME NEW ts, Len(ts) \in Nat, DOMAIN ts = 1 .. Len(ts), NEW ks, NEW o \in Nat, Nested(ts, ks, o),
           ks[1] \in Roots(ts), NEW b \in Broken(ts)
    PROVE  /\ b \in Nat /\ b > o
           /\ b = o + 1 => \E i \in 1 .. Len(ks) : b \in Match(ts, ks[i]) /\ ~ Sound(ts, ks[i], b)
           /\ \A e \in Match(ts, ks[1]) : b <= e
<1>1. PICK r \in Roots(ts), k \in Lists(ts) :
          /\ k >= r /\ b \in Match(ts, k)
          /\ \A e \in Match(ts, r) : b <= e
          /\ ~ Sound(ts, k, b)
  BY DEF Broken
<1>2. r = ks[1]
  BY OneRoot
<1>3. k \in Nat /\ b \in k + 1 .. Len(ts) /\ ks[1] \in Nat
  <2>1. k \in Nat
    BY DEF Lists
  <2>2. b \in k + 1 .. Len(ts)
    BY <1>1 DEF Match
  <2>3. ks[1] \in Nat
    BY NestedAt
  <2> QED  BY <2>1, <2>2, <2>3
<1>4. CASE k <= o
  <2>1. ~ Closed(ts, k, o)
    <3> SUFFICES ASSUME NEW c \in Match(ts, k), Sound(ts, k, c)  PROVE FALSE
      BY DEF Closed
    <3> QED  BY <1>1, <1>3, MatchUnique
  <2>2. PICK i \in 1 .. Len(ks) : k = ks[i]
    BY <1>1, <1>2, <1>4, <2>1 DEF Nested
  <2>3. Above(ts, k, o)
    BY <2>2 DEF Nested
  <2>4. b > o
    BY <1>1, <1>3, <2>3, MatchAfter
  <2> QED  BY <1>1, <1>2, <1>3, <2>2, <2>4
<1>5. CASE k > o
  BY <1>1, <1>2, <1>3, <1>5
<1> QED  BY <1>3, <1>4, <1>5

\* The root ends, and is a pair if it has to be.
LEMMA NestedEnd ==
    ASSUME NEW ts, Len(ts) \in Nat, DOMAIN ts = 1 .. Len(ts), NEW ks, NEW o \in Nat, o < Len(ts),
           Nested(ts, ks, o), ks[1] \in Roots(ts), ts[o + 1] = Close, Len(ks) = 1, Sound(ts, ks[1], o + 1)
    PROVE  Accepted(ts)
<1>1. Match(ts, ks[1]) = {o + 1}
  BY CloseMatch
<1>2. ASSUME NEW b \in Broken(ts)
      PROVE  FALSE
  <2>1. /\ b \in Nat /\ b > o
        /\ b = o + 1 => \E i \in 1 .. Len(ks) : b \in Match(ts, ks[i]) /\ ~ Sound(ts, ks[i], b)
        /\ \A e \in Match(ts, ks[1]) : b <= e
    BY BrokenAfter
  <2>2. b = o + 1
    BY <1>1, <2>1
  <2>3. \A i \in 1 .. Len(ks) : i = 1
    OBVIOUS
  <2> QED  BY <2>1, <2>2, <2>3
<1> QED  BY <1>1, <1>2 DEF Accepted

\* The last list ends and is no pair.
LEMMA NestedBroken ==
    ASSUME NEW ts, Len(ts) \in Nat, DOMAIN ts = 1 .. Len(ts), NEW ks, NEW o \in Nat, o < Len(ts),
           Nested(ts, ks, o), ks[1] \in Roots(ts), ts[o + 1] = Close, ~ Sound(ts, ks[Len(ks)], o + 1)
    PROVE  o + 1 \in Broken(ts) /\ Min(Broken(ts)) = o + 1
<1>1. /\ Match(ts, ks[Len(ks)]) = {o + 1} /\ ks[1] \in Nat /\ Above(ts, ks[1], o)
      /\ ks[Len(ks)] \in Lists(ts) /\ ks[Len(ks)] >= ks[1] /\ ks[Len(ks)] \in Nat
  BY CloseMatch, NestedAt
<1>2. \A e \in Match(ts, ks[1]) : o + 1 <= e
  <2> TAKE e \in Match(ts, ks[1])
  <2>1. e > o /\ e \in Nat
    BY <1>1, MatchAfter
  <2> QED  BY <2>1
<1>3. o + 1 \in Broken(ts)
  <2>1. o + 1 \in DOMAIN ts
    OBVIOUS
  <2> QED  BY <1>1, <1>2, <2>1 DEF Broken
<1>4. \A b \in Broken(ts) : b \in Nat /\ o + 1 <= b
  <2> TAKE b \in Broken(ts)
  <2>1. b \in Nat /\ b > o
    BY BrokenAfter
  <2> QED  BY <2>1
<1> DEFINE B == Broken(ts)
<1> HIDE DEF B
<1>5. o + 1 \in B /\ \A b \in B : b \in Nat /\ o + 1 <= b
  BY <1>3, <1>4 DEF B
<1>6. Min(B) \in B /\ \A b \in B : Min(B) <= b
  BY <1>5 DEF Min
<1>7. Min(B) = o + 1
  BY <1>5, <1>6
<1> QED  BY <1>3, <1>7 DEF B
-----------------------------------------------------------------------------
(* What open lists hold *)

\* A form that was read: lison_get finds two forms in it, if each list below
\* the root has to be a pair.
FormOK(ts, f) ==
    /\ f.type # "WILD"
    /\ EarlyPairs(ts) /\ f.type = "LIST" =>
        /\ Len(f.forms) = 2
        /\ \A e \in 1 .. 2 : f.forms[e].type # "WILD"

Shape(ts, fs) == IsSeq(fs) /\ \A m \in 1 .. Len(fs) : FormOK(ts, fs[m])

\* The list l holds what lies between the tokens k and e.
Contents(ts, l, k, e) ==
    /\ Shape(ts, l.forms)
    /\ Len(l.forms) = Cardinality(Forms(ts, k, e))
    /\ l.is_list <=> HasQuote(ts, k, e)

Stacked(ts, st, ks, o) ==
    /\ IsSeq(st) /\ Len(st) = Len(ks)
    /\ Contents(ts, st[Len(ks)], ks[Len(ks)], o + 1)
    /\ \A i \in 1 .. Len(ks) - 1 : Contents(ts, st[i], ks[i], ks[i + 1])

\* A list that holds one more form.
LEMMA ContentsMore ==
    ASSUME NEW ts, NEW l, NEW k, NEW e, NEW c, NEW m, NEW f, Contents(ts, l, k, e), FormOK(ts, f),
           m.forms = Append(l.forms, f), m.is_list = l.is_list,
           Cardinality(Forms(ts, k, c)) = Cardinality(Forms(ts, k, e)) + 1,
           HasQuote(ts, k, e) => HasQuote(ts, k, c), HasQuote(ts, k, c) => HasQuote(ts, k, e)
    PROVE  Contents(ts, m, k, c)
<1> DEFINE fs == l.forms
           gs == m.forms
<1>1. IsSeq(fs) /\ (\A i \in 1 .. Len(fs) : FormOK(ts, fs[i])) /\ Len(fs) = Cardinality(Forms(ts, k, e))
  BY DEF Contents, Shape
<1>2. gs = Append(fs, f)
  OBVIOUS
<1> HIDE DEF fs, gs
<1>3. Longer(gs, fs, f)
  BY <1>1, <1>2, Pushed
<1>4. /\ IsSeq(gs) /\ Len(gs) = Len(fs) + 1 /\ Len(fs) \in Nat
      /\ \A i \in 1 .. Len(fs) : gs[i] = fs[i]
      /\ gs[Len(gs)] = f
  BY <1>3 DEF Longer
<1>5. \A i \in 1 .. Len(gs) : i \in 1 .. Len(fs) \/ i = Len(gs)
  BY <1>4
<1>6. \A i \in 1 .. Len(gs) : FormOK(ts, gs[i])
  BY <1>1, <1>4, <1>5
<1>7. Shape(ts, gs)
  BY <1>4, <1>6 DEF Shape
<1>8. Len(gs) = Cardinality(Forms(ts, k, c))
  BY <1>1, <1>4
<1>9. m.is_list <=> HasQuote(ts, k, c)
  BY DEF Contents
<1> QED  BY <1>7, <1>8, <1>9 DEF Contents, gs

\* The last list changes, or stays.
LEMMA StackedTop ==
    ASSUME NEW ts, NEW st, NEW ks, Len(ks) \in Nat, Len(ks) >= 1, NEW o \in Nat, Stacked(ts, st, ks, o),
           NEW m, Contents(ts, m, ks[Len(ks)], (o + 1) + 1),
           NEW tt, tt = Append(Front(st), m) \/ (tt = st /\ m = st[Len(ks)])
    PROVE  Stacked(ts, tt, ks, o + 1) /\ tt # <<>>
<1>1. IsSeq(st) /\ Len(st) = Len(ks) /\ \A i \in 1 .. Len(ks) - 1 : Contents(ts, st[i], ks[i], ks[i + 1])
  BY DEF Stacked
<1>2. st # <<>>
  BY <1>1, SeqIs
<1>3. CASE tt = Append(Front(st), m)
  <2> DEFINE t == Front(st)
  <2>1. IsSeq(t) /\ Len(st) = Len(t) + 1 /\ Len(t) \in Nat /\ \A i \in 1 .. Len(t) : st[i] = t[i]
    BY <1>1, <1>2, Popped
  <2>2. tt = Append(t, m)
    BY <1>3
  <2> HIDE DEF t
  <2>3. Longer(tt, t, m)
    BY <2>1, <2>2, Pushed
  <2>4. IsSeq(tt) /\ tt # <<>> /\ Len(tt) = Len(t) + 1 /\ (\A i \in 1 .. Len(t) : tt[i] = t[i]) /\ tt[Len(tt)] = m
    BY <2>3 DEF Longer
  <2>5. Len(tt) = Len(ks) /\ tt[Len(ks)] = m /\ Len(t) = Len(ks) - 1
    BY <1>1, <2>1, <2>4
  <2>6. \A i \in 1 .. Len(ks) - 1 : tt[i] = st[i]
    BY <2>1, <2>4, <2>5
  <2> QED  BY <1>1, <2>4, <2>5, <2>6 DEF Stacked
<1>4. CASE tt = st /\ m = st[Len(ks)]
  BY <1>1, <1>2, <1>4 DEF Stacked
<1> QED  BY <1>3, <1>4

\* A list is opened in the last one.
LEMMA StackedOpen ==
    ASSUME NEW ts, NEW st, NEW ks \in Seq(Nat), Len(ks) >= 1, NEW o \in Nat, Stacked(ts, st, ks, o),
           NEW m, Contents(ts, m, o + 1, (o + 1) + 1),
           NEW js, js = Append(ks, o + 1), NEW tt, tt = Append(st, m)
    PROVE  Stacked(ts, tt, js, o + 1) /\ tt # <<>>
<1>1. /\ IsSeq(st) /\ Len(st) = Len(ks) /\ Len(ks) \in Nat
      /\ Contents(ts, st[Len(ks)], ks[Len(ks)], o + 1)
      /\ \A i \in 1 .. Len(ks) - 1 : Contents(ts, st[i], ks[i], ks[i + 1])
  BY DEF Stacked
<1>2. /\ Len(js) = Len(ks) + 1 /\ \A i \in 1 .. Len(ks) : js[i] = ks[i]
      /\ js[Len(ks) + 1] = o + 1
  BY AppendProperties
<1>3. Longer(tt, st, m)
  BY <1>1, Pushed
<1>4. IsSeq(tt) /\ tt # <<>> /\ Len(tt) = Len(st) + 1 /\ (\A i \in 1 .. Len(st) : tt[i] = st[i]) /\ tt[Len(tt)] = m
  BY <1>3 DEF Longer
<1>5. Len(tt) = Len(js) /\ tt[Len(js)] = m /\ js[Len(js)] = o + 1 /\ Len(js) - 1 = Len(ks)
  BY <1>1, <1>2, <1>4
<1>6. ASSUME NEW i \in 1 .. Len(js) - 1
      PROVE  Contents(ts, tt[i], js[i], js[i + 1])
  <2>1. i \in 1 .. Len(ks) /\ tt[i] = st[i] /\ js[i] = ks[i]
    BY <1>1, <1>2, <1>4, <1>5
  <2>2. CASE i = Len(ks)
    BY <1>1, <1>2, <2>1, <2>2
  <2>3. CASE i # Len(ks)
    <3>1. i \in 1 .. Len(ks) - 1 /\ i + 1 \in 1 .. Len(ks)
      <4>1. i \in 1 .. Len(ks) /\ Len(ks) \in Nat
        BY <1>1, <2>1
      <4> QED  BY ONLY <2>3, <4>1
    <3> QED  BY <1>1, <1>2, <2>1, <3>1
  <2> QED  BY <2>2, <2>3
<1> QED  BY <1>4, <1>5, <1>6 DEF Stacked

\* js is all of ks but its last, and not empty.
Shorter(js, ks) ==
    /\ Len(js) \in Nat /\ Len(js) >= 1 /\ Len(ks) = Len(js) + 1
    /\ \A i \in 1 .. Len(js) : js[i] = ks[i]

\* The last list ends: the one below it changes.
LEMMA StackedClose ==
    ASSUME NEW ts, NEW st, NEW ks, Len(ks) \in Nat, NEW o \in Nat, Stacked(ts, st, ks, o),
           NEW js, Shorter(js, ks), NEW m, Contents(ts, m, js[Len(js)], (o + 1) + 1),
           NEW tt, tt = Append(Front(Front(st)), m)
    PROVE  Stacked(ts, tt, js, o + 1) /\ tt # <<>>
<1>0. /\ Len(js) \in Nat /\ Len(js) >= 1 /\ Len(ks) = Len(js) + 1
      /\ \A i \in 1 .. Len(js) : js[i] = ks[i]
  BY DEF Shorter
<1>1. IsSeq(st) /\ Len(st) = Len(ks) /\ \A i \in 1 .. Len(ks) - 1 : Contents(ts, st[i], ks[i], ks[i + 1])
  BY DEF Stacked
<1> DEFINE s == Front(st)
           t == Front(s)
<1>2. st # <<>>
  BY <1>0, <1>1, SeqIs
<1>3. IsSeq(s) /\ Len(st) = Len(s) + 1 /\ Len(s) \in Nat /\ \A i \in 1 .. Len(s) : st[i] = s[i]
  BY <1>1, <1>2, Popped
<1>4. tt = Append(t, m)
  OBVIOUS
<1> HIDE DEF s
<1>5. Len(s) = Len(js) /\ s # <<>>
  BY <1>0, <1>1, <1>3, SeqIs
<1>6. IsSeq(t) /\ Len(s) = Len(t) + 1 /\ Len(t) \in Nat /\ \A i \in 1 .. Len(t) : s[i] = t[i]
  BY <1>3, <1>5, Popped
<1> HIDE DEF t
<1>7. Longer(tt, t, m)
  BY <1>4, <1>6, Pushed
<1>8. IsSeq(tt) /\ tt # <<>> /\ Len(tt) = Len(t) + 1 /\ (\A i \in 1 .. Len(t) : tt[i] = t[i]) /\ tt[Len(tt)] = m
  BY <1>7 DEF Longer
<1>9. Len(tt) = Len(js) /\ tt[Len(js)] = m /\ Len(t) = Len(js) - 1
  BY <1>0, <1>5, <1>6, <1>8
<1>10. ASSUME NEW i \in 1 .. Len(js) - 1
       PROVE  Contents(ts, tt[i], js[i], js[i + 1])
  <2>1. i \in 1 .. Len(t) /\ i \in 1 .. Len(s) /\ i \in 1 .. Len(ks) - 1 /\ i \in 1 .. Len(js) /\ i + 1 \in 1 .. Len(js)
    BY <1>0, <1>5, <1>9
  <2>2. tt[i] = st[i] /\ js[i] = ks[i] /\ js[i + 1] = ks[i + 1]
    BY <1>0, <1>3, <1>6, <1>8, <2>1
  <2> QED  BY <1>1, <2>1, <2>2
<1> QED  BY <1>8, <1>9, <1>10 DEF Stacked
\* The open lists at o are those of the stack st, and the root is the first.
OpenAt(ts, o, st) ==
    \E ks : Nested(ts, ks, o) /\ Stacked(ts, st, ks, o) /\ \A r \in Roots(ts) : r = ks[1]

LEMMA OpenFirst ==
    ASSUME NEW ts, Len(ts) \in Nat, DOMAIN ts = 1 .. Len(ts), NEW o \in Nat, o < Len(ts), ts[o + 1] = Open,
           \A r \in Roots(ts) : r = o + 1,
           NEW m, m.forms = <<>>, m.is_list = FALSE, NEW tt, tt = Append(<<>>, m)
    PROVE  OpenAt(ts, o + 1, tt) /\ tt # <<>>
<1> DEFINE ks == <<o + 1>>
           l == m.forms
<1>1. Nested(ts, ks, o + 1)
  BY NestedStart
<1>2. Len(ks) = 1 /\ ks[1] = o + 1 /\ 1 .. 1 - 1 = {}
  OBVIOUS
<1> HIDE DEF ks
<1>3. l = <<>> /\ IsSeq(l) /\ Len(l) = 0 /\ 1 .. 0 = {}
  BY NothingHeld DEF GoodStack
<1> HIDE DEF l
<1>4. Shape(ts, l)
  BY <1>3 DEF Shape
<1>5. Cardinality(Forms(ts, o + 1, (o + 1) + 1)) = 0 /\ ~ HasQuote(ts, o + 1, (o + 1) + 1)
  BY FormsFirst
<1>6. Contents(ts, m, o + 1, (o + 1) + 1)
  <2>1. m.forms = l
    BY DEF l
  <2> QED  BY <1>3, <1>4, <1>5, <2>1 DEF Contents
<1>7. IsSeq(<<>>) /\ Len(<<>>) = 0
  BY NothingHeld DEF GoodStack
<1>8. Longer(tt, <<>>, m)
  BY <1>7, Pushed
<1>9. IsSeq(tt) /\ tt # <<>> /\ Len(tt) = 1 /\ tt[1] = m
  BY <1>7, <1>8 DEF Longer
<1>10. Stacked(ts, tt, ks, o + 1)
  BY <1>2, <1>6, <1>9 DEF Stacked
<1> QED  BY <1>1, <1>2, <1>9, <1>10 DEF OpenAt

\* What the last list holds when one more token is neither parenthesis.
LEMMA ContentsNext ==
    ASSUME NEW ts, Len(ts) \in Nat, NEW ks, NEW o \in Nat, Nested(ts, ks, o), NEW st, Stacked(ts, st, ks, o),
           NEW l, l = st[Len(ks)], ts[o + 1] # Open, ts[o + 1] # Close, NEW m,
           \/ ts[o + 1] = Newline /\ m = l
           \/ ts[o + 1] = Quote /\ m.forms = l.forms /\ m.is_list = TRUE
           \/ /\ ts[o + 1] \notin {Newline, Quote} /\ m.is_list = l.is_list
              /\ \E f : FormOK(ts, f) /\ m.forms = Append(l.forms, f)
    PROVE  Contents(ts, m, ks[Len(ks)], (o + 1) + 1)
<1> DEFINE k == ks[Len(ks)]
           e == o + 1
<1>1. Contents(ts, l, k, e)
  BY DEF Stacked
<1>2. k \in Nat /\ k <= o
  BY NestedAt
<1>3. Depth(ts, e) = Depth(ts, k) /\ Depth(ts, k) \in Int
  BY <1>2, NestedSkip, DepthNext
<1> HIDE DEF k
<1>4. k < e /\ e \in Nat
  BY <1>2
<1> HIDE DEF e
<1>5. /\ IsForm(ts, k, e) => Cardinality(Forms(ts, k, e + 1)) = Cardinality(Forms(ts, k, e)) + 1
      /\ ~ IsForm(ts, k, e) => Forms(ts, k, e + 1) = Forms(ts, k, e)
      /\ HasQuote(ts, k, e + 1) => HasQuote(ts, k, e) \/ (ts[e] = Quote /\ Depth(ts, e) = Depth(ts, k))
      /\ HasQuote(ts, k, e) \/ (ts[e] = Quote /\ Depth(ts, e) = Depth(ts, k)) => HasQuote(ts, k, e + 1)
  BY <1>2, <1>4, FormsNext
<1>6. ts[e] # Open /\ ts[e] # Close
  BY DEF e
<1>7. CASE ts[e] = Newline /\ m = l
  <2>1. ~ IsForm(ts, k, e) /\ ts[e] # Quote
    BY <1>7, FourMarks DEF IsForm
  <2> QED  BY <1>1, <1>5, <1>7, <2>1 DEF Contents, k, e
<1>8. CASE ts[e] = Quote /\ m.forms = l.forms /\ m.is_list = TRUE
  <2>1. ~ IsForm(ts, k, e) /\ HasQuote(ts, k, e + 1)
    BY <1>3, <1>5, <1>8 DEF IsForm
  <2> QED  BY <1>1, <1>5, <1>8, <2>1 DEF Contents, k, e
<1>9. CASE /\ ts[e] \notin {Newline, Quote} /\ m.is_list = l.is_list
           /\ \E f : FormOK(ts, f) /\ m.forms = Append(l.forms, f)
  <2>1. IsForm(ts, k, e) /\ ts[e] # Quote
    BY <1>3, <1>6, <1>9 DEF IsForm
  <2>2. PICK f : FormOK(ts, f) /\ m.forms = Append(l.forms, f)
    BY <1>9
  <2>3. Contents(ts, m, k, e + 1)
    BY <1>1, <1>5, <1>9, <2>1, <2>2, ContentsMore
  <2> QED  BY <2>3 DEF k, e
<1> QED  BY <1>7, <1>8, <1>9 DEF e

LEMMA OpenSkip ==
    ASSUME NEW ts, Len(ts) \in Nat, NEW o \in Nat, NEW st, OpenAt(ts, o, st), NEW l, l = Last(st),
           ts[o + 1] # Open, ts[o + 1] # Close, NEW m,
           \/ ts[o + 1] = Newline /\ m = l
           \/ ts[o + 1] = Quote /\ m.forms = l.forms /\ m.is_list = TRUE
           \/ /\ ts[o + 1] \notin {Newline, Quote} /\ m.is_list = l.is_list
              /\ \E f : FormOK(ts, f) /\ m.forms = Append(l.forms, f),
           NEW tt, tt = Append(Front(st), m) \/ (tt = st /\ m = l)
    PROVE  OpenAt(ts, o + 1, tt) /\ tt # <<>>
<1>1. PICK ks : Nested(ts, ks, o) /\ Stacked(ts, st, ks, o) /\ \A r \in Roots(ts) : r = ks[1]
  BY DEF OpenAt
<1>2. Len(ks) \in Nat /\ Len(ks) >= 1
  BY <1>1, NestedAt
<1>3. l = st[Len(ks)]
  BY <1>1 DEF Stacked, Last
<1>4. Contents(ts, m, ks[Len(ks)], (o + 1) + 1)
  BY <1>1, <1>3, ContentsNext
<1>5. Stacked(ts, tt, ks, o + 1) /\ tt # <<>>
  BY <1>1, <1>2, <1>3, <1>4, StackedTop
<1>6. Nested(ts, ks, o + 1)
  BY <1>1, NestedSkip
<1> QED  BY <1>1, <1>5, <1>6 DEF OpenAt

LEMMA OpenMore ==
    ASSUME NEW ts, Len(ts) \in Nat, DOMAIN ts = 1 .. Len(ts), NEW o \in Nat, o < Len(ts), ts[o + 1] = Open,
           NEW st, OpenAt(ts, o, st), NEW m, m.forms = <<>>, m.is_list = FALSE, NEW tt, tt = Append(st, m)
    PROVE  OpenAt(ts, o + 1, tt) /\ tt # <<>>
<1>1. PICK ks : Nested(ts, ks, o) /\ Stacked(ts, st, ks, o) /\ \A r \in Roots(ts) : r = ks[1]
  BY DEF OpenAt
<1>2. ks \in Seq(Nat) /\ Len(ks) \in Nat /\ Len(ks) >= 1
  <2>1. ks \in Seq(Nat)
    BY <1>1 DEF Nested
  <2> QED  BY <1>1, <2>1, NestedAt
<1> DEFINE js == Append(ks, o + 1)
           l == m.forms
<1>3. Nested(ts, js, o + 1)
  BY <1>1, NestedOpen
<1>4. js[1] = ks[1]
  BY <1>2, AppendProperties
<1>5. l = <<>> /\ IsSeq(l) /\ Len(l) = 0 /\ 1 .. 0 = {}
  BY NothingHeld DEF GoodStack
<1> HIDE DEF l, js
<1>6. Shape(ts, l)
  BY <1>5 DEF Shape
<1>7. Cardinality(Forms(ts, o + 1, (o + 1) + 1)) = 0 /\ ~ HasQuote(ts, o + 1, (o + 1) + 1)
  <2>1. o + 1 \in Nat
    OBVIOUS
  <2> QED  BY ONLY <2>1, FormsFirst
<1>8. Contents(ts, m, o + 1, (o + 1) + 1)
  <2>1. m.forms = l
    BY DEF l
  <2> QED  BY <1>5, <1>6, <1>7, <2>1 DEF Contents
<1>9. Stacked(ts, tt, js, o + 1) /\ tt # <<>>
  BY <1>1, <1>2, <1>8, StackedOpen DEF js
<1> QED  BY <1>1, <1>3, <1>4, <1>9 DEF OpenAt

\* A list that is not the root and has ended is a form.
LEMMA ClosedForm ==
    ASSUME NEW ts, Len(ts) \in Nat, NEW ks, NEW o \in Nat, o < Len(ts), Nested(ts, ks, o), ts[o + 1] = Close,
           NEW l, Contents(ts, l, ks[Len(ks)], o + 1), Sound(ts, ks[Len(ks)], o + 1), Len(ks) # 1,
           \A r \in Roots(ts) : r = ks[1], NEW f, f.type = "LIST", f.forms = l.forms
    PROVE  FormOK(ts, f)
<1> DEFINE k == ks[Len(ks)]
<1>1. Match(ts, k) = {o + 1}
  BY CloseMatch
<1>2. k \in Lists(ts) /\ Len(ks) \in Nat /\ Len(ks) >= 1 /\ Depth(ts, ks[1]) \in Int
  BY NestedAt, DepthNext
<1>3. Depth(ts, k) = Depth(ts, ks[1]) + Len(ks) - 1
  <2>1. Len(ks) \in 1 .. Len(ks)
    BY <1>2
  <2> QED  BY <2>1 DEF Nested
<1> HIDE DEF k
<1>4. k # ks[1]
  <2> SUFFICES ASSUME k = ks[1]  PROVE FALSE
    OBVIOUS
  <2> DEFINE a == Depth(ts, ks[1])
             n == Len(ks)
  <2>1. a \in Int /\ n \in Nat /\ a = a + n - 1 /\ n # 1
    BY <1>2, <1>3
  <2> HIDE DEF a, n
  <2> QED  BY ONLY <2>1
<1>5. k \notin Roots(ts)
  BY <1>4
<1>6. ASSUME EarlyPairs(ts)
      PROVE  Cardinality(Forms(ts, k, o + 1)) = 2
  <2>1. k \in Lists(ts) \ Roots(ts) /\ o + 1 \in Match(ts, k)
    BY <1>1, <1>2, <1>5
  <2>2. LineOf(ts, o + 1) # LastLine(ts) /\ ~ HasQuote(ts, k, o + 1)
    BY <1>6, <2>1 DEF EarlyPairs
  <2> QED  BY <2>2 DEF Sound, k
<1>7. Len(l.forms) = Cardinality(Forms(ts, k, o + 1)) /\ \A i \in 1 .. Len(l.forms) : FormOK(ts, l.forms[i])
  BY DEF Contents, Shape, k
<1>8. \A i \in 1 .. Len(l.forms) : l.forms[i].type # "WILD"
  BY <1>7 DEF FormOK
<1> QED  BY <1>6, <1>7, <1>8 DEF FormOK

LEMMA OpenClose ==
    ASSUME NEW ts, Len(ts) \in Nat, NEW ks, NEW o \in Nat, o < Len(ts), Nested(ts, ks, o), ts[o + 1] = Close,
           \A r \in Roots(ts) : r = ks[1], NEW st, Stacked(ts, st, ks, o),
           Sound(ts, ks[Len(ks)], o + 1), Len(ks) # 1,
           NEW l, l = Last(Front(st)), NEW f, FormOK(ts, f), NEW m, m.forms = Append(l.forms, f), m.is_list = l.is_list,
           NEW tt, tt = Append(Front(Front(st)), m)
    PROVE  OpenAt(ts, o + 1, tt) /\ tt # <<>>
<1> DEFINE js == Front(ks)
           s == Front(st)
<1>1. Len(ks) \in Nat /\ Len(ks) >= 1 /\ ks[Len(ks)] \in Nat /\ Above(ts, ks[Len(ks)], o) /\ ks[Len(ks)] <= o
  BY NestedAt
<1>2. Nested(ts, js, o + 1) /\ Len(ks) = Len(js) + 1 /\ \A i \in 1 .. Len(js) : js[i] = ks[i]
  BY NestedClose
<1> HIDE DEF js
<1>3. Len(js) \in Nat /\ Len(js) >= 1 /\ js[1] = ks[1] /\ js[Len(js)] = ks[Len(js)]
  <2>1. Len(js) \in Nat /\ Len(js) >= 1
    BY <1>2, NestedAt
  <2> QED  BY <1>2, <2>1
<1> DEFINE k == ks[Len(js)]
           b == ks[Len(ks)]
<1>4. IsSeq(st) /\ Len(st) = Len(ks) /\ Contents(ts, st[Len(js)], k, b)
  <2>1. Len(js) \in 1 .. Len(ks) - 1 /\ Len(js) + 1 = Len(ks)
    BY <1>2, <1>3
  <2> QED  BY <2>1 DEF Stacked
<1>5. l = st[Len(js)]
  <2>1. st # <<>>
    BY <1>1, <1>4, SeqIs
  <2>2. IsSeq(s) /\ Len(st) = Len(s) + 1 /\ Len(s) \in Nat /\ \A i \in 1 .. Len(s) : st[i] = s[i]
    BY <1>4, <2>1, Popped
  <2> HIDE DEF s
  <2>3. Len(s) = Len(js)
    BY <1>2, <1>3, <1>4, <2>2
  <2>4. l = s[Len(s)]
    BY DEF Last, s
  <2> QED  BY <1>3, <2>2, <2>3, <2>4
<1>6. k \in Nat /\ k < b /\ ts[b] = Open /\ Depth(ts, b) = Depth(ts, k) + 1 /\ b \in Nat /\ b < o + 1
  <2>1. Len(js) \in 1 .. Len(ks) /\ Len(ks) \in 1 .. Len(ks) /\ Len(ks) \in 2 .. Len(ks) /\ Len(ks) - 1 = Len(js)
    BY <1>1, <1>2, <1>3
  <2>2. k \in Nat /\ Depth(ts, k) \in Int /\ Depth(ts, ks[1]) \in Int
    BY <2>1, NestedAt, DepthNext
  <2>3. k < b /\ b \in Lists(ts)
    BY <2>1 DEF Nested
  <2>4. Depth(ts, b) = Depth(ts, ks[1]) + Len(ks) - 1 /\ Depth(ts, k) = Depth(ts, ks[1]) + Len(js) - 1
    BY <2>1 DEF Nested
  <2>5. ts[b] = Open
    BY <2>3 DEF Lists
  <2>0. b \in Nat /\ b <= o
    BY <1>1
  <2> HIDE DEF k, b
  <2>6. Depth(ts, b) = Depth(ts, k) + 1
    <3>1. Len(js) \in Nat /\ Len(ks) = Len(js) + 1
      BY <1>2, <1>3
    <3> QED  BY ONLY <2>2, <2>4, <3>1
  <2>7. b < o + 1
    BY <2>0
  <2> QED  BY <2>0, <2>2, <2>3, <2>5, <2>6, <2>7
<1> HIDE DEF k, b
<1>7. /\ Cardinality(Forms(ts, k, (o + 1) + 1)) = Cardinality(Forms(ts, k, b)) + 1
      /\ HasQuote(ts, k, (o + 1) + 1) => HasQuote(ts, k, b)
      /\ HasQuote(ts, k, b) => HasQuote(ts, k, (o + 1) + 1)
  <2>1. (o + 1) - 1 = o /\ o + 1 \in Nat
    OBVIOUS
  <2>2. Above(ts, b, o)
    BY <1>1 DEF b
  <2>3. Above(ts, b, (o + 1) - 1)
    BY <2>1, <2>2
  <2> QED  BY <1>6, <2>1, <2>3, FormsOver
<1>8. Contents(ts, m, k, (o + 1) + 1)
  <2>1. /\ Contents(ts, l, k, b) /\ FormOK(ts, f)
        /\ m.forms = Append(l.forms, f) /\ m.is_list = l.is_list
    BY <1>4, <1>5
  <2> QED  BY ONLY <1>7, <2>1, ContentsMore
<1>9. Contents(ts, m, js[Len(js)], (o + 1) + 1)
  BY <1>3, <1>8 DEF k
<1>10. Stacked(ts, tt, js, o + 1) /\ tt # <<>>
  <2>1. o \in Nat /\ Stacked(ts, st, ks, o) /\ tt = Append(Front(Front(st)), m) /\ Len(ks) \in Nat
    BY <1>1
  <2>2. Shorter(js, ks)
    BY <1>2, <1>3 DEF Shorter
  <2> QED  BY ONLY <1>9, <2>1, <2>2, StackedClose
<1> QED  BY <1>2, <1>3, <1>10 DEF OpenAt
-----------------------------------------------------------------------------
(* What the parser says of the tokens *)

\* The result is that of the book.
Judged(ts, res) ==
    /\ res.type = "LIST" => Accepted(ts) /\ Shape(ts, res.forms)
    /\ res.type # "LIST" => ~ Accepted(ts)
    /\ res.type = "ERROR" /\ res.kind = PAIR =>
        Broken(ts) # {} /\ res.line = LineOf(ts, Min(Broken(ts)))

\* The next token is a parenthesis that ends no list, or one that is no pair.
AtClose(ts, o) == o < Len(ts) /\ ts[o + 1] = Close /\ Roots(ts) = {}

\* While the quote is read: nothing but ends of lines before, lists open that
\* are not the root, the quote, an error or a form that is no quote.
Quoting(ts, o, st, res) ==
    \/ st = <<>> /\ res = NONE /\ Solid(ts) \cap (1 .. o) = {}
    \/ st # <<>> /\ res = NONE /\ Roots(ts) = {} /\ OpenAt(ts, o, st)
    \/ st = <<>> /\ res.type = "QUOTE" /\ AtQuote(ts, o)
    \/ st = <<>> /\ res.type = "ERROR" /\ AtClose(ts, o)
    \/ st = <<>> /\ res.type \notin {"NONE", "QUOTE", "ERROR"} /\ Roots(ts) = {}

\* While the root is read.
Rooting(ts, o, st, res) ==
    \/ st = <<>> /\ res = NONE /\ (AtQuote(ts, o) \/ AtClose(ts, o))
    \/ st # <<>> /\ res = NONE /\ Roots(ts) # {} /\ OpenAt(ts, o, st)
    \/ st = <<>> /\ res.type # "NONE" /\ Judged(ts, res)

\* Until a slot past the tokens is read, the parser has read what the book
\* says; after that the tokens are no complete text.
ParseInv ==
    /\ overrun \in BOOLEAN
    /\ overrun => pc # "lex" /\ ~ Complete(tokens)
    /\ pc = "lex" => ~ overrun /\ offset = 0 /\ stack = <<>> /\ result = NONE
    /\ pc # "lex" /\ ~ overrun =>
        /\ offset \in 0 .. Len(tokens)
        /\ pc = "quote" => Quoting(tokens, offset, stack, result)
        /\ pc = "root" => Rooting(tokens, offset, stack, result)
        /\ pc = "done" => Judged(tokens, result)

\* The tokens of the text.
Tokens ==
    /\ tokens \in Seq(Seq(STRING)) /\ text \in Seq(STRING) /\ slots \in Seq(Marks)
    /\ Lexed(tokens, text, Starts(text))

LEMMA TokensAre ==
    ASSUME Tokens
    PROVE  Len(tokens) \in Nat /\ DOMAIN tokens = 1 .. Len(tokens)
BY DEF Tokens

\* read_list asks what the book asks of a list that ends.
LEMMA SoundIs ==
    ASSUME Tokens, offset \in Nat, ~ reader_eof,
           NEW ks, Stacked(tokens, stack, ks, offset)
    PROVE  /\ IsPair(Top.forms) \/ Top.is_list \/ OnLastLine => Sound(tokens, ks[Len(ks)], offset + 1)
           /\ Sound(tokens, ks[Len(ks)], offset + 1) => IsPair(Top.forms) \/ Top.is_list \/ OnLastLine
           /\ Line = LineOf(tokens, offset + 1)
<1> DEFINE k == ks[Len(ks)]
           e == offset + 1
<1>1. Contents(tokens, Top, k, e)
  BY DEF Stacked, Top, Last
<1>2. /\ Len(Top.forms) = Cardinality(Forms(tokens, k, e))
      /\ Top.is_list <=> HasQuote(tokens, k, e)
  BY <1>1 DEF Contents
<1>3. Line = LineOf(tokens, e)
  <2>1. /\ Len(tokens) \in Nat /\ offset < Len(tokens)
        /\ \A i \in 1 .. Len(tokens) : memory[i] = tokens[i]
    BY MemoryIs DEF Tokens, reader_eof
  <2>2. (offset + 1) - 1 = offset /\ \A i \in 1 .. offset : i \in 1 .. Len(tokens)
    BY <2>1
  <2> DEFINE ms == memory
  <2> HIDE DEF ms
  <2>3. {i \in 1 .. offset : ms[i] = Newline} = {i \in 1 .. offset : tokens[i] = Newline}
    BY <2>1, <2>2 DEF ms
  <2>4. LineOf(ms, offset + 1) = LineOf(tokens, offset + 1)
    BY <2>2, <2>3 DEF LineOf, Count
  <2> QED  BY <2>4 DEF Line, ms
<1>4. line_count = LastLine(tokens)
  <2>1. Count(tokens, Newline, 1, Len(tokens)) = Count(text, "\n", 1, Len(text))
    BY LinesAgree, Zenon DEF Tokens
  <2> QED  BY <2>1, Zenon DEF line_count, LastLine
<1>5. OnLastLine <=> LineOf(tokens, e) = LastLine(tokens)
  BY <1>3, <1>4 DEF OnLastLine
<1> HIDE DEF k, e
<1>6. IsPair(Top.forms) <=> Cardinality(Forms(tokens, k, e)) = 2
  BY <1>2 DEF IsPair
<1>7. /\ IsPair(Top.forms) \/ Top.is_list \/ OnLastLine => Sound(tokens, k, e)
      /\ Sound(tokens, k, e) => IsPair(Top.forms) \/ Top.is_list \/ OnLastLine
  BY <1>2, <1>5, <1>6, Zenon DEF Sound
<1> QED  BY <1>3, <1>7 DEF k, e

\* A list with other forms, and one with a quote.
LEMMA ListWith ==
    ASSUME NEW l, l = [forms |-> l.forms, is_list |-> l.is_list], NEW fs, NEW m, m = [l EXCEPT !.forms = fs]
    PROVE  m.forms = fs /\ m.is_list = l.is_list
<1> DEFINE f == l.forms
           b == l.is_list
<1>1. l = [forms |-> f, is_list |-> b] /\ b = l.is_list
  OBVIOUS
<1> HIDE DEF f, b
<1>2. m = [forms |-> fs, is_list |-> b]
  BY <1>1
<1> QED  BY ONLY <1>1, <1>2

\* The tokens and lists after a turn of the loop of read_list.
ListAfter ==
    /\ offset' \in 0 .. Len(tokens)
    /\ \/ stack' # <<>> /\ result' = NONE /\ OpenAt(tokens, offset', stack')
       \/ /\ stack' = <<>> /\ result'.type \in {"LIST", "ERROR"}
          /\ result'.type = "ERROR" => offset' < Len(tokens) /\ tokens[offset' + 1] = Close
          /\ Roots(tokens) # {} => Judged(tokens, result')

\* A list that has to be a pair is none: its line is named.
LEMMA BrokenParse ==
    ASSUME Tokens, offset \in Nat, ~ reader_eof, tokens[offset + 1] = Close,
           NEW ks, Nested(tokens, ks, offset), Stacked(tokens, stack, ks, offset),
           \A r \in Roots(tokens) : r = ks[1], ~ Sound(tokens, ks[Len(ks)], offset + 1),
           result' = lison_raise(PAIR), stack' = <<>>, offset' = offset
    PROVE  ListAfter
<1>1. Len(tokens) \in Nat /\ DOMAIN tokens = 1 .. Len(tokens) /\ offset < Len(tokens)
  <2>1. Len(tokens) \in Nat /\ DOMAIN tokens = 1 .. Len(tokens)
    BY TokensAre
  <2> QED  BY <2>1 DEF reader_eof
<1>2. Line = LineOf(tokens, offset + 1)
  BY SoundIs
<1>3. result'.type = "ERROR" /\ result'.kind = PAIR /\ result'.line = Line
  <2>1. \A a : lison_raise(a).type = "ERROR" /\ lison_raise(a).kind = a /\ lison_raise(a).line = Line
    BY DEF lison_raise
  <2> QED  BY <2>1, Zenon
<1>4. ASSUME Roots(tokens) # {}
      PROVE  Judged(tokens, result')
  <2>1. ks[1] \in Roots(tokens)
    BY <1>4
  <2>2. offset + 1 \in Broken(tokens) /\ Min(Broken(tokens)) = offset + 1
    BY <1>1, <2>1, NestedBroken
  <2>3. Broken(tokens) # {} /\ ~ Accepted(tokens)
    BY <2>2 DEF Accepted
  <2> QED  BY <1>2, <1>3, <2>2, <2>3, Zenon DEF Judged
<1>5. offset' \in 0 .. Len(tokens) /\ offset' < Len(tokens) /\ tokens[offset' + 1] = Close
  BY <1>1
<1> QED  BY <1>3, <1>4, <1>5, Zenon DEF ListAfter

\* A list ends.
LEMMA CloseParse ==
    ASSUME Tokens, offset \in Nat, ~ reader_eof, GoodStack(stack), stack # <<>>, result = NONE,
           tokens[offset + 1] = Close, OpenAt(tokens, offset, stack), CloseList
    PROVE  ListAfter
<1>1. Len(tokens) \in Nat /\ DOMAIN tokens = 1 .. Len(tokens) /\ offset < Len(tokens)
  <2>1. Len(tokens) \in Nat /\ DOMAIN tokens = 1 .. Len(tokens)
    BY TokensAre
  <2> QED  BY <2>1 DEF reader_eof
<1>2. PICK ks : /\ Nested(tokens, ks, offset) /\ Stacked(tokens, stack, ks, offset)
                /\ \A r \in Roots(tokens) : r = ks[1]
  BY DEF OpenAt
<1>3. Len(ks) \in Nat /\ Len(ks) >= 1
  BY <1>2, NestedAt
<1>4. /\ IsPair(Top.forms) \/ Top.is_list \/ OnLastLine => Sound(tokens, ks[Len(ks)], offset + 1)
      /\ Sound(tokens, ks[Len(ks)], offset + 1) => IsPair(Top.forms) \/ Top.is_list \/ OnLastLine
  BY <1>2, SoundIs
<1> DEFINE l == Top
           lists == Front(stack)
           f == [type |-> "LIST", forms |-> l.forms, vectors |-> Vectors(l.forms)]
<1>5. IsSeq(lists) /\ Len(stack) = Len(lists) + 1 /\ Len(lists) \in Nat /\ Len(stack) = Len(ks)
  <2>1. IsSeq(stack) /\ Len(stack) = Len(ks)
    BY <1>2 DEF Stacked
  <2> QED  BY <2>1, Popped
<1>6. Contents(tokens, l, ks[Len(ks)], offset + 1)
  BY <1>2 DEF Stacked, Top, Last
<1>7. GoodStack(lists)
  BY TopIs
<1>8. f.type = "LIST" /\ f.forms = l.forms
  OBVIOUS
<1>9. CASE Sound(tokens, ks[Len(ks)], offset + 1)
  <2>1. reader_next /\ Took(f, lists)
    BY <1>4, <1>9, Zenon DEF CloseList
  <2>2. offset' = offset + 1
    BY <2>1 DEF reader_next
  <2>3. offset' \in 0 .. Len(tokens)
    BY <1>1, <2>2
  <2> HIDE DEF f
  <2>4. CASE Len(ks) = 1
    <3>1. lists = <<>>
      <4> HIDE DEF lists
      <4> DEFINE n == Len(lists)
      <4>1. n \in Nat /\ 1 = n + 1
        BY <1>5, <2>4
      <4> HIDE DEF n
      <4>2. n = 0
        BY ONLY <4>1
      <4> QED  BY <1>5, <4>2, SeqIs DEF n
    <3>2. result' = f /\ stack' = <<>>
      BY <2>1, <3>1, Zenon DEF Took
    <3>3. Shape(tokens, f.forms)
      BY <1>6, <1>8 DEF Contents
    <3>4. ASSUME Roots(tokens) # {}
          PROVE  Judged(tokens, f)
      <4>1. ks[1] \in Roots(tokens) /\ Sound(tokens, ks[1], offset + 1)
        BY <1>2, <1>9, <2>4, <3>4
      <4>2. Accepted(tokens)
        BY <1>1, <1>2, <2>4, <4>1, NestedEnd
      <4> QED  BY <1>8, <3>3, <4>2 DEF Judged
    <3> QED  BY <1>8, <2>3, <3>2, <3>4 DEF ListAfter
  <2>5. CASE Len(ks) # 1
    <3>1. lists # <<>>
      <4> HIDE DEF lists
      <4>1. Len(lists) # 0
        BY <1>3, <1>5, <2>5
      <4> QED  BY <1>5, <4>1, SeqIs
    <3> DEFINE b == Last(lists)
               fs == Append(b.forms, f)
               m == [b EXCEPT !.forms = fs]
    <3>2. stack' = Append(Front(lists), m) /\ result' = result
      BY <2>1, <3>1 DEF Took
    <3>3. b = [forms |-> b.forms, is_list |-> b.is_list]
      BY <1>7, <3>1, TopIs
    <3> HIDE DEF b, fs
    <3>4. m.forms = fs /\ m.is_list = b.is_list
      BY <3>3, ListWith
    <3> HIDE DEF m
    <3>5. FormOK(tokens, f)
      BY <1>1, <1>2, <1>6, <1>8, <1>9, <2>5, ClosedForm
    <3>6. m.forms = Append(b.forms, f) /\ b = Last(Front(stack)) /\ stack' = Append(Front(Front(stack)), m)
      BY <3>2, <3>4 DEF b, fs
    <3>7. OpenAt(tokens, offset + 1, stack') /\ stack' # <<>>
      BY <1>1, <1>2, <1>9, <2>5, <3>4, <3>5, <3>6, OpenClose
    <3> QED  BY <2>2, <2>3, <3>2, <3>7 DEF ListAfter
  <2> QED  BY <2>4, <2>5
<1>10. CASE ~ Sound(tokens, ks[Len(ks)], offset + 1)
  <2>1. Raise(PAIR, Vectors(Top.forms), Front(stack)) /\ offset' = offset
    BY <1>4, <1>10, Zenon DEF CloseList
  <2>2. result' = lison_raise(PAIR) /\ stack' = <<>>
    BY <2>1, Zenon DEF Raise
  <2> QED  BY <1>2, <1>10, <2>1, <2>2, BrokenParse
<1> QED  BY <1>9, <1>10
LEMMA ReadListParse ==
    ASSUME Tokens, offset \in Nat, ~ reader_eof, GoodStack(stack), stack # <<>>, result = NONE,
           OpenAt(tokens, offset, stack), NEW t, t = tokens[offset + 1], read_list(t)
    PROVE  ListAfter
<1>1. Len(tokens) \in Nat /\ DOMAIN tokens = 1 .. Len(tokens) /\ offset < Len(tokens) /\ offset + 1 \in 0 .. Len(tokens)
  <2>1. Len(tokens) \in Nat /\ DOMAIN tokens = 1 .. Len(tokens)
    BY TokensAre
  <2> QED  BY <2>1 DEF reader_eof
<1> DEFINE l == Top
           t0 == Front(stack)
<1>2. l = Last(stack) /\ l = [forms |-> l.forms, is_list |-> l.is_list]
  BY TopIs DEF Top
<1>3. CASE t = Close
  <2>1. CloseList
    BY <1>3, FourMarks, Zenon DEF read_list
  <2> QED  BY <1>3, <2>1, CloseParse
<1>4. CASE t = Newline
  <2>1. SkipNewline
    BY <1>4, FourMarks, Zenon DEF read_list
  <2>2. stack' = stack /\ result' = result /\ offset' = offset + 1
    BY <2>1 DEF SkipNewline, reader_next
  <2>3. tokens[offset + 1] = Newline /\ tokens[offset + 1] # Open /\ tokens[offset + 1] # Close
    BY <1>4, FourMarks
  <2> HIDE DEF l
  <2>4. OpenAt(tokens, offset + 1, stack') /\ stack' # <<>>
    BY <1>1, <1>2, <2>2, <2>3, OpenSkip
  <2> QED  BY <1>1, <2>2, <2>4 DEF ListAfter
<1>5. CASE t = Open
  <2> DEFINE m == [forms |-> <<>>, is_list |-> FALSE]
  <2>1. OpenList
    BY <1>5, FourMarks, Zenon DEF read_list
  <2>2. stack' = Append(stack, m) /\ result' = result /\ offset' = offset + 1
    BY <2>1 DEF OpenList, reader_next
  <2>3. m.forms = <<>> /\ m.is_list = FALSE
    OBVIOUS
  <2> HIDE DEF m, l
  <2>4. OpenAt(tokens, offset + 1, stack') /\ stack' # <<>>
    BY <1>1, <1>5, <2>2, <2>3, OpenMore
  <2> QED  BY <1>1, <2>2, <2>4 DEF ListAfter
<1>6. CASE t = Quote
  <2> DEFINE m == [l EXCEPT !.is_list = TRUE]
  <2>1. stack' = Append(t0, m) /\ offset' = offset + 1 /\ result' = result
    BY <1>6, FourMarks, Zenon DEF read_list, reader_next
  <2>2. m.forms = l.forms /\ m.is_list = TRUE
    <3> DEFINE f == l.forms
               b == l.is_list
    <3>1. l = [forms |-> f, is_list |-> b] /\ f = l.forms
      BY <1>2
    <3> HIDE DEF f, b
    <3>2. m = [forms |-> f, is_list |-> TRUE]
      BY <3>1, MarkKeeps
    <3> HIDE DEF m
    <3> QED  BY ONLY <3>1, <3>2
  <2>3. tokens[offset + 1] = Quote /\ tokens[offset + 1] # Open /\ tokens[offset + 1] # Close
    BY <1>6, FourMarks
  <2> HIDE DEF m, l
  <2>4. OpenAt(tokens, offset + 1, stack') /\ stack' # <<>>
    BY <1>1, <1>2, <2>1, <2>2, <2>3, OpenSkip
  <2> QED  BY <1>1, <2>1, <2>4 DEF ListAfter
<1>7. CASE t \notin {Close, Newline, Open, Quote}
  <2> DEFINE f == read_atom(t)
             fs == Append(l.forms, f)
             m == [l EXCEPT !.forms = fs]
  <2>1. reader_next /\ Took(f, stack)
    BY <1>7, Zenon DEF read_list
  <2>2. offset' = offset + 1
    BY <2>1 DEF reader_next
  <2>3. f.type # "WILD" /\ f.type # "LIST"
    BY AtomIs
  <2> HIDE DEF f
  <2>4. FormOK(tokens, f)
    BY <2>3 DEF FormOK
  <2>5. stack' = Append(t0, m) /\ result' = result
    BY <2>1 DEF Took, Top
  <2> HIDE DEF fs, l
  <2>6. m.forms = fs /\ m.is_list = l.is_list
    BY <1>2, ListWith
  <2> HIDE DEF m
  <2>7. /\ tokens[offset + 1] # Open /\ tokens[offset + 1] # Close /\ tokens[offset + 1] \notin {Newline, Quote}
        /\ m.forms = Append(l.forms, f)
    BY <1>7, <2>6 DEF fs
  <2>8. OpenAt(tokens, offset + 1, stack') /\ stack' # <<>>
    BY <1>1, <1>2, <2>4, <2>5, <2>6, <2>7, OpenSkip
  <2> QED  BY <1>1, <2>2, <2>5, <2>8 DEF ListAfter
<1> QED  BY <1>3, <1>4, <1>5, <1>6, <1>7

\* The parser after a token outside of all lists.
FormAfter(t) ==
    /\ t = Open => /\ offset' = offset + 1 /\ result' = NONE
                   /\ \E m : m.forms = <<>> /\ m.is_list = FALSE /\ stack' = Append(<<>>, m)
    /\ t # Open => stack' = <<>>
    /\ t = Close => offset' = offset /\ result'.type = "ERROR" /\ result'.kind = EOF
    /\ t = Newline => offset' = offset + 1 /\ result' = NONE
    /\ t = Quote => offset' = offset + 1 /\ result'.type = "QUOTE"
    /\ t \notin {Open, Close, Newline, Quote} =>
        /\ offset' = offset + 1
        /\ result'.type \in {"NUMBER", "FLOAT", "STR", "NIL", "TRUE", "SYMBOL"}

LEMMA ReadFormParse ==
    ASSUME stack = <<>>, result = NONE, NEW t, read_form(t)
    PROVE  FormAfter(t)
<1>1. CASE t = Open
  <2> DEFINE m == [forms |-> <<>>, is_list |-> FALSE]
  <2>1. OpenList
    BY <1>1, FourMarks, Zenon DEF read_form
  <2>2. stack' = Append(<<>>, m) /\ result' = NONE /\ offset' = offset + 1
    BY <2>1 DEF OpenList, reader_next
  <2>3. m.forms = <<>> /\ m.is_list = FALSE
    OBVIOUS
  <2> HIDE DEF m
  <2> QED  BY <1>1, <2>2, <2>3, FourMarks DEF FormAfter
<1>2. CASE t = Close
  <2>1. Raise(EOF, 0, <<>>) /\ offset' = offset
    BY <1>2, FourMarks, Zenon DEF read_form
  <2>2. stack' = <<>> /\ result' = lison_raise(EOF)
    BY <2>1, Zenon DEF Raise
  <2>3. \A a : lison_raise(a).type = "ERROR" /\ lison_raise(a).kind = a
    BY DEF lison_raise
  <2>4. result'.type = "ERROR" /\ result'.kind = EOF
    BY <2>2, <2>3, Zenon
  <2> QED  BY <1>2, <2>1, <2>2, <2>4, FourMarks DEF FormAfter
<1>3. CASE t = Newline
  <2>1. SkipNewline
    BY <1>3, FourMarks, Zenon DEF read_form
  <2>2. stack' = <<>> /\ result' = NONE /\ offset' = offset + 1
    BY <2>1 DEF SkipNewline, reader_next
  <2> QED  BY <1>3, <2>2, FourMarks DEF FormAfter
<1>4. CASE t = Quote
  <2>1. reader_next /\ Took([type |-> "QUOTE"], stack)
    BY <1>4, FourMarks, Zenon DEF read_form
  <2>2. offset' = offset + 1
    BY <2>1 DEF reader_next
  <2>3. stack' = <<>> /\ result' = [type |-> "QUOTE"]
    BY <2>1, Zenon DEF Took
  <2> QED  BY <1>4, <2>2, <2>3, FourMarks DEF FormAfter
<1>5. CASE t \notin {Close, Newline, Open, Quote}
  <2>1. reader_next /\ Took(read_atom(t), stack)
    BY <1>5, Zenon DEF read_form
  <2>2. offset' = offset + 1
    BY <2>1 DEF reader_next
  <2>3. stack' = <<>> /\ result' = read_atom(t)
    BY <2>1, Zenon DEF Took
  <2>4. result'.type \in {"NUMBER", "FLOAT", "STR", "NIL", "TRUE", "SYMBOL"}
    BY <2>3, AtomIs
  <2> QED  BY <1>5, <2>2, <2>3, <2>4 DEF FormAfter
<1> QED  BY <1>1, <1>2, <1>3, <1>4, <1>5
LEMMA SolidNext ==
    ASSUME NEW ts, Len(ts) \in Nat, DOMAIN ts = 1 .. Len(ts), NEW o \in Nat, o < Len(ts)
    PROVE  /\ ts[o + 1] = Newline => Solid(ts) \cap (1 .. o + 1) = Solid(ts) \cap (1 .. o)
           /\ ts[o + 1] = Newline /\ AtQuote(ts, o) => AtQuote(ts, o + 1)
           /\ ts[o + 1] = Quote /\ Solid(ts) \cap (1 .. o) = {} => AtQuote(ts, o + 1)
<1>1. 1 .. o + 1 = (1 .. o) \cup {o + 1} /\ o + 1 \in DOMAIN ts
  OBVIOUS
<1>2. ts[o + 1] = Newline => Solid(ts) \cap (1 .. o + 1) = Solid(ts) \cap (1 .. o)
  BY <1>1 DEF Solid
<1>3. ASSUME ts[o + 1] = Quote, Solid(ts) \cap (1 .. o) = {}
      PROVE  AtQuote(ts, o + 1)
  <2>1. o + 1 \in Solid(ts)
    BY <1>1, <1>3, FourMarks DEF Solid
  <2>2. Solid(ts) \cap (1 .. o + 1) = {o + 1}
    BY <1>1, <1>3, <2>1
  <2> QED  BY <1>3, <2>1, <2>2 DEF AtQuote
<1>4. ts[o + 1] = Newline /\ AtQuote(ts, o) => AtQuote(ts, o + 1)
  BY <1>2 DEF AtQuote
<1> QED  BY <1>2, <1>3, <1>4

\* The quote is looked for.
LEMMA QuoteParse ==
    ASSUME Tokens, offset \in Nat, offset < Len(tokens), stack = <<>>, result = NONE,
           Solid(tokens) \cap (1 .. offset) = {}, NEW t, t = tokens[offset + 1], read_form(t)
    PROVE  offset' \in 0 .. Len(tokens) /\ Quoting(tokens, offset', stack', result')
<1>1. Len(tokens) \in Nat /\ DOMAIN tokens = 1 .. Len(tokens) /\ offset + 1 \in 0 .. Len(tokens) /\ offset \in 0 .. Len(tokens)
  BY TokensAre
<1>2. FormAfter(t)
  BY ReadFormParse
<1>3. /\ tokens[offset + 1] = Newline => Solid(tokens) \cap (1 .. offset + 1) = Solid(tokens) \cap (1 .. offset)
      /\ tokens[offset + 1] = Quote => AtQuote(tokens, offset + 1)
  BY <1>1, SolidNext
<1>4. t # Newline /\ t # Quote => Roots(tokens) = {}
  BY <1>1, NoRoot
<1>5. CASE t = Open
  <2>1. PICK m : m.forms = <<>> /\ m.is_list = FALSE /\ stack' = Append(<<>>, m)
    BY <1>2, <1>5 DEF FormAfter
  <2>2. Roots(tokens) = {}
    BY <1>4, <1>5, FourMarks
  <2>3. OpenAt(tokens, offset + 1, stack') /\ stack' # <<>>
    BY <1>1, <1>5, <2>1, <2>2, OpenFirst
  <2>4. offset' = offset + 1 /\ result' = NONE
    BY <1>2, <1>5 DEF FormAfter
  <2> QED  BY <1>1, <2>2, <2>3, <2>4 DEF Quoting
<1>6. CASE t = Close
  <2>1. Roots(tokens) = {}
    BY <1>4, <1>6, FourMarks
  <2>2. stack' = <<>> /\ offset' = offset /\ result'.type = "ERROR"
    BY <1>2, <1>6, FourMarks DEF FormAfter
  <2> QED  BY <1>1, <1>6, <2>1, <2>2 DEF Quoting, AtClose
<1>7. CASE t = Newline
  <2>1. stack' = <<>> /\ offset' = offset + 1 /\ result' = NONE
    BY <1>2, <1>7, FourMarks DEF FormAfter
  <2>2. Solid(tokens) \cap (1 .. offset + 1) = {}
    BY <1>3, <1>7
  <2> QED  BY <1>1, <2>1, <2>2 DEF Quoting
<1>8. CASE t = Quote
  <2>1. stack' = <<>> /\ offset' = offset + 1 /\ result'.type = "QUOTE"
    BY <1>2, <1>8, FourMarks DEF FormAfter
  <2> QED  BY <1>1, <1>3, <1>8, <2>1 DEF Quoting
<1>9. CASE t \notin {Open, Close, Newline, Quote}
  <2>1. stack' = <<>> /\ offset' = offset + 1
        /\ result'.type \in {"NUMBER", "FLOAT", "STR", "NIL", "TRUE", "SYMBOL"}
    BY <1>2, <1>9 DEF FormAfter
  <2>2. result'.type \notin {"NONE", "QUOTE", "ERROR"}
    BY <2>1
  <2>3. Roots(tokens) = {}
    BY <1>4, <1>9
  <2> QED  BY <1>1, <2>1, <2>2, <2>3 DEF Quoting
<1> QED  BY <1>5, <1>6, <1>7, <1>8, <1>9

\* The root is looked for.
LEMMA RootParse ==
    ASSUME Tokens, offset \in Nat, offset < Len(tokens), stack = <<>>, result = NONE,
           AtQuote(tokens, offset) \/ AtClose(tokens, offset), NEW t, t = tokens[offset + 1], read_form(t)
    PROVE  offset' \in 0 .. Len(tokens) /\ Rooting(tokens, offset', stack', result')
<1>1. Len(tokens) \in Nat /\ DOMAIN tokens = 1 .. Len(tokens) /\ offset + 1 \in 0 .. Len(tokens) /\ offset \in 0 .. Len(tokens)
  BY TokensAre
<1>2. FormAfter(t)
  BY ReadFormParse
<1>3. t # Newline /\ t # Open => Roots(tokens) = {}
  <2>1. CASE AtQuote(tokens, offset)
    BY <1>1, <2>1, NoRoot
  <2>2. CASE AtClose(tokens, offset)
    BY <2>2 DEF AtClose
  <2> QED  BY <2>1, <2>2
<1>4. t # Close => AtQuote(tokens, offset)
  BY DEF AtClose
<1>5. ASSUME Roots(tokens) = {}
      PROVE  ~ Accepted(tokens)
  BY <1>5 DEF Accepted
<1>6. CASE t = Open
  <2>1. PICK m : m.forms = <<>> /\ m.is_list = FALSE /\ stack' = Append(<<>>, m)
    BY <1>2, <1>6 DEF FormAfter
  <2>2. offset + 1 \in Roots(tokens)
    BY <1>1, <1>4, <1>6, FourMarks, RootHere
  <2>3. \A r \in Roots(tokens) : r = offset + 1
    BY <1>1, <2>2, OneRoot
  <2>4. OpenAt(tokens, offset + 1, stack') /\ stack' # <<>>
    BY <1>1, <1>6, <2>1, <2>3, OpenFirst
  <2>5. offset' = offset + 1 /\ result' = NONE
    BY <1>2, <1>6 DEF FormAfter
  <2> QED  BY <1>1, <2>2, <2>4, <2>5 DEF Rooting
<1>7. CASE t = Close
  <2>1. ~ Accepted(tokens)
    BY <1>3, <1>5, <1>7, FourMarks
  <2>2. stack' = <<>> /\ offset' = offset /\ result'.type = "ERROR" /\ result'.kind # PAIR
    BY <1>2, <1>7, FourMarks, Kinds DEF FormAfter
  <2>3. Judged(tokens, result')
    BY <2>1, <2>2 DEF Judged
  <2> QED  BY <1>1, <2>2, <2>3 DEF Rooting
<1>8. CASE t = Newline
  <2>1. stack' = <<>> /\ offset' = offset + 1 /\ result' = NONE
    BY <1>2, <1>8, FourMarks DEF FormAfter
  <2>2. AtQuote(tokens, offset + 1)
    BY <1>1, <1>4, <1>8, FourMarks, SolidNext
  <2> QED  BY <1>1, <2>1, <2>2 DEF Rooting
<1>9. CASE t \notin {Open, Close, Newline}
  <2>1. ~ Accepted(tokens)
    BY <1>3, <1>5, <1>9
  <2>2. /\ stack' = <<>> /\ offset' = offset + 1
        /\ result'.type \in {"QUOTE", "NUMBER", "FLOAT", "STR", "NIL", "TRUE", "SYMBOL"}
    BY <1>2, <1>9 DEF FormAfter
  <2>3. Judged(tokens, result') /\ result'.type # "NONE"
    BY <2>1, <2>2 DEF Judged
  <2> QED  BY <1>1, <2>2, <2>3 DEF Rooting
<1> QED  BY <1>6, <1>7, <1>8, <1>9

\* The tokens end too early.
LEMMA EndIncomplete ==
    ASSUME Tokens, offset \in 0 .. Len(tokens), reader_eof, result = NONE,
           Quoting(tokens, offset, stack, result) \/ Rooting(tokens, offset, stack, result)
    PROVE  ~ Complete(tokens)
<1>1. Len(tokens) \in Nat /\ DOMAIN tokens = 1 .. Len(tokens) /\ offset = Len(tokens)
  <2>1. Len(tokens) \in Nat /\ DOMAIN tokens = 1 .. Len(tokens)
    BY TokensAre
  <2> DEFINE n == Len(tokens)
  <2>2. n \in Nat /\ offset \in 0 .. n /\ offset >= n
    BY <2>1 DEF reader_eof
  <2> HIDE DEF n
  <2>3. offset = n
    BY ONLY <2>2
  <2> QED  BY ONLY <2>1, <2>3 DEF n
<1>2. Solid(tokens) \subseteq 1 .. Len(tokens) /\ result.type = "NONE" /\ Lists(tokens) \subseteq Nat
  BY <1>1 DEF Solid, NONE, Lists
<1>3. CASE Solid(tokens) \cap (1 .. offset) = {}
  <2>1. Solid(tokens) = {}
    BY <1>1, <1>2, <1>3
  <2>2. Cardinality(Solid(tokens)) = 0
    BY <2>1, FS_EmptySet
  <2> QED  BY <2>2 DEF Complete
<1>4. CASE AtQuote(tokens, offset)
  <2>1. PICK q : Solid(tokens) \cap (1 .. offset) = {q}
    BY <1>4 DEF AtQuote
  <2>2. Solid(tokens) = {q}
    BY <1>1, <1>2, <2>1
  <2>3. Cardinality(Solid(tokens)) = 1
    BY <2>2, FS_Singleton
  <2> QED  BY <2>3 DEF Complete
<1>5. CASE OpenAt(tokens, offset, stack)
  <2>1. PICK ks : Nested(tokens, ks, offset)
    BY <1>5 DEF OpenAt
  <2>2. ks[1] \in Nat /\ ks[1] \in Lists(tokens) /\ Above(tokens, ks[1], offset)
    BY <1>1, <2>1, NestedAt
  <2>3. Match(tokens, ks[1]) = {}
    <3> SUFFICES ASSUME NEW c \in Match(tokens, ks[1])  PROVE FALSE
      OBVIOUS
    <3>1. c > offset /\ c <= Len(tokens) /\ c \in Nat
      BY <1>1, <2>2, MatchAfter
    <3> QED  BY <1>1, <3>1
  <2> QED  BY <2>2, <2>3 DEF Complete
<1>6. ~ AtClose(tokens, offset)
  BY <1>1 DEF AtClose
<1> QED  BY <1>2, <1>3, <1>4, <1>5, <1>6 DEF Quoting, Rooting

\* A token is read.
LEMMA ReadParse ==
    ASSUME Tokens, offset \in 0 .. Len(tokens), ~ reader_eof, GoodStack(stack), result = NONE,
           NEW t, t = tokens[offset + 1], IF stack = <<>> THEN read_form(t) ELSE read_list(t)
    PROVE  /\ Quoting(tokens, offset, stack, result) =>
                offset' \in 0 .. Len(tokens) /\ Quoting(tokens, offset', stack', result')
           /\ Rooting(tokens, offset, stack, result) =>
                offset' \in 0 .. Len(tokens) /\ Rooting(tokens, offset', stack', result')
<1>1. Len(tokens) \in Nat /\ offset \in Nat /\ offset < Len(tokens)
  <2>1. Len(tokens) \in Nat
    BY TokensAre
  <2> QED  BY <2>1 DEF reader_eof
<1>2. result.type = "NONE"
  BY DEF NONE
<1>3. CASE stack = <<>>
  <2>1. read_form(t)
    BY <1>3
  <2>2. Quoting(tokens, offset, stack, result) => Solid(tokens) \cap (1 .. offset) = {}
    BY <1>2, <1>3 DEF Quoting
  <2>3. Rooting(tokens, offset, stack, result) => AtQuote(tokens, offset) \/ AtClose(tokens, offset)
    BY <1>2, <1>3 DEF Rooting
  <2> QED  BY <1>1, <1>3, <2>1, <2>2, <2>3, QuoteParse, RootParse
<1>4. CASE stack # <<>>
  <2>1. read_list(t)
    BY <1>4
  <2>2. Quoting(tokens, offset, stack, result) => Roots(tokens) = {} /\ OpenAt(tokens, offset, stack)
    BY <1>4 DEF Quoting
  <2>3. Rooting(tokens, offset, stack, result) => Roots(tokens) # {} /\ OpenAt(tokens, offset, stack)
    BY <1>4 DEF Rooting
  <2>4. OpenAt(tokens, offset, stack) => ListAfter
    BY <1>1, <1>4, <2>1, ReadListParse
  <2>5. Roots(tokens) = {} /\ ListAfter => Quoting(tokens, offset', stack', result')
    BY DEF ListAfter, Quoting, AtClose
  <2>6. Roots(tokens) # {} /\ ListAfter => Rooting(tokens, offset', stack', result')
    BY DEF ListAfter, Rooting
  <2>7. ListAfter => offset' \in 0 .. Len(tokens)
    BY DEF ListAfter
  <2> QED  BY <2>2, <2>3, <2>4, <2>5, <2>6, <2>7
<1> QED  BY <1>3, <1>4

\* The errors of lison_parse_str itself.
LEMMA OtherErrors ==
    /\ lison_raise(NOQUOTE).type = "ERROR" /\ lison_raise(NOQUOTE).kind # PAIR
    /\ lison_raise(NOLIST).type = "ERROR" /\ lison_raise(NOLIST).kind # PAIR
<1>1. \A a : lison_raise(a).type = "ERROR" /\ lison_raise(a).kind = a
  BY DEF lison_raise
<1>2. NOQUOTE # PAIR /\ NOLIST # PAIR
  BY Zenon DEF PAIR, NOQUOTE, NOLIST
<1> QED  BY <1>1, <1>2, Zenon

LEMMA ParseInit == Init => ParseInv
<1> SUFFICES ASSUME Init  PROVE ParseInv
  OBVIOUS
<1>1. pc = "lex" /\ offset = 0 /\ stack = <<>> /\ result = NONE /\ overrun = FALSE
  BY DEF Init
<1> QED  BY <1>1 DEF ParseInv

LEMMA ParseNext == LexInv /\ LiveInv /\ ParseInv /\ [Next]_lisonVars => ParseInv'
<1> SUFFICES ASSUME LexInv, LiveInv, ParseInv, [Next]_lisonVars  PROVE ParseInv'
  OBVIOUS
<1>1. pc # "lex" => Tokens
  BY LisonAssumption DEF LexInv, LiveInv, Tokens
<1>2. NONE.type = "NONE"
  BY DEF NONE
<1>3. /\ overrun \in BOOLEAN
      /\ overrun => pc # "lex" /\ ~ Complete(tokens)
      /\ pc = "lex" => ~ overrun /\ offset = 0 /\ stack = <<>> /\ result = NONE
      /\ pc # "lex" /\ ~ overrun =>
            /\ offset \in 0 .. Len(tokens)
            /\ pc = "quote" => Quoting(tokens, offset, stack, result)
            /\ pc = "root" => Rooting(tokens, offset, stack, result)
            /\ pc = "done" => Judged(tokens, result)
  BY Zenon DEF ParseInv
<1>4. CASE Lex
  <2>1. pc = "lex" /\ UNCHANGED <<pc, offset, stack, result, overrun>>
    BY <1>4, Zenon DEF Lex
  <2> QED  BY <1>3, <2>1 DEF ParseInv
<1>5. CASE LexEnd
  <2>1. pc = "lex" /\ pc' = "quote" /\ UNCHANGED <<offset, stack, result, overrun>>
    BY <1>5 DEF LexEnd
  <2>2. offset' = 0 /\ stack' = <<>> /\ result' = NONE /\ ~ overrun' /\ overrun' \in BOOLEAN
    BY <1>3, <2>1
  <2>3. LexInv'
    BY LexNext
  <2>4. Len(tokens') \in Nat
    BY <2>1, <2>3 DEF LexInv
  <2>5. Quoting(tokens', 0, <<>>, NONE)
    <3>1. 1 .. 0 = {}
      OBVIOUS
    <3> QED  BY <3>1 DEF Quoting
  <2>6. offset' \in 0 .. Len(tokens')
    BY <2>2, <2>4
  <2> QED  BY <2>1, <2>2, <2>5, <2>6 DEF ParseInv
<1>6. CASE Read
  <2>1. /\ pc \in {"quote", "root"} /\ result = NONE /\ pc' = pc /\ tokens' = tokens
        /\ \E t \in reader_current : IF stack = <<>> THEN read_form(t) ELSE read_list(t)
        /\ overrun' = (overrun \/ reader_eof)
    BY <1>6, Zenon DEF Read
  <2>2. pc # "lex" /\ pc # "done" /\ Tokens
    BY <1>1, <2>1
  <2>3. CASE overrun
    <3>1. overrun' = TRUE /\ ~ Complete(tokens)
      BY <1>3, <2>1, <2>3
    <3> QED  BY <2>1, <2>2, <3>1 DEF ParseInv
  <2>4. CASE ~ overrun /\ reader_eof
    <3>1. Quoting(tokens, offset, stack, result) \/ Rooting(tokens, offset, stack, result)
      BY <1>3, <2>1, <2>2, <2>4
    <3>2. offset \in 0 .. Len(tokens)
      BY <1>3, <2>2, <2>4
    <3>3. ~ Complete(tokens)
      BY <2>1, <2>2, <2>4, <3>1, <3>2, EndIncomplete
    <3>4. overrun' = TRUE
      BY <2>1, <2>4
    <3> QED  BY <2>1, <2>2, <3>3, <3>4 DEF ParseInv
  <2>5. CASE ~ overrun /\ ~ reader_eof
    <3>1. PICK t \in reader_current : IF stack = <<>> THEN read_form(t) ELSE read_list(t)
      BY <2>1
    <3>3. offset \in 0 .. Len(tokens) /\ GoodStack(stack)
      BY <1>3, <2>2, <2>5 DEF LiveInv
    <3>2. t = tokens[offset + 1]
      <4>1. /\ Len(memory) = Len(tokens) + Len(slots)
            /\ Len(tokens) \in Nat /\ Len(slots) \in Nat
            /\ \A i \in 1 .. Len(tokens) : memory[i] = tokens[i]
        <5>1. tokens \in Seq(Seq(STRING)) /\ slots \in Seq(Marks)
          BY <2>2, Zenon DEF Tokens
        <5> QED  BY <5>1, MemoryIs, Zenon
      <4>2. offset < Len(tokens) /\ offset + 1 \in 1 .. Len(tokens)
        BY <2>5, <3>3, <4>1 DEF reader_eof
      <4>3. offset < Len(memory) /\ memory[offset + 1] = tokens[offset + 1]
        <5>1. offset \in Nat
          BY <3>3, <4>1
        <5> DEFINE ms == memory
        <5> HIDE DEF ms
        <5> QED  BY ONLY <4>1, <4>2, <5>1 DEF ms
      <4>4. reader_current = {memory[offset + 1]}
        BY <4>3, Zenon DEF reader_current
      <4> QED  BY <3>1, <4>3, <4>4
    <3>4. /\ Quoting(tokens, offset, stack, result) =>
                offset' \in 0 .. Len(tokens) /\ Quoting(tokens, offset', stack', result')
          /\ Rooting(tokens, offset, stack, result) =>
                offset' \in 0 .. Len(tokens) /\ Rooting(tokens, offset', stack', result')
      BY <2>1, <2>2, <2>5, <3>1, <3>2, <3>3, ReadParse
    <3>5. ~ overrun' /\ overrun' \in BOOLEAN
      BY <2>1, <2>5
    <3>6. CASE pc = "quote"
      <4>1. offset' \in 0 .. Len(tokens) /\ Quoting(tokens, offset', stack', result')
        BY <1>3, <2>2, <2>5, <3>4, <3>6
      <4>2. pc' = "quote" /\ pc' # "root"
        BY <2>1, <3>6
      <4> QED  BY <2>1, <2>2, <3>5, <4>1, <4>2 DEF ParseInv
    <3>7. CASE pc = "root"
      <4>1. offset' \in 0 .. Len(tokens) /\ Rooting(tokens, offset', stack', result')
        BY <1>3, <2>2, <2>5, <3>4, <3>7
      <4>2. pc' = "root" /\ pc' # "quote"
        BY <2>1, <3>7
      <4> QED  BY <2>1, <2>2, <3>5, <4>1, <4>2 DEF ParseInv
    <3> QED  BY <2>1, <3>6, <3>7
  <2> QED  BY <2>3, <2>4, <2>5
<1>7. CASE Fault
  <2>1. pc \in {"quote", "root"} /\ result = NONE /\ reader_eof /\ pc' = "fault" /\ overrun' = TRUE /\ tokens' = tokens
    BY <1>7, Zenon DEF Fault
  <2>2. pc # "lex" /\ Tokens
    BY <1>1, <2>1
  <2>3. ~ Complete(tokens)
    <3>1. CASE overrun
      BY <1>3, <3>1
    <3>2. CASE ~ overrun
      <4>1. Quoting(tokens, offset, stack, result) \/ Rooting(tokens, offset, stack, result)
        BY <1>3, <2>1, <2>2, <3>2
      <4>2. offset \in 0 .. Len(tokens)
        BY <1>3, <2>2, <3>2
      <4> QED  BY <2>1, <2>2, <4>1, <4>2, EndIncomplete
    <3> QED  BY <3>1, <3>2
  <2> QED  BY <2>1, <2>3 DEF ParseInv
<1>8. CASE FirstForm
  <2>1. pc = "quote" /\ result # NONE /\ UNCHANGED <<tokens, offset, stack, overrun>>
    BY <1>8, Zenon DEF FirstForm
  <2>2. ~ overrun => offset \in 0 .. Len(tokens) /\ Quoting(tokens, offset, stack, result)
    BY <1>3, <2>1
  <2>3. CASE result.type \in {"QUOTE", "ERROR"}
    <3>1. pc' = "root" /\ result' = NONE
      BY <1>8, <2>3, Zenon DEF FirstForm
    <3>2. Quoting(tokens, offset, stack, result) => Rooting(tokens, offset, stack, NONE)
      BY <1>2, <2>1, <2>3 DEF Quoting, Rooting
    <3> QED  BY <1>3, <2>1, <2>2, <3>1, <3>2 DEF ParseInv
  <2>4. CASE result.type \notin {"QUOTE", "ERROR"}
    <3>1. pc' = "done" /\ result' = lison_raise(NOQUOTE)
      BY <1>8, <2>4, Zenon DEF FirstForm
    <3>2. result'.type = "ERROR" /\ result'.kind # PAIR
      BY <3>1, OtherErrors, Zenon
    <3>3. Quoting(tokens, offset, stack, result) => Judged(tokens, result')
      <4>1. Quoting(tokens, offset, stack, result) => Roots(tokens) = {}
        BY <2>1, <2>4 DEF Quoting
      <4>2. Roots(tokens) = {} => ~ Accepted(tokens)
        BY DEF Accepted
      <4>3. result'.type # "LIST"
        BY <3>2
      <4> QED  BY <3>2, <4>1, <4>2, <4>3, Zenon DEF Judged
    <3>4. pc' = "done" /\ pc' # "lex" /\ pc' # "quote" /\ pc' # "root"
      <4>1. pc' = "done"
        BY <3>1, Zenon
      <4> QED  BY ONLY <4>1
    <3> QED  BY <1>3, <2>1, <2>2, <3>3, <3>4, Zenon DEF ParseInv
  <2> QED  BY <2>3, <2>4
<1>9. CASE SecondForm
  <2>1. pc = "root" /\ result # NONE /\ pc' = "done" /\ UNCHANGED <<tokens, offset, stack, overrun>>
    BY <1>9, Zenon DEF SecondForm
  <2>2. ~ overrun => offset \in 0 .. Len(tokens) /\ Rooting(tokens, offset, stack, result)
    BY <1>3, <2>1
  <2>3. Rooting(tokens, offset, stack, result) => Judged(tokens, result)
    BY <2>1 DEF Rooting
  <2>4. Judged(tokens, result) => Judged(tokens, result')
    <3>1. CASE result.type \in {"LIST", "ERROR"}
      <4>1. result' = result
        BY <1>9, <3>1, Zenon DEF SecondForm
      <4> QED  BY <4>1
    <3>2. CASE result.type \notin {"LIST", "ERROR"}
      <4>1. result' = lison_raise(NOLIST)
        BY <1>9, <3>2, Zenon DEF SecondForm
      <4>2. result'.type = "ERROR" /\ result'.kind # PAIR
        BY <4>1, OtherErrors, Zenon
      <4>3. result'.type # "LIST" /\ result.type # "LIST"
        BY <3>2, <4>2
      <4> QED  BY <4>2, <4>3, Zenon DEF Judged
    <3> QED  BY <3>1, <3>2
  <2>5. pc' = "done" /\ pc' # "lex" /\ pc' # "quote" /\ pc' # "root" /\ pc # "lex"
    BY <2>1
  <2> QED  BY <1>3, <2>1, <2>2, <2>3, <2>4, <2>5, Zenon DEF ParseInv
<1>10. CASE Comment \/ Returned \/ UNCHANGED lisonVars
  <2>1. UNCHANGED lisonVars
    BY <1>10, Zenon DEF Comment, Returned
  <2>2. UNCHANGED <<pc, tokens, offset, stack, result, overrun>>
    BY <2>1 DEF lisonVars
  <2> QED  BY <1>3, <2>2, Zenon DEF ParseInv
<1> QED  BY <1>4, <1>5, <1>6, <1>7, <1>8, <1>9, <1>10, Zenon DEF Next

\* The parser accepts a text exactly when its parentheses match and each list
\* that has to be a pair is one, and names the line of the first that is not
\* (parser.c:20-69), in every text that it reads to an end.
THEOREM LisonParsesByTheBook == Spec => []ParsesByTheBook
<1>1. ParseInv => ParsesByTheBook
  <2> SUFFICES ASSUME ParseInv, pc = "done", ~ overrun
               PROVE  /\ result.type = "LIST" <=> Accepted(tokens)
                      /\ result.type = "ERROR" /\ result.kind = PAIR =>
                              /\ Broken(tokens) # {}
                              /\ result.line = LineOf(tokens, Min(Broken(tokens)))
    BY Zenon DEF ParsesByTheBook
  <2>1. pc # "lex"
    OBVIOUS
  <2>2. Judged(tokens, result)
    BY <2>1, Zenon DEF ParseInv
  <2> QED  BY <2>2, Zenon DEF Judged
<1> QED  BY <1>1, LexInit, LexNext, LiveInit, LiveNext, ParseInit, ParseNext, PTL DEF Spec

\* lison_get finds two elements in each list that it passes.
LEMMA GetInside ==
    ASSUME Judged(tokens, result), result.type = "LIST", EarlyPairs(tokens), NEW key
    PROVE  lison_get(result, key) # WILD
<1> DEFINE fs == result.forms
           stops == {i \in DOMAIN fs :
                        LET obj == fs[i] IN
                        \/ obj.type # "LIST"
                        \/ obj.forms = <<>>
                        \/ obj.forms[1].type # "SYMBOL"
                        \/ obj.forms[1].token = key}
           obj == fs[Min(stops)]
           found == CASE obj.type # "LIST" -> NIL
                      [] obj.type = "LIST" /\ obj.forms = <<>> -> WILD
                      [] OTHER -> IF obj.forms[1].type # "SYMBOL" THEN NIL ELSE Second(obj.forms)
<1>1. lison_get(result, key) = IF result.type # "LIST" \/ stops = {} THEN NIL ELSE found
  BY Zenon DEF lison_get
<1>2. NIL # WILD /\ WILD.type = "WILD"
  BY DEF NIL, WILD
<1>3. DOMAIN fs = 1 .. Len(fs) /\ \A i \in 1 .. Len(fs) : FormOK(tokens, fs[i])
  <2>1. Shape(tokens, fs)
    BY DEF Judged
  <2> HIDE DEF fs
  <2>2. IsSeq(fs) /\ \A i \in 1 .. Len(fs) : FormOK(tokens, fs[i])
    BY <2>1 DEF Shape
  <2> QED  BY <2>2, SeqIs
<1>4. stops \subseteq DOMAIN fs
  OBVIOUS
<1>5. CASE stops # {}
  <2>1. Min(stops) \in DOMAIN fs
    <3> HIDE DEF stops, fs
    <3>1. stops \subseteq Nat
      BY <1>3, <1>4
    <3>2. PICK m \in stops : \A i \in stops : m <= i
      BY ONLY <1>5, <3>1, LeastNumber
    <3>3. Min(stops) \in stops
      BY <3>2 DEF Min
    <3> QED  BY <1>4, <3>3
  <2>2. FormOK(tokens, obj)
    <3> HIDE DEF stops, fs
    <3> QED  BY <1>3, <2>1
  <2> HIDE DEF fs, stops, obj
  <2>3. found # WILD
    <3>1. CASE obj.type # "LIST"
      <4>1. found = NIL
        BY <3>1, Zenon
      <4> QED  BY <1>2, <4>1
    <3>2. CASE obj.type = "LIST"
      <4> DEFINE gs == obj.forms
      <4>1. Len(gs) = 2 /\ \A e \in 1 .. 2 : gs[e].type # "WILD"
        BY <2>2, <3>2 DEF FormOK
      <4> HIDE DEF gs
      <4>2. gs # <<>> /\ Second(gs) = gs[2] /\ gs[2].type # "WILD"
        BY <4>1 DEF Second
      <4>3. found = IF gs[1].type # "SYMBOL" THEN NIL ELSE Second(gs)
        BY <3>2, <4>2, Zenon DEF gs
      <4> QED  BY <1>2, <4>2, <4>3
    <3> QED  BY <3>1, <3>2
  <2> HIDE DEF found
  <2> QED  BY <1>1, <1>5, <2>3
<1> HIDE DEF stops, found
<1>6. CASE stops = {}
  BY <1>1, <1>2, <1>6
<1> QED  BY <1>5, <1>6

\* Nothing reads outside of what was allocated: the parser outside of the
\* tokens (parser.c:20-29) of a complete text, lison_get outside of the lists
\* (parser.c:208-215) where pairs are the rule, and who takes the length of a
\* string (parser.c:92) outside of its token where the lexer does not cut it.
THEOREM LisonReadsInside == Spec => []ReadsInside
<1>1. ParseInv => TokensInside
  BY Zenon DEF ParseInv, TokensInside
<1>2. ParseInv => ListsInside
  <2> SUFFICES ASSUME ParseInv, pc = "done", result.type = "LIST", ~ overrun, EarlyPairs(tokens), NEW key \in Keys
               PROVE  lison_get(result, key) # WILD
    BY Zenon DEF ListsInside
  <2>1. pc # "lex"
    OBVIOUS
  <2>2. Judged(tokens, result)
    BY <2>1, Zenon DEF ParseInv
  <2> QED  BY <2>2, GetInside
<1>3. LexInv /\ ParseInv => ReadsInside
  BY <1>1, <1>2, StringsHold DEF ReadsInside
<1> QED  BY <1>3, LexInit, LexNext, LiveInit, LiveNext, ParseInit, ParseNext, PTL DEF Spec
=============================================================================
