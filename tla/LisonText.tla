----------------------------- MODULE LisonText -----------------------------
(***************************************************************************)
(* What a text in the Lison notation is, said without a lexer or a parser: *)
(* where its tokens begin and end, which parentheses match, and which      *)
(* texts are accepted.  A text is a sequence of characters.                *)
(***************************************************************************)
EXTENDS Integers, SequencesExt, FiniteSetsExt

Newline == <<"\n">>
Quote == <<"'">>
Open == <<"(">>
Close == <<")">>

-----------------------------------------------------------------------------
(* Tokens *)

Count(s, e, from, to) == Cardinality({i \in from .. to : s[i] = e})

\* Position i lies in a string: an odd number of " comes before it.
Quoted(s, i) == Count(s, "\"", 1, i - 1) % 2 = 1

Ends(s, i) == s[i] \in {"\n", "\r"} \/ (s[i] = " " /\ ~Quoted(s, i))

Single(s, i) == s[i] = "#" \/ (s[i] \in {"'", "(", ")"} /\ ~Quoted(s, i))

InWord(s, i) == i \in DOMAIN s /\ ~Ends(s, i) /\ ~Single(s, i)

Starts(s) ==
    {i \in DOMAIN s : \/ s[i] = "\n"
                      \/ Single(s, i)
                      \/ InWord(s, i) /\ ~InWord(s, i - 1)}

TokenAt(s, i) ==
    CASE s[i] = "#" /\ i < Len(s) /\ s[i + 1] = "t" -> <<"#", "t">>
      [] InWord(s, i) ->
            LET last == CHOOSE j \in i .. Len(s) :
                            ~InWord(s, j + 1) /\ \A k \in i .. j : InWord(s, k)
            IN  SubSeq(s, i, last)
      [] OTHER -> <<s[i]>>

TokensOf(s) ==
    LET starts == Starts(s)
        Nth(k) == CHOOSE i \in starts : Cardinality({j \in starts : j <= i}) = k
    IN  [k \in 1 .. Cardinality(starts) |-> TokenAt(s, Nth(k))]

-----------------------------------------------------------------------------
(* Lists.  ts is a sequence of tokens. *)

Depth(ts, k) == Count(ts, Open, 1, k) - Count(ts, Close, 1, k)

\* The tokens that close the list opened at k: one, or none.
Match(ts, k) ==
    {c \in k + 1 .. Len(ts) :
        /\ Depth(ts, c) < Depth(ts, k)
        /\ \A j \in k .. c - 1 : Depth(ts, j) >= Depth(ts, k)}

\* The list opened at k is the innermost of those that are open behind o.
Innermost(ts, k, o) ==
    /\ k <= o /\ Depth(ts, o) = Depth(ts, k)
    /\ \A j \in k .. o : Depth(ts, j) >= Depth(ts, k)

Solid(ts) == {k \in DOMAIN ts : ts[k] # Newline}
Lists(ts) == {k \in DOMAIN ts : ts[k] = Open}

\* Every list is closed, and there are two tokens at least.
Complete(ts) ==
    /\ Cardinality(Solid(ts)) >= 2
    /\ \A k \in Lists(ts) : Match(ts, k) # {}

LineOf(ts, k) == 1 + Count(ts, Newline, 1, k - 1)
LastLine(ts) == 1 + Count(ts, Newline, 1, Len(ts))

\* The forms directly in the list opened at k and closed at c.
Forms(ts, k, c) ==
    {j \in k + 1 .. c - 1 :
        /\ ts[j] \notin {Newline, Quote, Close}
        /\ Depth(ts, j) = Depth(ts, k) + IF ts[j] = Open THEN 1 ELSE 0}

HasQuote(ts, k, c) ==
    \E j \in k + 1 .. c - 1 : ts[j] = Quote /\ Depth(ts, j) = Depth(ts, k)

\* A list is a pair, unless it holds a quote or ends on the last line.
Sound(ts, k, c) ==
    \/ Cardinality(Forms(ts, k, c)) = 2
    \/ HasQuote(ts, k, c)
    \/ LineOf(ts, c) = LastLine(ts)

\* The first two tokens that are no newlines are a quote and an opening
\* parenthesis: the list that begins there is the root.
Roots(ts) ==
    {k \in Lists(ts) :
        \E q \in Solid(ts) : /\ q < k /\ ts[q] = Quote
                             /\ Solid(ts) \cap (1 .. k) = {q, k}}

\* The ends of the lists of the root, itself included, that break the rule.
Broken(ts) ==
    {c \in DOMAIN ts :
        \E r \in Roots(ts), k \in Lists(ts) :
            /\ k >= r /\ c \in Match(ts, k)
            /\ \A e \in Match(ts, r) : c <= e
            /\ ~Sound(ts, k, c)}

Accepted(ts) == (\E r \in Roots(ts) : Match(ts, r) # {}) /\ Broken(ts) = {}
=============================================================================
