------------------------------- MODULE Lison -------------------------------
(***************************************************************************)
(* One call of lison_parse_str (lib/lison): the lexer turns the text into  *)
(* tokens, the parser reads a quote and then a list from them.  The        *)
(* recursion of read_list is a stack of open lists; a step is one turn of  *)
(* its loop.  The reader does not check where the tokens end, so slots     *)
(* past the last one are read: what each holds is a choice, made once.     *)
(***************************************************************************)
EXTENDS LisonText

CONSTANTS
    Texts,          \* texts to parse
    Keys,           \* keys looked for in the result
    SIZE,           \* size_t wraps around at SIZE
    MaxOverrun      \* slots past the last token that are memory, at most

ASSUME LisonAssumption ==
    /\ SIZE \in Nat /\ MaxOverrun \in Nat
    /\ \A s \in Texts : s \in Seq(STRING) /\ Len(s) < SIZE

VARIABLES
    text,
    at,             \* characters the lexer has read
    lexer,          \* its tokens, builder and is_str
    pc,             \* "lex", reads "quote" and "root", then "done" or "fault"
    tokens,
    slots,          \* what the slots past them hold, as far as they were read
    offset,         \* of the reader, from 0
    stack,          \* lists that are open: forms, quoted (is_list)
    result,
    live,           \* vectors of lists that are allocated
    overrun         \* history: a slot past the last token was read

lisonVars == <<text, at, lexer, pc, tokens, slots, offset, stack, result, live,
              overrun>>

-----------------------------------------------------------------------------
(* lexer.c: builder is the token being built *)

NoToken == [tokens |-> <<>>, builder |-> <<>>, is_str |-> FALSE]

lison_smart_push(l) ==
    IF l.builder = <<>> THEN l
    ELSE [l EXCEPT !.tokens = Append(@, l.builder), !.builder = <<>>]

Emit(l, token) == [l EXCEPT !.tokens = Append(@, token)]
Build(l, c) == [l EXCEPT !.builder = Append(@, c)]
Alone(l, c) == lison_smart_push(Build(lison_smart_push(l), c))

LexBlank(l) == IF l.is_str THEN Build(l, " ") ELSE lison_smart_push(l)

\* Plausible error: a parenthesis is a token inside a string too.
LexMark_Always(l, c) == Alone(l, c)

LexMark(l, c) == IF l.is_str THEN Build(l, c) ELSE Alone(l, c)

LexChar(c, l) ==
    CASE c = "\n" -> Emit(lison_smart_push(l), Newline)
      [] c = "\r" -> lison_smart_push(l)
      [] c = " " -> LexBlank(l)
      [] c = "#" ->
            IF at + 1 < Len(text) /\ text[at + 2] = "t"
            THEN Emit(lison_smart_push(l), <<"#", "t">>)
            ELSE Alone(l, c)
      [] c \in {"'", "(", ")"} -> LexMark(l, c)
      [] c = "\"" -> [Build(l, c) EXCEPT !.is_str = ~@]
      [] OTHER -> Build(l, c)

-----------------------------------------------------------------------------
(* utils.c and read_atom *)

Digits == {"0", "1"}
From(t) == IF t[1] = "-" THEN 2 ELSE 1

isnumber(t) == t # <<"-">> /\ \A i \in From(t) .. Len(t) : t[i] \in Digits

isfloat(t) ==
    /\ \E i \in From(t) .. Len(t) : t[i] \in Digits
    /\ Cardinality({i \in From(t) .. Len(t) : t[i] = "."}) = 1

\* The backslash is skipped, but the character after it is tested as well.
isstr(t) ==
    /\ \A i \in 2 .. Len(t) - 1 : t[i] # "\""
    /\ Last(t) = "\""

Atom(type, token) == [type |-> type, token |-> token]

\* A string keeps the characters between its quotes: end - start is a size_t.
read_atom(t) ==
    CASE isnumber(t) -> Atom("NUMBER", t)
      [] ~isnumber(t) /\ isfloat(t) -> Atom("FLOAT", t)
      [] t[1] = "\"" /\ ~isfloat(t) /\ isstr(t) ->
            [type |-> "STR", token |-> t, length |-> (Len(t) - 2) % SIZE]
      [] t[1] = "\"" /\ ~isfloat(t) /\ ~isstr(t) -> Atom("NIL", t)
      [] t = <<"n", "i", "l">> -> Atom("NIL", t)
      [] t = <<"#", "t">> -> Atom("TRUE", t)
      [] OTHER -> Atom("SYMBOL", t)

-----------------------------------------------------------------------------
(* parser.c *)

NONE == [type |-> "NONE"]
EOF == "Unexpected EOF"
PAIR == "A pair was expected"

NOQUOTE == "No quote found"
NOLIST == "No list found"

reader_eof == offset >= Len(tokens)

\* The slots from the first token on, and what one past the last may hold: any
\* token at all, <<"?">> for the atoms.
memory == tokens \o slots
Junk == {<<"?">>, Open, Close, Quote, Newline}

reader_current ==
    IF offset < Len(memory) THEN {memory[offset + 1]}
    ELSE IF offset < Len(tokens) + MaxOverrun THEN Junk ELSE {}

reader_next == offset' = offset + 1

\* vec_sarray_count_before, plus one: the newlines in the slots before offset.
Line == LineOf(memory, offset + 1)
line_count == 1 + Count(text, "\n", 1, Len(text))

lison_raise(kind) == [type |-> "ERROR", kind |-> kind, line |-> Line]

Top == Last(stack)
Allocated(forms) == IF forms = <<>> THEN 0 ELSE 1

\* The sum of a sequence of numbers.
Total(w) ==
    LET sum[k \in 0 .. Len(w)] == IF k = 0 THEN 0 ELSE sum[k - 1] + w[k]
    IN  sum[Len(w)]

\* What lison_free of a list frees: its vector and those of the lists in it.
Vectors(forms) ==
    Allocated(forms)
        + Total([k \in DOMAIN forms |-> IF forms[k].type = "LIST" THEN forms[k].vectors ELSE 0])

\* A form that was read goes to the list it is in, or is what the call reads.
Took(form, lists) ==
    IF lists = <<>> THEN /\ result' = form /\ stack' = lists /\ UNCHANGED live
    ELSE LET list == Last(lists)
             forms == Append(list.forms, form) IN
         /\ stack' = Append(Front(lists), [list EXCEPT !.forms = forms])
         /\ live' = live + Allocated(forms) - Allocated(list.forms)
         /\ UNCHANGED result

\* Plausible error: read_list returns the error of a form and frees nothing.
Raise_Leaks(kind, freed, outer) ==
    /\ result' = lison_raise(kind)
    /\ stack' = <<>>
    /\ live' = live - freed

\* An error goes up through the lists around it, and frees each one.
Raise(kind, freed, outer) ==
    /\ result' = lison_raise(kind)
    /\ stack' = <<>>
    /\ live' = live - freed - Total([k \in DOMAIN outer |-> Vectors(outer[k].forms)])

\* Plausible error: only a list that is longer is no pair.
IsPair_OrShorter(forms) == Len(forms) <= 2

IsPair(forms) == Len(forms) = 2

\* Plausible error: line_count starts from no line.
OnLastLine_FromZero == Line + 1 = line_count

OnLastLine == Line = line_count

\* Plausible error: the newline is not consumed.
SkipNewline_Stays == UNCHANGED <<offset, stack, result, live>>

SkipNewline == reader_next /\ UNCHANGED <<stack, result, live>>

OpenList ==
    /\ stack' = Append(stack, [forms |-> <<>>, is_list |-> FALSE])
    /\ reader_next
    /\ UNCHANGED <<result, live>>

CloseList ==
    IF IsPair(Top.forms) \/ Top.is_list \/ OnLastLine
    THEN /\ reader_next
         /\ Took([type |-> "LIST", forms |-> Top.forms, vectors |-> Vectors(Top.forms)],
                 Front(stack))
    ELSE Raise(PAIR, Vectors(Top.forms), Front(stack)) /\ UNCHANGED offset

\* One turn of the loop of read_list.
read_list(t) ==
    CASE t = Close -> CloseList
      [] t = Newline -> SkipNewline
      [] t \notin {Close, Newline} /\ reader_eof ->
            Raise(EOF, Allocated(Top.forms), Front(stack)) /\ UNCHANGED offset
      [] t = Open /\ ~reader_eof -> OpenList
      [] t = Quote /\ ~reader_eof ->
            /\ stack' = Append(Front(stack), [Top EXCEPT !.is_list = TRUE])
            /\ reader_next
            /\ UNCHANGED <<result, live>>
      [] OTHER -> reader_next /\ Took(read_atom(t), stack)

\* read_form, called by lison_parse_str; after a newline it calls itself.
read_form(t) ==
    CASE t = Open -> OpenList
      [] t = Close -> Raise(EOF, 0, <<>>) /\ UNCHANGED offset
      [] t = Newline -> SkipNewline
      [] t = Quote -> reader_next /\ Took([type |-> "QUOTE"], stack)
      [] OTHER -> reader_next /\ Took(read_atom(t), stack)

-----------------------------------------------------------------------------
(* lison_parse_str *)

Init ==
    /\ text \in Texts
    /\ pc = "lex" /\ at = 0 /\ lexer = NoToken
    /\ tokens = <<>> /\ slots = <<>> /\ offset = 0 /\ stack = <<>>
    /\ result = NONE /\ live = 0 /\ overrun = FALSE

Lex ==
    /\ pc = "lex" /\ at < Len(text) /\ text[at + 1] # ";"
    /\ lexer' = LexChar(text[at + 1], lexer)
    /\ at' = at + 1
    /\ UNCHANGED <<text, pc, tokens, slots, offset, stack, result, live, overrun>>

\* The loop that should skip a comment tests c and never reads another one.
Comment ==
    /\ pc = "lex" /\ at < Len(text) /\ text[at + 1] = ";"
    /\ UNCHANGED lisonVars

LexEnd ==
    /\ pc = "lex" /\ at = Len(text)
    /\ tokens' = lison_smart_push(lexer).tokens
    /\ lexer' = NoToken
    /\ pc' = "quote"
    /\ UNCHANGED <<text, at, slots, offset, stack, result, live, overrun>>

Read ==
    /\ pc \in {"quote", "root"} /\ result = NONE
    /\ \E t \in reader_current :
            /\ slots' = IF offset < Len(memory) THEN slots ELSE Append(slots, t)
            /\ IF stack = <<>> THEN read_form(t) ELSE read_list(t)
    /\ overrun' = (overrun \/ reader_eof)
    /\ UNCHANGED <<text, at, lexer, pc, tokens>>

\* A slot past the last token need not be memory.
Fault ==
    /\ pc \in {"quote", "root"} /\ result = NONE /\ reader_eof
    /\ pc' = "fault" /\ overrun' = TRUE
    /\ UNCHANGED <<text, at, lexer, tokens, slots, offset, stack, result, live>>

\* The first form has to be a quote; an error is dropped, and read again.
FirstForm ==
    /\ pc = "quote" /\ result # NONE
    /\ IF result.type \in {"QUOTE", "ERROR"}
       THEN pc' = "root" /\ result' = NONE
       ELSE pc' = "done" /\ result' = lison_raise(NOQUOTE)
    /\ UNCHANGED <<text, at, lexer, tokens, slots, offset, stack, live, overrun>>

\* lison_has_error finds no error but the root: none is pushed to a list.
SecondForm ==
    /\ pc = "root" /\ result # NONE
    /\ pc' = "done"
    /\ result' = IF result.type \in {"LIST", "ERROR"} THEN result
                 ELSE lison_raise(NOLIST)
    /\ UNCHANGED <<text, at, lexer, tokens, slots, offset, stack, live, overrun>>

Returned == pc \in {"done", "fault"} /\ UNCHANGED lisonVars

Next == Lex \/ Comment \/ LexEnd \/ Read \/ Fault \/ FirstForm \/ SecondForm \/ Returned

Spec == Init /\ [][Next]_lisonVars /\ WF_lisonVars(Next)

-----------------------------------------------------------------------------
\* lison_get, with WILD where it reads past the end of a list.
NIL == [type |-> "NIL"]
WILD == [type |-> "WILD"]

Second(forms) == IF Len(forms) < 2 THEN WILD ELSE forms[2]

lison_get(self, key) ==
    LET stops == {i \in DOMAIN self.forms :
                    LET obj == self.forms[i] IN
                    \/ obj.type # "LIST"
                    \/ obj.forms = <<>>
                    \/ obj.forms[1].type # "SYMBOL"
                    \/ obj.forms[1].token = key}
        obj == self.forms[Min(stops)]
    IN  IF self.type # "LIST" \/ stops = {} THEN NIL
        ELSE CASE obj.type # "LIST" -> NIL
               [] obj.type = "LIST" /\ obj.forms = <<>> -> WILD
               [] OTHER -> IF obj.forms[1].type # "SYMBOL" THEN NIL ELSE Second(obj.forms)

-----------------------------------------------------------------------------
(* Properties *)

\* The builder and its flag cut the text (lexer.c:35-129) where the words,
\* the parentheses outside of strings and the lines are.
LexesByTheBook ==
    pc = "quote" /\ offset = 0 /\ result = NONE => tokens = TokensOf(text)

\* parser.c accepts a text exactly when its parentheses match and each list
\* that has to be a pair is one; else it names the line of the first that is
\* not.
ParsesByTheBook ==
    pc = "done" /\ ~overrun =>
        /\ result.type = "LIST" <=> Accepted(tokens)
        /\ result.type = "ERROR" /\ result.kind = PAIR =>
                /\ Broken(tokens) # {}
                /\ result.line = LineOf(tokens, Min(Broken(tokens)))

\* The tests of read_list come after its reads (parser.c:20-29): the slot past
\* the last token is only read when a list is not closed or the text has no
\* second form.
TokensInside == overrun => ~Complete(tokens)

\* n vectors are of lists that were closed in the innermost list that was open
\* where the tokens end, or behind.
LeftAtEnd(n) ==
    \E o \in Len(tokens) .. offset, k \in Lists(memory) :
        Innermost(memory, k, o) /\ n \in 0 .. Count(memory, Open, k + 1, o)

\* The error of a form comes back through every list around it, each of which
\* frees what it has read (parser.c:34-39), to the list that is no pair
\* (parser.c:50-56) as well: nothing is left.  The list that meets the end of
\* the tokens frees its own vector only (parser.c:28-32), so what it read is
\* left, and nothing else.
ErrorFreesLists ==
    pc = "done" /\ result.type = "ERROR" /\ result.kind # NOQUOTE =>
        live = 0 \/ LeftAtEnd(live)

HasComment == \E i \in DOMAIN text : text[i] = ";"

\* A text without a comment is parsed to an end.  One with a comment is not:
\* the loop at lexer.c:110 spins.
ParseReturns == ~HasComment ~> pc \in {"done", "fault"}

EarlyPairs(ts) ==
    \A k \in Lists(ts) \ Roots(ts) : \A c \in Match(ts, k) :
        LineOf(ts, c) # LastLine(ts) /\ ~HasQuote(ts, k, c)

\* lison_get reads two elements of each list it passes (parser.c:208-215) with
\* no look at its length: the rule of pairs is what keeps it inside the lists,
\* where the rule applies.
ListsInside ==
    pc = "done" /\ result.type = "LIST" /\ ~overrun /\ EarlyPairs(tokens) =>
        \A key \in Keys : lison_get(result, key) # WILD

EvenQuotes ==
    \A i \in 0 .. Len(text) :
        i = Len(text) \/ text[i + 1] = "\n" => Count(text, "\"", 1, i) % 2 = 0

\* A string's length is its token's less the two quotes (parser.c:92), in a
\* size_t: it only wraps around when lexer.c cuts a string in two, at a # or
\* at the end of a line.
StringsInside ==
    pc = "quote" /\ EvenQuotes /\ (\A i \in DOMAIN text : text[i] \notin {"#", "\r"}) =>
        \A k \in DOMAIN tokens :
            LET atom == read_atom(tokens[k]) IN
            atom.type = "STR" => atom.length < Len(tokens[k])

\* Neither the parser nor lison_get nor who takes a string's length reads
\* outside what was allocated, in the texts named above.
ReadsInside == TokensInside /\ ListsInside /\ StringsInside
=============================================================================
