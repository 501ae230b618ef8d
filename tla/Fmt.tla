--------------------------------- MODULE Fmt ---------------------------------
(***************************************************************************)
(* Formatted output (lib/navy/fmt.c, itoa.c), for strings and numbers in   *)
(* the mode without a letter.  A text is the sequence of its characters.   *)
(***************************************************************************)
EXTENDS Integers, SequencesExt

Decimal(n) == [type |-> "FMT_DECIMAL", n |-> n, s |-> <<>>]
Str(s) == [type |-> "FMT_STRING", n |-> 0, s |-> s]

\* The operators / and % of C, which round to zero.
Quotient(v, base) == IF v < 0 THEN -((-v) \div base) ELSE v \div base
Remainder(v, base) == v - base * Quotient(v, base)

\* The digits are those of value itself, also when it is negative: they lie
\* below '0' then.  All is turned round in the end, the minus with it.
itoa(value, base) ==
    LET digit(d) == IF d < 10 THEN d + 48 ELSE d - 10 + 97
        digits[v \in Int] ==
            <<digit(Remainder(v, base))>>
            \o IF Quotient(v, base) = 0 THEN <<>> ELSE digits[Quotient(v, base)]
    IN  Reverse((IF value < 0 THEN <<45>> ELSE <<>>) \o digits[value])

Shown(value) == IF value.type = "FMT_DECIMAL" THEN itoa(value.n, 10) ELSE value.s

\* From '{' to '}', or to the end, the format stands for the next value; when
\* there is none left, for nothing.
PRINT_FORMAT(format, values) ==
    LET Put(s) == [s EXCEPT !.inside = FALSE, !.next = @ + 1,
                            !.out = @ \o IF s.next \in DOMAIN values THEN Shown(values[s.next])
                                         ELSE <<>>]
        Scan(s, c) == IF s.inside THEN (IF c = 125 THEN Put(s) ELSE s)
                      ELSE IF c = 123 THEN [s EXCEPT !.inside = TRUE]
                      ELSE [s EXCEPT !.out = Append(@, c)]
        end == FoldLeft(Scan, [inside |-> FALSE, next |-> 1, out |-> <<>>], format)
    IN  IF end.inside THEN Put(end).out ELSE end.out
=============================================================================
