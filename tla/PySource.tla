------------------------------ MODULE PySource ------------------------------
(***************************************************************************)
(* Python as the virtual machine of lib/navy meets it: programs of         *)
(* assignments and expressions, what they mean, and the .pyc file that     *)
(* CPython 3.10 writes for them.  A name is the sequence of its            *)
(* characters; a value is [kind, v] with v a sequence, of one number for   *)
(* an int, of the numbers in it for a tuple.                               *)
(***************************************************************************)
EXTENDS Integers, SequencesExt, FiniteSetsExt

DebugLog == <<100, 101, 98, 117, 103, 95, 108, 111, 103>>

Number(n) == [kind |-> "int", v |-> <<n>>]
String(s) == [kind |-> "str", v |-> s]
Tuple(s) == [kind |-> "tuple", v |-> s]
Float == [kind |-> "float", v |-> <<>>]
Huge == [kind |-> "huge", v |-> <<>>]
None == [kind |-> "none", v |-> <<>>]
Builtin == [kind |-> "builtin", v |-> <<>>]
Error == [kind |-> "error", v |-> <<>>]
Beyond == [kind |-> "beyond", v |-> <<>>]

\* Expressions and statements
Const(c) == [op |-> "const", c |-> c]
Name(n) == [op |-> "name", name |-> n]
Neg(x) == [op |-> "neg", args |-> <<x>>]
Add(l, r) == [op |-> "add", args |-> <<l, r>>]
Call(f, args) == [op |-> "call", name |-> f, args |-> args]
Assign(n, e) == [op |-> "assign", name |-> n, e |-> e]
Expr(e) == [op |-> "expr", e |-> e]

-----------------------------------------------------------------------------
(* Meaning: the value of an expression and the lines that are logged on    *)
(* the way.  Beyond: what the machine was not written for, which is an     *)
(* addition that is not one of integers, a minus, and a negative number in *)
(* the log.                                                                *)

\* str(), for a string and for an int that is not negative: no other text has
\* its digits and no zero in front.
Line(val) ==
    IF val.kind = "str" THEN val.v
    ELSE LET n == val.v[1]
             count == Min({k \in 1 .. 9 : n < 10 ^ k} \cup {10})
         IN  [i \in 1 .. count |-> 48 + ((n \div 10 ^ (count - i)) % 10)]

Lines(vals) == [i \in DOMAIN vals |-> Line(vals[i])]

RECURSIVE Eval(_, _, _), EvalAll(_, _, _)

EvalAll(args, env, log) ==
    IF args = <<>> THEN [vals |-> <<>>, log |-> log]
    ELSE LET first == Eval(Head(args), env, log)
             rest == EvalAll(Tail(args), env, first.log)
         IN  IF first.val \in {Error, Beyond}
             THEN [vals |-> <<first.val>>, log |-> first.log]
             ELSE [vals |-> <<first.val>> \o rest.vals, log |-> rest.log]

Eval(e, env, log) ==
    CASE e.op = "const" -> [val |-> e.c, log |-> log]
      [] e.op = "name" ->
            [val |-> IF e.name \in DOMAIN env THEN env[e.name] ELSE Error, log |-> log]
      [] e.op = "add" ->
            LET ops == EvalAll(e.args, env, log)
                failed == {Error, Beyond} \cap ToSet(ops.vals)
            IN  [log |-> ops.log,
                 val |-> IF failed # {} THEN CHOOSE x \in failed : TRUE
                         ELSE IF \E i \in 1 .. 2 : ops.vals[i].kind # "int" THEN Beyond
                         ELSE Number(ops.vals[1].v[1] + ops.vals[2].v[1])]
      [] e.op = "neg" -> [val |-> Beyond, log |-> EvalAll(e.args, env, log).log]
      [] e.op = "call" ->
            LET f == Eval(Name(e.name), env, log)
                args == EvalAll(e.args, env, log)
                failed == {Error, Beyond} \cap ToSet(args.vals)
                negative == {i \in DOMAIN args.vals : args.vals[i].kind = "int" /\ args.vals[i].v[1] < 0}
                shown == {i \in DOMAIN args.vals : args.vals[i].kind \in {"int", "str"}} \ negative
                stop == Min({i \in 1 .. Len(args.vals) + 1 : i \notin shown})
            IN  IF f.val = Error THEN f
                ELSE IF failed # {}
                THEN [val |-> CHOOSE x \in failed : TRUE, log |-> args.log]
                ELSE IF f.val # Builtin THEN [val |-> Error, log |-> args.log]
                ELSE [val |-> IF stop \in negative THEN Beyond
                              ELSE IF stop <= Len(args.vals) THEN Error ELSE None,
                      log |-> args.log \o Lines(SubSeq(args.vals, 1, stop - 1))]

Bind(env, n, val) == [x \in DOMAIN env \cup {n} |-> IF x = n THEN val ELSE env[x]]

Exec(st, s) ==
    LET r == Eval(s.e, st.env, st.log)
    IN  IF st.end # "done" THEN st
        ELSE [log |-> r.log,
              end |-> IF r.val \in {Error, Beyond} THEN r.val.kind ELSE "done",
              env |-> IF s.op = "assign" THEN Bind(st.env, s.name, r.val) ELSE st.env]

Meaning(src) ==
    FoldLeft(Exec, [log |-> <<>>, end |-> "done", env |-> DebugLog :> Builtin], src)

-----------------------------------------------------------------------------
(* The compiler *)

LOAD_CONST == 100
LOAD_NAME == 101
STORE_NAME == 90
CALL_FUNCTION == 131
BINARY_ADD == 23
POP_TOP == 1
UNARY_NEGATIVE == 11
RETURN_VALUE == 83

Instr(op, kind, what) == [op |-> op, kind |-> kind, what |-> what]

RECURSIVE Emit(_)
Emit(e) ==
    CASE e.op = "const" -> <<Instr(LOAD_CONST, "const", e.c)>>
      [] e.op = "name" -> <<Instr(LOAD_NAME, "name", e.name)>>
      [] e.op = "add" -> Emit(e.args[1]) \o Emit(e.args[2]) \o <<Instr(BINARY_ADD, "num", 0)>>
      [] e.op = "neg" -> Emit(e.args[1]) \o <<Instr(UNARY_NEGATIVE, "num", 0)>>
      [] e.op = "call" ->
            Emit(Name(e.name)) \o FlattenSeq([i \in DOMAIN e.args |-> Emit(e.args[i])])
            \o <<Instr(CALL_FUNCTION, "num", Len(e.args))>>

RECURSIVE Depth(_)
Depth(e) ==
    IF e.op \in {"const", "name"} THEN 1
    ELSE LET before == IF e.op = "call" THEN 0 ELSE -1
         IN  Max({1} \cup {Depth(e.args[i]) + i + before : i \in DOMAIN e.args})

EmitStatement(s) ==
    Emit(s.e) \o IF s.op = "assign" THEN <<Instr(STORE_NAME, "name", s.name)>>
                                    ELSE <<Instr(POP_TOP, "num", 0)>>

Listing(src) ==
    FlattenSeq([i \in DOMAIN src |-> EmitStatement(src[i])])
    \o <<Instr(LOAD_CONST, "const", None), Instr(RETURN_VALUE, "num", 0)>>

\* The operands of one kind, each at its first use.
Table(list, kind) ==
    LET of == SelectSeq(list, LAMBDA i : i.kind = kind)
        first == {i \in DOMAIN of : \A j \in 1 .. i - 1 : of[j].what # of[i].what}
        order == SetToSortSeq(first, <)
    IN  [i \in DOMAIN order |-> of[order[i]].what]

StackSize(src) == Max({1} \cup {Depth(src[i].e) : i \in DOMAIN src})

Place(table, x) == SelectInSeq(table, LAMBDA y : y = x) - 1

Assembled(list, consts, names) ==
    FlattenSeq([i \in DOMAIN list |->
        <<list[i].op, CASE list[i].kind = "const" -> Place(consts, list[i].what)
                        [] list[i].kind = "name" -> Place(names, list[i].what)
                        [] list[i].kind = "num" -> list[i].what>>])

-----------------------------------------------------------------------------
(* The file.  Some objects carry the flag 128 of those that may be referred *)
(* to; a name that is also a string constant is only a reference.           *)

Long(n) == <<n % 256, (n \div 256) % 256, (n \div 65536) % 256, (n \div 16777216) % 256>>

EmptyTuple == <<41 + 128, 0>>
Ref == <<114>> \o Long(0)
Bytes(s) == <<115>> \o Long(Len(s)) \o s
Ascii(s) == <<122 + 128, Len(s)>> \o s
Interned(s) == <<90 + 128, Len(s)>> \o s
IntBytes(n) == <<105 + 128>> \o Long(n)
Small(objects) == <<41, Len(objects)>> \o FlattenSeq(objects)

ConstBytes(c) ==
    CASE c.kind = "int" -> IntBytes(c.v[1])
      [] c.kind = "str" -> Interned(c.v)
      [] c.kind = "tuple" -> Small([i \in DOMAIN c.v |-> IntBytes(c.v[i])])
      [] c.kind = "float" -> <<103, 0, 0, 0, 0, 0, 0, 248, 63>>
      [] c.kind = "huge" -> <<108>> \o Long(3) \o Long(0)
      [] c.kind = "none" -> <<78>>

NameBytes(consts, n) == IF Contains(consts, String(n)) THEN Ref ELSE Interned(n)

Magic == <<111, 13, 13, 10>>

\* The parts of the file: up to the name of the code, that name, the table of
\* lines.
UpToName(consts, names, code, stacksize) ==
    Magic \o Long(0) \o Long(0) \o Long(0)
    \o <<99 + 128>> \o Long(0) \o Long(0) \o Long(0) \o Long(0) \o Long(stacksize) \o Long(64)
    \o Bytes(code)
    \o Small([i \in DOMAIN consts |-> ConstBytes(consts[i])])
    \o Small([i \in DOMAIN names |-> NameBytes(consts, names[i])])
    \o EmptyTuple \o Ref \o Ref
    \o Ascii(<<47, 46>>)

TheName == Ascii(<<60, 109, 62>>)
LineTable(src) == Long(1) \o Bytes([i \in 1 .. 2 * Len(src) |-> 4])

-----------------------------------------------------------------------------
(* What the reader and the machine were written for: code of less than 128  *)
(* bytes; integers of 32 bits in which no byte but those of the sign is     *)
(* above 127; names that are not string constants too; calls with at most   *)
(* one argument.                                                            *)

Readable(n) == \A i \in 1 .. 4, j \in 1 .. 4 : i < j /\ Long(n)[i] > 127 => Long(n)[j] = 255

Ordinary(consts, names, code, list) ==
    /\ Len(code) < 128
    /\ \A c \in ToSet(consts) :
          /\ c.kind # "huge"
          /\ c.kind \in {"int", "tuple"} => \A n \in ToSet(c.v) : Readable(n)
    /\ \A n \in ToSet(names) : ~Contains(consts, String(n))
    /\ \A i \in ToSet(list) : i.op = CALL_FUNCTION => i.what <= 1

Compiled(src) ==
    LET list == Listing(src)
        consts == Table(list, "const")
        names == Table(list, "name")
        code == Assembled(list, consts, names)
        before == UpToName(consts, names, code, StackSize(src))
        meaning == Meaning(src)
    IN  [consts |-> consts, names |-> names, code |-> code, stacksize |-> StackSize(src),
         pyc |-> before \o TheName \o LineTable(src), nameAt |-> Len(before),
         ordinary |-> Ordinary(consts, names, code, list),
         log |-> meaning.log, end |-> meaning.end]
=============================================================================
