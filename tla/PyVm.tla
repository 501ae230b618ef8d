-------------------------------- MODULE PyVm --------------------------------
(***************************************************************************)
(* pkg/marshal-test: read a .pyc file (lib/navy/pymarshal.c), run its code *)
(* (lib/navy/pyvm.c), free what was read.  The nested calls of             *)
(* marshal_r_object are a stack of frames.  A Str points into the buffer   *)
(* of the file, which the virtual machine writes to.                       *)
(***************************************************************************)
EXTENDS Integers, SequencesExt, PySource, RxiMap, Fmt

CONSTANTS
    Files,      \* pairs of a program, as Compiled makes it, and a length of its file
    MaxDepth,   \* nested calls of marshal_r_object until the C stack is full
    Pointer,    \* the address of a function or of a vector's elements
    Wild        \* a sum in which an address was a term

ASSUME DepthAssumption == MaxDepth \in Nat \ {0}

VARIABLES
    prog,       \* the program whose file this is
    bytes,      \* the buffer: the file and one NUL more
    phase,      \* "read", "run", "free", "done"; "panic", "fault": outside all memory
    offset,     \* of the MarshalReader
    frames,     \* the tuples and code objects being read, outermost first
    code,       \* <<the code object>> once it was read
    pc,         \* codeReader.offset
    stack,      \* [items, capacity]
    locals,
    log,        \* the lines that debug_log logged
    heap        \* blocks of memory in use

reader == <<offset, frames, code>>
vm == <<pc, stack, locals, log>>
vars == <<prog, bytes, phase, reader, vm, heap>>

TYPE_NONE == 78
TYPE_NULL == 48
TYPE_FALSE == 70
TYPE_TRUE == 84
TYPE_INT == 105
TYPE_BINARY_FLOAT == 103
TYPE_STRING == 115
TYPE_REF == 114
TYPE_CODE == 99
TYPE_SMALL_TUPLE == 41
TYPE_SHORT_ASCII == 122
TYPE_SHORT_ASCII_INTERNED == 90
TYPE_BUILTIN == 37
Plain == {TYPE_NONE, TYPE_NULL, TYPE_FALSE, TYPE_TRUE}
Strings == {TYPE_STRING, TYPE_SHORT_ASCII, TYPE_SHORT_ASCII_INTERNED}

NULL == -1
NoLocals == EmptyMap
NoStack == [items |-> <<>>, capacity |-> 0]

\* The first two words of the union: a number, the length and the place of a
\* Str, the address of a vector or a function.
Object(type, word, at, items) == [type |-> type, word |-> word, at |-> at, items |-> items]

length == Len(bytes) - 1
Byte(i) == bytes[i + 1]
InBuffer(at, n) == at >= 0 /\ n >= 0 /\ at + n <= Len(bytes)
Text(at, n) == SubSeq(bytes, at + 1, at + n)

-----------------------------------------------------------------------------
(* Reading.  An offset below zero is one just below 2^64. *)

reader_eof == offset < 0 \/ offset >= length

\* Plausible error: the NUL behind the file counts as a byte of it.
HasLongs_WithNul(at, k) == at >= 0 /\ at + 4 * k <= length + 1

\* Whether k calls of r_long at that offset find four bytes each.  They panic
\* when they do not, unless the offset is past the end: length - offset wraps.
HasLongs(at, k) == at >= 0 /\ at + 4 * k <= length
NoLong(at) == IF at \in 0 .. length THEN "panic" ELSE "fault"

\* The bytes are signed, and each is extended to 32 bits before the or.
r_long(at) ==
    LET b(j) == Byte(at + j)
        top == Min({j \in 0 .. 3 : b(j) > 127} \cup {3})
        signed == IF b(top) > 127 THEN b(top) - 256 ELSE b(top)
        below(j) == IF j < top THEN b(j) * 256^j ELSE 0
    IN  signed * 256^top + below(0) + below(1) + below(2)

builtins == map_set(EmptyMap, DebugLog, Pointer)

Top == Last(frames)
Full == frames # <<>> /\ Len(Top.items) = Top.n
Lineless == frames # <<>> /\ Top.type = TYPE_CODE /\ Len(Top.items) = 8 /\ Len(Top.longs) = 5

\* marshal_r_object returns obj to the caller that the frames below are for.
Return(below, obj) ==
    /\ \/ /\ below = <<>>
          /\ code' = <<obj>>
          /\ phase' = "run"
          /\ heap' = heap + Blocks(builtins)
          /\ frames' = <<>>
       \/ /\ below # <<>>
          /\ frames' = [below EXCEPT ![Len(below)].items = Append(@, obj)]
          /\ heap' = heap + IF Last(below).type = TYPE_SMALL_TUPLE
                                        /\ Last(below).items = <<>> THEN 1 ELSE 0
          /\ UNCHANGED <<code, phase>>
    /\ UNCHANGED <<prog, bytes, vm>>

Stop(how) == phase' = how /\ UNCHANGED <<prog, bytes, reader, vm, heap>>

Type == Byte(offset) % 128

AtObject(types) ==
    /\ phase = "read"
    /\ ~Full
    /\ ~Lineless
    /\ ~reader_eof
    /\ offset + 1 < length
    /\ Type \in types

\* NONE, which every caller unwraps
ReadNothing ==
    /\ phase = "read"
    /\ ~Full
    /\ ~Lineless
    /\ reader_eof \/ offset + 1 >= length
    /\ Stop("panic")

ReadPlain ==
    /\ AtObject(Plain)
    /\ offset' = offset + 1
    /\ Return(frames, Object(Type, 0, NULL, <<>>))

ReadInt ==
    /\ AtObject({TYPE_INT})
    /\ IF HasLongs(offset + 1, 1)
       THEN /\ offset' = offset + 5
            /\ Return(frames, Object(Type, r_long(offset + 1), NULL, <<>>))
       ELSE Stop(NoLong(offset + 1))

ReadFloat ==
    /\ AtObject({TYPE_BINARY_FLOAT})
    /\ IF InBuffer(offset + 1, 8)
       THEN /\ offset' = offset + 9
            /\ Return(frames, Object(Type, Wild, NULL, <<>>))
       ELSE Stop("fault")

\* The length is not compared with what is left; a negative one moves back.
ReadString ==
    /\ AtObject({TYPE_STRING})
    /\ IF HasLongs(offset + 1, 1)
       THEN LET n == r_long(offset + 1)
            IN  /\ offset' = offset + 5 + n
                /\ Return(frames, Object(Type, n, offset + 5, <<>>))
       ELSE Stop(NoLong(offset + 1))

ReadShort ==
    /\ AtObject({TYPE_SHORT_ASCII, TYPE_SHORT_ASCII_INTERNED})
    /\ LET n == Byte(offset + 1)
       IN  /\ offset' = offset + 2 + n
           /\ Return(frames, Object(Type, n, offset + 2, <<>>))

ReadRef ==
    /\ AtObject({TYPE_REF})
    /\ offset' = offset + 5
    /\ Return(frames, Object(Type, 0, NULL, <<>>))

OpenTuple ==
    /\ AtObject({TYPE_SMALL_TUPLE})
    /\ IF Len(frames) < MaxDepth
       THEN /\ offset' = offset + 2
            /\ frames' = Append(frames, [type |-> Type, n |-> Byte(offset + 1),
                                         items |-> <<>>, longs |-> <<>>])
            /\ UNCHANGED <<prog, bytes, phase, code, vm, heap>>
       ELSE Stop("fault")

\* r_code skips four bytes and reads five numbers, the fourth of them the size
\* of the stack.
OpenCode ==
    /\ AtObject({TYPE_CODE})
    /\ IF ~HasLongs(offset + 5, 5) THEN Stop(NoLong(offset + 5))
       ELSE IF Len(frames) = MaxDepth THEN Stop("fault")
       ELSE /\ offset' = offset + 25
            /\ frames' = Append(frames, [type |-> Type, n |-> 9, items |-> <<>>,
                                         longs |-> [j \in 1 .. 5 |-> r_long(offset + 1 + 4 * j)]])
            /\ heap' = heap + 1
            /\ UNCHANGED <<prog, bytes, phase, code, vm>>

ReadFirstLine ==
    /\ phase = "read"
    /\ Lineless
    /\ IF HasLongs(offset, 1)
       THEN /\ offset' = offset + 4
            /\ frames' = [frames EXCEPT ![Len(frames)].longs = Append(@, r_long(offset))]
            /\ UNCHANGED <<prog, bytes, phase, code, vm, heap>>
       ELSE Stop(NoLong(offset))

\* A tuple has its elements, or r_code its last field.
Close ==
    /\ phase = "read"
    /\ Full
    /\ IF Top.type = TYPE_CODE
       THEN Return(Front(frames),
                   Object(Top.type, Pointer, NULL, <<[items |-> Top.items, longs |-> Top.longs]>>))
       ELSE Return(Front(frames), Object(Top.type, Pointer, NULL, Top.items))
    /\ UNCHANGED offset

\* The default case: TYPE_LONG, TYPE_TUPLE, TYPE_UNICODE and others.
UnknownType ==
    /\ AtObject(0 .. 127 \ (Plain \cup Strings \cup
                 {TYPE_INT, TYPE_BINARY_FLOAT, TYPE_REF, TYPE_CODE, TYPE_SMALL_TUPLE}))
    /\ Stop("panic")

-----------------------------------------------------------------------------
(* Running *)

Fields == code[1].items[1].items
CodeStr == Fields[1]
consts == Fields[2].items
names == Fields[3].items
stacksize == code[1].items[1].longs[4]

AtEnd == CodeStr.word >= 0 /\ pc >= CodeStr.word
Op == Byte(CodeStr.at + pc)
Arg == Byte(CodeStr.at + pc + 1)

AtOp(op) ==
    /\ phase = "run"
    /\ ~AtEnd
    /\ Op = op

items == stack.items
GrownCapacity == IF stack.capacity = 0 THEN 1 ELSE 2 * stack.capacity

\* vec_push, which allocates the first time
Pushed(new) ==
    stack' = [items |-> new,
              capacity |-> IF Len(new) <= stack.capacity THEN stack.capacity ELSE GrownCapacity]
PushedBlocks == IF stack.capacity = 0 THEN 1 ELSE 0
Popped(n) == SubSeq(items, 1, Len(items) - n)
ArgIn(table) == Arg + 1 \in DOMAIN table

\* strlen(name.buf): where the next NUL is
CEnd(at) == Min({i \in at + 1 .. Len(bytes) : bytes[i] = 0}) - 1

\* Plausible error: the NUL goes over the last character.
Terminated_Last(name) ==
    IF CEnd(name.at) - name.at = name.word THEN bytes
    ELSE [bytes EXCEPT ![name.at + name.word] = 0]

\* The buffer once the name is terminated: the NUL goes over the type of the
\* object behind the name.
Terminated(name) ==
    IF CEnd(name.at) - name.at = name.word THEN bytes
    ELSE [bytes EXCEPT ![name.at + name.word + 1] = 0]

\* The key of a name: its characters up to the NUL.
Key(name) == Text(name.at, Min({CEnd(name.at) - name.at, name.word}))

HasName == ArgIn(names) /\ names[Arg + 1].at # NULL
TheKey == Key(names[Arg + 1])

Undefined ==
    IF Has(locals, TheKey) THEN map_get(locals, TheKey).type = TYPE_NULL
                           ELSE ~Has(builtins, TheKey)

LoadName ==
    /\ AtOp(LOAD_NAME)
    /\ IF ~HasName THEN Stop("fault")
       ELSE IF Undefined
       THEN /\ phase' = "panic"
            /\ bytes' = Terminated(names[Arg + 1])
            /\ UNCHANGED <<prog, reader, vm, heap>>
       ELSE /\ bytes' = Terminated(names[Arg + 1])
            /\ pc' = pc + 2
            /\ Pushed(Append(items, IF Has(locals, TheKey) THEN map_get(locals, TheKey)
                                    ELSE Object(TYPE_BUILTIN, map_get(builtins, TheKey), NULL, <<>>)))
            /\ heap' = heap + PushedBlocks
            /\ UNCHANGED <<prog, phase, reader, locals, log>>

StoreName ==
    /\ AtOp(STORE_NAME)
    /\ IF ~HasName \/ items = <<>> THEN Stop("fault")
       ELSE /\ bytes' = Terminated(names[Arg + 1])
            /\ pc' = pc + 2
            /\ locals' = map_set(locals, TheKey, Last(items))
            /\ stack' = [stack EXCEPT !.items = Popped(1)]
            /\ heap' = heap + Blocks(locals') - Blocks(locals)
            /\ UNCHANGED <<prog, phase, reader, log>>

LoadConst ==
    /\ AtOp(LOAD_CONST)
    /\ IF ~ArgIn(consts) THEN Stop("fault")
       ELSE /\ pc' = pc + 2
            /\ Pushed(Append(items, consts[Arg + 1]))
            /\ heap' = heap + PushedBlocks
            /\ UNCHANGED <<prog, bytes, phase, reader, locals, log>>

\* Arguments come off the stack, the last one first.
Args == Reverse(SubSeq(items, Len(items) - Arg + 1, Len(items)))

\* log$("{}", ...)
Logged(arg) ==
    PRINT_FORMAT(<<123, 125>>,
        <<IF arg.type = TYPE_INT THEN Decimal(arg.word) ELSE Str(Text(arg.at, arg.word))>>)

\* debug_log: the values logged before one that it does not support.
Loggable(args) ==
    LET supported == {i \in DOMAIN args : args[i].type \in Strings \cup {TYPE_INT}}
    IN  SubSeq(args, 1, Min({i \in 1 .. Len(args) + 1 : i \notin supported}) - 1)

BadArg(arg) == arg.type \in Strings /\ (arg.word = Wild \/ ~InBuffer(arg.at, arg.word))

CallFunction ==
    /\ AtOp(CALL_FUNCTION)
    /\ LET func == items[Len(items) - Arg]
           logged == Loggable(Args)
           bad == \E i \in DOMAIN logged : BadArg(logged[i])
       IN  IF Len(items) <= Arg THEN Stop("fault")
           ELSE IF func.type # TYPE_BUILTIN THEN Stop("panic")
           ELSE IF func.word # Pointer \/ bad THEN Stop("fault")
           ELSE /\ log' = log \o [i \in DOMAIN logged |-> Logged(logged[i])]
                /\ IF Len(logged) < Arg
                   THEN phase' = "panic" /\ UNCHANGED <<pc, stack>>
                   ELSE /\ pc' = pc + 2
                        /\ Pushed(Append(Popped(Arg + 1), Object(TYPE_NONE, 0, NULL, <<>>)))
                        /\ UNCHANGED phase
                /\ UNCHANGED <<prog, bytes, reader, locals, heap>>

PopTop ==
    /\ AtOp(POP_TOP)
    /\ pc' = pc + 2
    /\ stack' = [stack EXCEPT !.items = IF items = <<>> THEN <<>> ELSE Popped(1)]
    /\ UNCHANGED <<prog, bytes, phase, reader, locals, log, heap>>

\* _int is the first word of the union, whatever the types are.
Sum(x, y) == IF {x, y} \cap {Pointer, Wild} # {} THEN Wild ELSE x + y

BinaryAdd ==
    /\ AtOp(BINARY_ADD)
    /\ IF Len(items) < 2 THEN Stop("fault")
       ELSE /\ pc' = pc + 2
            /\ LET left == items[Len(items) - 1]
               IN  stack' = [stack EXCEPT !.items =
                       Append(Popped(2), [left EXCEPT !.word = Sum(@, Last(items).word)])]
            /\ UNCHANGED <<prog, bytes, phase, reader, locals, log, heap>>

UnknownOp ==
    /\ phase = "run"
    /\ ~AtEnd
    /\ Op \notin {LOAD_NAME, STORE_NAME, LOAD_CONST, CALL_FUNCTION, POP_TOP, BINARY_ADD,
                  RETURN_VALUE}
    /\ Stop("panic")

\* RETURN_VALUE, or the end of the code, where the stack is not freed.
ReturnValue ==
    /\ phase = "run"
    /\ AtEnd \/ Op = RETURN_VALUE
    /\ IF ~AtEnd /\ items = <<>> THEN Stop("fault")
       ELSE /\ phase' = "free"
            /\ heap' = heap - Blocks(builtins) - Blocks(locals) - (IF AtEnd THEN 0 ELSE 1)
            /\ stack' = NoStack
            /\ locals' = NoLocals
            /\ UNCHANGED <<prog, bytes, reader, pc, log>>

VecBlocks(obj) == IF obj.items = <<>> THEN 0 ELSE 1

\* Plausible error: the names are forgotten.
marshal_free_Names ==
    /\ phase = "free"
    /\ phase' = "done"
    /\ heap' = heap - VecBlocks(Fields[2]) - 1
    /\ UNCHANGED <<prog, bytes, reader, vm>>

marshal_free ==
    /\ phase = "free"
    /\ phase' = "done"
    /\ heap' = heap - VecBlocks(Fields[2]) - VecBlocks(Fields[3]) - 1
    /\ UNCHANGED <<prog, bytes, reader, vm>>

-----------------------------------------------------------------------------

\* main reads the file and asserts its magic number.
Init ==
    /\ \E f \in Files :
          /\ prog = f.prog
          /\ bytes = Append(SubSeq(f.prog.pyc, 1, f.length), 0)
    /\ phase = IF SubSeq(bytes, 1, 4) = Magic THEN "read" ELSE "panic"
    /\ offset = 16
    /\ frames = <<>>
    /\ code = <<>>
    /\ pc = 0
    /\ stack = NoStack
    /\ locals = NoLocals
    /\ log = <<>>
    /\ heap = 0

Read == \/ ReadNothing \/ ReadPlain \/ ReadInt \/ ReadFloat \/ ReadString \/ ReadShort
        \/ ReadRef \/ OpenTuple \/ OpenCode \/ ReadFirstLine \/ Close \/ UnknownType

Run == \/ LoadName \/ StoreName \/ LoadConst \/ CallFunction \/ PopTop \/ BinaryAdd
       \/ UnknownOp \/ ReturnValue

Next == Read \/ Run \/ marshal_free

Spec == Init /\ [][Next]_vars

-----------------------------------------------------------------------------
(* Properties *)

Whole == length = Len(prog.pyc)
Sound == Whole /\ prog.ordinary
Final == {"done", "panic", "fault"}

\* The value that an object stands for.
Value(obj) ==
    CASE obj.type = TYPE_INT -> Number(obj.word)
      [] obj.type \in Strings -> String(Text(obj.at, obj.word))
      [] obj.type = TYPE_SMALL_TUPLE -> Tuple([i \in DOMAIN obj.items |-> obj.items[i].word])
      [] obj.type = TYPE_BINARY_FLOAT -> Float
      [] OTHER -> None

Values(table) == [i \in DOMAIN table |-> Value(table[i])]

\* From the end of marshal_r_object to the end of the run, the code object has
\* the constants, the names, the instructions and the size of the stack that
\* were written: the NULs that py_run puts behind names (pyvm.c:73, :137) hit
\* no text that is still read.
LoadedAsWritten ==
    Sound /\ phase \in {"run", "free", "done"} =>
        /\ Values(consts) = prog.consts
        /\ Values(names) = [i \in DOMAIN prog.names |-> String(prog.names[i])]
        /\ Text(CodeStr.at, CodeStr.word) = prog.code
        /\ stacksize = prog.stacksize

\* A program logs what Python would log.  It ends where Python ends it, and
\* panics where Python raises an error.
RunsAsWritten ==
    Sound /\ phase \in Final =>
        CASE prog.end = "done" -> phase = "done" /\ log = prog.log
          [] prog.end = "error" -> phase = "panic" /\ log = prog.log
          [] prog.end = "beyond" -> IsPrefix(prog.log, log)

\* Where the end of the file goes unseen: in the first number of the code
\* object or in its name, since for an offset past the end length - offset wraps
\* and r_long reads on (pymarshal.c:16); and in the table of lines, since the
\* length of a string is not compared with the file's (pymarshal.c:104).
Unseen == (18 .. 20) \cup (prog.nameAt + 2 .. prog.nameAt + 4)
             \cup (prog.nameAt + 14 .. Len(prog.pyc))

\* A file that ends anywhere else than there is refused: nothing of it is run,
\* and nothing is read outside the buffer.
CutIsSeen ==
    length \notin Unseen => phase \in {"read", "panic"}

\* py_run and marshal_free give back every block that reading and running took,
\* but those of tuples in the constants, which marshal_free does not visit.
FreesAll ==
    phase = "done" =>
        heap = Cardinality({i \in DOMAIN consts : consts[i].type = TYPE_SMALL_TUPLE
                                                  /\ consts[i].items # <<>>})
=============================================================================
