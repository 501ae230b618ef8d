------------------------------- MODULE MCPyVm -------------------------------
(* Every program of up to three of eight statements, some odd ones, and     *)
(* every prefix of one file.                                                *)
EXTENDS PyVm

a == <<97>>
b == <<98>>
e == <<101>>
Debug(args) == Expr(Call(DebugLog, args))

Common ==
    {Assign(a, Const(Number(42))), Assign(b, Name(a)), Assign(e, Add(Name(a), Name(b))),
     Debug(<<Name(e)>>), Debug(<<Add(Name(a), Const(Number(-1)))>>),
     Assign(DebugLog, Const(None)), Assign(b, Call(DebugLog, <<Const(String(e))>>)),
     Assign(a, Const(Tuple(<<1, 2>>)))}

Odd ==
    {<<Assign(a, Const(Number(200))), Debug(<<Name(a)>>)>>,
     <<Assign(a, Const(String(a))), Debug(<<Name(a)>>)>>,
     <<Debug(<<Const(Number(1)), Const(Number(2))>>)>>,
     <<Debug(<<Const(Number(1)), Const(None)>>)>>,
     <<Debug(<<Const(Number(0))>>), Debug(<<Const(Number(1100))>>), Debug(<<Const(Number(-57))>>)>>,
     <<Assign(a, Const(String(<<120, 121>>))), Debug(<<Add(Name(a), Name(a))>>)>>,
     <<Assign(a, Const(Float)), Debug(<<Name(a)>>)>>,
     <<Assign(a, Name(DebugLog)), Assign(a, Add(Name(a), Name(a))), Expr(Call(a, <<>>))>>,
     <<Assign(a, Const(Huge))>>,
     <<Assign(a, Const(Number(1))), Debug(<<Neg(Name(a))>>)>>,
     <<Debug(<<Call(DebugLog, <<Const(Number(1))>>)>>)>>,
     [i \in 1 .. 16 |-> Debug(<<Const(Number(1))>>)],
     [i \in 1 .. 37 |-> Debug(<<>>)]}

Test == <<Assign(a, Const(Number(42))), Assign(b, Const(Number(27))),
          Debug(<<Add(Name(a), Name(b))>>)>>

Programs == {Compiled(src) : src \in BoundedSeq(Common, 3) \cup Odd \cup {Test}}

TheFiles ==
    {[prog |-> p, length |-> Len(p.pyc)] : p \in Programs}
    \cup LET test == Compiled(Test)
         IN  {[prog |-> test, length |-> n] : n \in 3 .. Len(test.pyc) - 1}
=============================================================================
