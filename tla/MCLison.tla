------------------------------ MODULE MCLison ------------------------------
(* Every short text of five kinds: marks and words after '(, and with no   *)
(* quote; strings and what breaks them, with comments; lists that end      *)
(* before the last line; atoms.                                            *)
EXTENDS Lison

Around(s, before, after) == before \o s \o after

Marks == {Around(s, <<"'", "(">>, <<>>) : s \in SeqOf({"(", ")", "'", "\n", "a"}, 4)}
Bare == SeqOf({"(", ")", "\n", "a"}, 5)
Strings == SeqOf({"\"", "#", "t", " ", "\n", "\r", "(", ";"}, 4)
Lines == {Around(s, <<"'", "(">>, <<"\n", ")">>) : s \in SeqOf({"(", ")", "a", " "}, 5)}
Atoms == {Around(s, <<"'", "(", "(">>, <<" ", "a", ")", "\n", ")">>) :
            s \in SeqOf({"1", "-", ".", "a"}, 3)}

TheTexts == Marks \cup Bare \cup Strings \cup Lines \cup Atoms
TheKeys == {<<"a">>, <<"a", "a">>}
=============================================================================
