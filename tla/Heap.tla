-------------------------------- MODULE Heap --------------------------------
(***************************************************************************)
(* What malloc, free and realloc promise their callers: a block of memory  *)
(* that overlaps no other block in use, until it is freed; a block that    *)
(* shrinks stays where it is.                                              *)
(***************************************************************************)
EXTENDS Integers

VARIABLE blocks     \* blocks in use: the pages they lie in, start, length

Apart(a, b) ==
    \/ a.id # b.id
    \/ a.from + a.length <= b.from
    \/ b.from + b.length <= a.from

HeapInit == blocks = {}

Obtain ==
    \E new \in blocks' \ blocks :
        /\ blocks' = blocks \cup {new}
        /\ \A b \in blocks : Apart(new, b)

Release == \E b \in blocks : blocks' = blocks \ {b}

Shrink ==
    \E b \in blocks, s \in blocks' :
        /\ s.id = b.id /\ s.from = b.from /\ s.length <= b.length
        /\ blocks' = (blocks \ {b}) \cup {s}

HeapSpec == HeapInit /\ [][Obtain \/ Release \/ Shrink]_blocks
=============================================================================
