----------------------------- MODULE MCLiballoc -----------------------------
(* Pages of five units, two of them in a major block at least, headers of  *)
(* one: such a block holds three minors of the smaller size, and one of    *)
(* the larger size needs three pages.  The places of major blocks are      *)
(* interchangeable.                                                        *)
EXTENDS Liballoc, TLC

Symmetry == Permutations(Ids)
=============================================================================
