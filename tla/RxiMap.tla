------------------------------- MODULE RxiMap -------------------------------
(***************************************************************************)
(* The hash map of lib/rxi/map.c, as the virtual machine uses it: an array *)
(* of buckets, each a chain of nodes with a key and a value.  A key is the *)
(* sequence of its characters.  Allocations succeed.                       *)
(***************************************************************************)
EXTENDS Integers, FiniteSets, SequencesExt

\* hash << 5 leaves the five lowest bits alone, and a map of at most 32
\* buckets looks at no others: bit k of the hash is that of 5381 and of every
\* character, one added to the other.
Bit(n, k) == (n \div 2^k) % 2

map_hash(key) ==
    LET bit(k) == (Bit(5381, k) + Cardinality({i \in DOMAIN key : Bit(key[i], k) = 1})) % 2
    IN  bit(0) + 2 * bit(1) + 4 * bit(2) + 8 * bit(3) + 16 * bit(4)

map_bucketidx(nbuckets, key) == (map_hash(key) % nbuckets) + 1

EmptyMap == [buckets |-> <<>>, nnodes |-> 0]

map_addnode(m, node) ==
    [m EXCEPT !.buckets[map_bucketidx(Len(m.buckets), node.key)] = <<node>> \o @]

\* Plausible error: more buckets, but every node stays where it was.
map_resize_InPlace(m, nbuckets) ==
    [m EXCEPT !.buckets = @ \o [i \in 1 .. nbuckets - Len(@) |-> <<>>]]

\* Chaining all nodes from the last bucket to the first and adding them again
\* reverses their order twice.
map_resize(m, nbuckets) ==
    LET nodes == FlattenSeq(Reverse(m.buckets))
        In(i) == SelectSeq(nodes, LAMBDA e : map_bucketidx(nbuckets, e.key) = i)
    IN  [m EXCEPT !.buckets = [i \in 1 .. nbuckets |-> In(i)]]

\* The place of the key in its chain, 0 when it is not there.
map_getref(m, key) ==
    IF m.buckets = <<>> THEN 0
    ELSE SelectInSeq(m.buckets[map_bucketidx(Len(m.buckets), key)],
                     LAMBDA e : e.key = key)

Has(m, key) == map_getref(m, key) # 0

map_get(m, key) ==
    m.buckets[map_bucketidx(Len(m.buckets), key)][map_getref(m, key)].value

Grown(m) ==
    IF m.nnodes < Len(m.buckets) THEN m
    ELSE map_resize(m, IF m.buckets = <<>> THEN 1 ELSE 2 * Len(m.buckets))

map_set(m, key, value) ==
    IF Has(m, key)
    THEN [m EXCEPT !.buckets[map_bucketidx(Len(m.buckets), key)]
                            [map_getref(m, key)].value = value]
    ELSE LET added == map_addnode(Grown(m), [key |-> key, value |-> value])
         IN  [added EXCEPT !.nnodes = @ + 1]

\* The blocks of memory that map_deinit frees.
Blocks(m) == m.nnodes + (IF m.buckets = <<>> THEN 0 ELSE 1)
=============================================================================
