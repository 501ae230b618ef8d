--------------------------- MODULE AddressSpaces ---------------------------
(***************************************************************************)
(* What the virtual memory manager promises its callers: each address      *)
(* space is a function from pages of virtual addresses to pages of memory. *)
(* Below the shared part a mapping changes one space; in the shared part   *)
(* it changes all of them, those that exist and those yet to come.         *)
(***************************************************************************)
EXTENDS Integers

CONSTANTS
    Regions, Size,  \* addresses come in regions of Size pages
    SharedRegions,  \* those that every space maps alike
    Kernel,         \* the space of the kernel
    Window,         \* where the kernel finds memory: from virtual pages to pages
    Code, Stack,    \* where a program is linked, and its stack
    Lengths,        \* pages of a range
    NULL

VARIABLE view       \* what each space maps, by region and page in the region

-----------------------------------------------------------------------------
At(f, virt) == f[virt \div Size][virt % Size]

Put(f, virt, phys, n) ==
    [r \in Regions |->
        IF r \in virt \div Size .. (virt + n - 1) \div Size
           THEN [i \in 0 .. Size - 1 |->
                    LET v == r * Size + i IN
                    IF v \in virt .. virt + n - 1 THEN phys + v - virt ELSE f[r][i]]
           ELSE f[r]]

\* At boot the kernel reaches all of memory through its window.
SpacesInit ==
    /\ DOMAIN view = {Kernel}
    /\ \A v \in DOMAIN Window : At(view[Kernel], v) = Window[v]

\* A new space: the shared part, the program, and its stack.
Load(s, n) ==
    LET new == [r \in Regions |-> IF r \in SharedRegions THEN view[Kernel][r]
                                  ELSE [i \in 0 .. Size - 1 |-> NULL]]
        code == Put(new, Code, At(view'[s], Code), n)
    IN  view' = [t \in DOMAIN view \cup {s} |->
                    IF t = s THEN Put(code, Stack, At(view'[s], Stack), 1) ELSE view[t]]

\* A range is mapped in one space, or in all if it lies in the shared part.
Map(s, virt, n) ==
    LET phys == At(view'[s], virt)
        Targets == IF virt \div Size \in SharedRegions THEN DOMAIN view ELSE {s}
    IN  view' = [t \in DOMAIN view |->
                    IF t \in Targets THEN Put(view[t], virt, phys, n) ELSE view[t]]

\* A page of the shared part is unmapped in all spaces.
Unmap(virt) ==
    /\ virt \div Size \in SharedRegions
    /\ view' = [s \in DOMAIN view |->
                    [view[s] EXCEPT ![virt \div Size][virt % Size] = NULL]]

\* A mapping that was there before makes no difference, so that the range
\* may be taken to start at the first page that changes.
Changed(s) ==
    {v \in {r * Size + i : r \in {q \in Regions : view'[s][q] # view[s][q]}, i \in 0 .. Size - 1} :
        At(view'[s], v) # At(view[s], v)}

SpacesNext ==
    \/ \E s \in DOMAIN view' \ DOMAIN view : \E n \in Lengths : Load(s, n)
    \/ \E s \in DOMAIN view : \E virt \in Changed(s) :
          Unmap(virt) \/ \E n \in Lengths : Map(s, virt, n)

SpacesSpec == SpacesInit /\ [][SpacesNext]_view
=============================================================================
