-------------------------------- MODULE Vmm --------------------------------
(***************************************************************************)
(* The virtual memory manager (kernel/hw/x86_64/vmm.c): trees of page      *)
(* tables in physical memory, with a root for each address space, as they  *)
(* are made and changed by vmm_init, by load_elf_module and create_task,   *)
(* by the system calls on shared memory, and by the heap.                  *)
(*                                                                         *)
(* Addresses are counted in pages.  A page of memory is reached through    *)
(* the window at MMAP_KERNEL_BASE, and addresses wrap around.  Every call  *)
(* runs as one step: see module Kernel for where it could be interrupted.  *)
(***************************************************************************)
EXTENDS Integers, SequencesExt, FiniteSetsExt

CONSTANTS
    limit_pml,      \* levels of page tables
    ENTRIES,        \* entries of a page table
    FirstCopied,    \* the first entry that a new space copies
    MMAP_KERNEL_BASE, MMAP_IO_BASE,
    Direct,         \* pages that vmm_init maps from address 0
    Memmap,         \* the memory map: base, length, kernel
    Memory,         \* the pages that pmm_alloc may hand out
    UserCode,       \* where programs are linked
    UserStack,      \* USER_STACK_BASE
    Lengths,        \* pages of a segment, or of shared memory
    PageCount,      \* pages of a block of the heap: l_pageCount
    Named,          \* ranges that messages name although no call made them
    MaxUsers, MaxBlocks, MaxShared      \* bounds: programs, blocks of the
                                        \* heap and ranges of shared memory

\* The pages of addresses below one entry of a table, on each level.
Span[level \in 0 .. limit_pml] == IF level = 0 THEN 1 ELSE ENTRIES * Span[level - 1]

VirtPages == Span[limit_pml]
mmap_phys_to_kernel(p) == (p + MMAP_KERNEL_BASE) % VirtPages
mmap_phys_to_io(p) == (p + MMAP_IO_BASE) % VirtPages

ASSUME VmmAssumption ==
    /\ limit_pml \in Nat \ {0, 1} /\ ENTRIES \in Nat \ {0} /\ FirstCopied \in 1 .. ENTRIES - 1
    /\ MMAP_KERNEL_BASE \in Nat /\ MMAP_IO_BASE \in Nat /\ Direct \in Nat \ {0}
    /\ Memmap \in Seq([base : Nat, length : Nat, kernel : BOOLEAN])
    /\ Memory \in (SUBSET Nat) \ {{}}
    /\ UserCode \in Nat /\ UserStack \in Nat /\ Lengths \subseteq Nat /\ PageCount \in Nat \ {0}

\* The pages handed out lie inside the window, and the addresses of users
\* below the entries that are copied.
ASSUME WindowAssumption ==
    \A p \in Memory :
        /\ mmap_phys_to_kernel(p) \div Span[limit_pml - 1] >= FirstCopied
        /\ p \div Span[limit_pml - 1] < FirstCopied

\* The addresses keep apart: programs and their stacks lie below the entries
\* that are copied, no program reaches its stack, vmm_init maps the window to
\* all the pages handed out, and none of its ranges goes around the addresses
\* or meets the window with another page.
ASSUME LayoutAssumption ==
    /\ UserStack \div Span[limit_pml - 1] < FirstCopied
    /\ \A n \in Lengths : /\ (UserCode + n) \div Span[limit_pml - 1] < FirstCopied
                          /\ UserStack \notin UserCode .. UserCode + n - 1
    /\ \A p \in Memory :
          \/ p < Direct - 1
          \/ \E i \in 1 .. Len(Memmap) : p \in Memmap[i].base .. Memmap[i].base + Memmap[i].length
    /\ Direct <= VirtPages + 1
    /\ \A i \in 1 .. Len(Memmap) :
          /\ Memmap[i].base + Memmap[i].length < VirtPages
          /\ Memmap[i].kernel =>
                \A p \in Memory, k \in Memmap[i].base .. Memmap[i].base + Memmap[i].length :
                    mmap_phys_to_io(k) # mmap_phys_to_kernel(p)

\* Messages name ranges anywhere among the addresses of programs: free pages,
\* tables, pages of the heap or of another program.
ASSUME NamedAssumption ==
    /\ Named \subseteq [base : Nat, pages : Nat]
    /\ \A r \in Named : \A p \in r.base .. r.base + r.pages - 1 :
          p \div Span[limit_pml - 1] < FirstCopied

VARIABLES
    tables,         \* the page tables: for each page that is one, its entries
    used, last_index,           \* the page allocator, as in module Pmm
    spaces,         \* the roots of the address spaces
    blocks,         \* the ranges of pages that the heap has got
    shared,         \* the ranges of shared memory
    panicked

vmmVars == <<tables, used, last_index, spaces, blocks, shared, panicked>>

-----------------------------------------------------------------------------
NULL == -1
Empty == [i \in 0 .. ENTRIES - 1 |-> NULL]
PMLX_GET_INDEX(v, level) == (v \div Span[level]) % ENTRIES

kernel_pml == Min(Memory)

\* The table that the walk for v reaches on a level, if it is there.
TableAt(t, root, v, level) ==
    LET at[l \in level .. limit_pml - 1] ==
            IF l = limit_pml - 1 THEN root
            ELSE IF at[l + 1] = NULL THEN NULL
            ELSE t[at[l + 1]][PMLX_GET_INDEX(v, l + 1)]
    IN  at[level]

Translate(t, root, v) ==
    LET last == TableAt(t, root, v, 0) IN
    IF last = NULL THEN NULL ELSE t[last][PMLX_GET_INDEX(v, 0)]

\* The functions below work on the memory as it is while they run.  `at' is
\* what the last of them has returned: a page, a table or NULL.
Now == [tables |-> tables, used |-> used, last_index |-> last_index,
        at |-> NULL, panic |-> FALSE, fault |-> FALSE]

\* pmm_alloc(): the first free range from last_index on, else from 0.
pmm_alloc(m, n) ==
    LET Free(from) == {b \in Memory : b >= from /\ b .. b + n - 1 \subseteq Memory \ m.used}
        Take(b) == [m EXCEPT !.used = @ \cup (b .. b + n - 1), !.last_index = b + n, !.at = b]
    IN  IF Free(m.last_index) # {} THEN Take(Min(Free(m.last_index)))
        ELSE IF Free(0) # {} THEN Take(Min(Free(0)))
        ELSE [m EXCEPT !.last_index = 0, !.at = NULL]

UNWRAP_OR_PANIC(m) == IF m.at = NULL THEN [m EXCEPT !.panic = TRUE] ELSE m

\* The kernel writes to pages through the window.  Where the heap has left a
\* hole in it, this is a page fault, unless the TLB still knows the page.
Written(m, base, n) ==
    [m EXCEPT !.fault = @ \/ \E p \in base .. base + n - 1 :
                 Translate(m.tables, kernel_pml, mmap_phys_to_kernel(p)) = NULL]

\* The page that has been allocated becomes a table, with all entries clear.
Cleared(m) ==
    IF m.panic THEN m
    ELSE Written([m EXCEPT !.tables = [p \in DOMAIN @ \cup {m.at} |->
                                          IF p = m.at THEN Empty ELSE @[p]]], m.at, 1)

\* The new table is put into an entry.
Linked(new, table, index) ==
    IF new.panic THEN new ELSE [new EXCEPT !.tables[table][index] = new.at]

\* Plausible error in vmm_get_pml_alloc: the entry is taken for absent.
vmm_get_pml_alloc_Always(m, index) ==
    IF m.panic THEN m
    ELSE Linked(Cleared(UNWRAP_OR_PANIC(pmm_alloc(m, 1))), m.at, index)

vmm_get_pml_alloc(m, index) ==
    LET entry == m.tables[m.at][index]
    IN  IF m.panic THEN m
        ELSE IF entry # NULL THEN [m EXCEPT !.at = entry]
        ELSE Linked(Cleared(UNWRAP_OR_PANIC(pmm_alloc(m, 1))), m.at, index)

\* The loop of vmm_map_page() over the levels.
vmm_walk(m, root, virt) ==
    LET at[level \in 1 .. limit_pml] ==
            IF level = limit_pml THEN [m EXCEPT !.at = root]
            ELSE vmm_get_pml_alloc(at[level + 1], PMLX_GET_INDEX(virt, level))
    IN  at[1]

\* Plausible error in vmm_map_range: the physical address does not advance.
Mapped_SamePage(walk, k, virt, phys, n) ==
    IF walk.panic THEN walk
    ELSE [walk EXCEPT !.tables[walk.at] = [i \in DOMAIN @ |->
             IF k * ENTRIES + i \in virt .. virt + n - 1 THEN phys ELSE @[i]]]

\* The pages of a range that the table at the end of a walk has, the k-th of
\* those tables, ...
Mapped(walk, k, virt, phys, n) ==
    IF walk.panic THEN walk
    ELSE [walk EXCEPT !.tables[walk.at] = [i \in DOMAIN @ |->
             LET v == k * ENTRIES + i IN
             IF v \in virt .. virt + n - 1 THEN phys + v - virt ELSE @[i]]]

\* ... and all of them, which the code maps one by one.
vmm_map_range(m, root, virt, phys, n) ==
    LET first == virt \div ENTRIES
        mapped[k \in first - 1 .. (virt + n - 1) \div ENTRIES] ==
            IF k < first THEN m
            ELSE Mapped(vmm_walk(mapped[k - 1], root, (k * ENTRIES) % VirtPages), k, virt, phys, n)
    IN  mapped[(virt + n - 1) \div ENTRIES]

vmm_unmap_page(m, root, virt) ==
    LET last == TableAt(m.tables, root, virt, 0) IN
    IF last = NULL THEN [m EXCEPT !.panic = TRUE]
    ELSE [m EXCEPT !.tables[last][PMLX_GET_INDEX(virt, 0)] = NULL]

\* Plausible error in vmm_create_space: all entries are copied.
vmm_create_space_CopyAll(m) ==
    LET new == Cleared(UNWRAP_OR_PANIC(pmm_alloc(m, 1))) IN
    IF new.panic THEN new ELSE [new EXCEPT !.tables[new.at] = m.tables[kernel_pml]]

\* Its callers panic when there is no memory left.
vmm_create_space(m) ==
    LET new == Cleared(UNWRAP_OR_PANIC(pmm_alloc(m, 1))) IN
    IF new.panic THEN new
    ELSE [new EXCEPT !.tables[new.at] =
             [i \in DOMAIN @ |-> IF i >= FirstCopied THEN m.tables[kernel_pml][i] ELSE @[i]]]

\* Memory is allocated and mapped, ...
MapNew(m, root, virt, n) ==
    LET new == UNWRAP_OR_PANIC(pmm_alloc(m, n)) IN
    IF m.panic \/ new.panic THEN [m EXCEPT !.panic = TRUE]
    ELSE [vmm_map_range(new, root, virt, new.at, n) EXCEPT !.at = new.at]

\* ... and filled, for a segment of a program.
Stored(m, n) == IF m.panic THEN m ELSE Written(m, m.at, n)
LoadNew(m, root, virt, n) == Stored(MapNew(m, root, virt, n), n)

\* vmm_init(), while the tables of the loader are still in use: the window,
\* and each entry of the memory map, with a page more than it has.
vmm_init(m) ==
    LET root == Cleared(pmm_alloc(m, 1))
        window == vmm_map_range(root, root.at, mmap_phys_to_kernel(0), 0, Direct - 1)
        io(k, e) == IF ~e.kernel THEN k
                    ELSE vmm_map_range(k, root.at, mmap_phys_to_io(e.base), e.base, e.length + 1)
        done[i \in 0 .. Len(Memmap)] ==
            LET e == Memmap[i] IN
            IF i = 0 THEN window
            ELSE vmm_map_range(io(done[i - 1], e), root.at,
                               mmap_phys_to_kernel(e.base), e.base, e.length + 1)
    IN  done[Len(Memmap)]

-----------------------------------------------------------------------------
Completes(m) ==
    /\ ~m.panic
    /\ tables' = m.tables /\ used' = m.used /\ last_index' = m.last_index
    /\ UNCHANGED panicked

\* The kernel panics: nothing runs any more.
Stops(m) ==
    /\ m.panic \/ m.fault
    /\ panicked' = TRUE
    /\ UNCHANGED <<tables, used, last_index, spaces, blocks, shared>>

\* load_elf_module(): one segment, and the stack that create_task maps.
load_elf_module(n) ==
    LET space == vmm_create_space(Now)
        code == LoadNew(space, space.at, UserCode, n)
        m == MapNew(code, space.at, UserStack, 1)
    IN  /\ Cardinality(spaces) <= MaxUsers
        /\ \/ Completes(m) /\ spaces' = spaces \cup {space.at} /\ UNCHANGED <<blocks, shared>>
           \/ Stops(m)

\* The memory is mapped at its physical address.  Without memory the call
\* returns an error.
syscall_create_shared_mem(s, n) ==
    LET buff == pmm_alloc(Now, n)
        m == vmm_map_range(buff, s, buff.at, buff.at, n)
    IN  /\ Cardinality(shared) < MaxShared
        /\ IF buff.at = NULL
              THEN Completes(buff) /\ UNCHANGED <<spaces, blocks, shared>>
              ELSE \/ Completes(m) /\ shared' = shared \cup {[base |-> buff.at, pages |-> n]}
                      /\ UNCHANGED <<spaces, blocks>>
                   \/ Stops(m)

\* Nothing is known of the range at msg->_addr, which the sender has written:
\* it is one that a call has made, or any other.
syscall_ipc_rcv_sync(s) ==
    \E r \in shared \cup Named :
        LET m == vmm_map_range(Now, s, r.base, r.base, r.pages) IN
        \/ Completes(m) /\ UNCHANGED <<spaces, blocks, shared>>
        \/ Stops(m)

liballoc_alloc ==
    LET n == PageCount
        new == UNWRAP_OR_PANIC(pmm_alloc(Now, n))
        m == IF new.panic THEN new
             ELSE vmm_map_range(new, kernel_pml, mmap_phys_to_kernel(new.at), new.at, n)
    IN  /\ Cardinality(blocks) < MaxBlocks
        /\ \/ Completes(m) /\ blocks' = blocks \cup {[base |-> new.at, pages |-> n]}
              /\ UNCHANGED <<spaces, shared>>
           \/ Stops(m)

\* Plausible error in liballoc_free: the page after the block is unmapped.
liballoc_free_UnmapsNext(b) ==
    LET m == vmm_unmap_page(Now, kernel_pml, mmap_phys_to_kernel(b.base + b.pages)) IN
    \/ /\ Completes([m EXCEPT !.used = @ \ (b.base .. b.base + b.pages - 1)])
       /\ blocks' = blocks \ {b} /\ UNCHANGED <<spaces, shared>>
    \/ Stops(m)

\* Plausible error in liballoc_free: one page too many is given back.
liballoc_free_OneMore(b) ==
    LET m == vmm_unmap_page(Now, kernel_pml, mmap_phys_to_kernel(b.base)) IN
    \/ /\ Completes([m EXCEPT !.used = @ \ (b.base .. b.base + b.pages)])
       /\ blocks' = blocks \ {b} /\ UNCHANGED <<spaces, shared>>
    \/ Stops(m)

\* All pages are given back, but only the first is unmapped.
liballoc_free(b) ==
    LET m == vmm_unmap_page(Now, kernel_pml, mmap_phys_to_kernel(b.base)) IN
    \/ /\ Completes([m EXCEPT !.used = @ \ (b.base .. b.base + b.pages - 1)])
       /\ blocks' = blocks \ {b} /\ UNCHANGED <<spaces, shared>>
    \/ Stops(m)

\* The state after sched_init(), which maps a stack for the boot task.
Init ==
    LET boot == vmm_init([tables |-> [p \in {} |-> Empty], used |-> {}, last_index |-> 0,
                          at |-> NULL, panic |-> FALSE, fault |-> FALSE])
        m == MapNew(boot, kernel_pml, UserStack, 1)
    IN  /\ ~m.panic
        /\ tables = m.tables /\ used = m.used /\ last_index = m.last_index
        /\ spaces = {kernel_pml}
        /\ blocks = {} /\ shared = {}
        /\ panicked = FALSE

Next ==
    /\ ~panicked
    /\ \/ liballoc_alloc
       \/ \E n \in Lengths :
             \/ load_elf_module(n)
             \/ \E s \in spaces \ {kernel_pml} : syscall_create_shared_mem(s, n)
       \/ \E s \in spaces \ {kernel_pml} : syscall_ipc_rcv_sync(s)
       \/ \E b \in blocks : liballoc_free(b)

Spec == Init /\ [][Next]_vmmVars

-----------------------------------------------------------------------------
Users == spaces \ {kernel_pml}
Regions == 0 .. Span[limit_pml - 1] - 1
SharedRegions == {r \in Regions : r \div Span[limit_pml - 2] >= FirstCopied}
Pages(r) == r.base .. r.base + r.pages - 1

\* What a space maps in the region of a last table.
Region(s, r) ==
    LET last == TableAt(tables, s, r * ENTRIES, 0) IN IF last = NULL THEN Empty ELSE tables[last]

\* The tables are a tree: two walks that end in the same table have come the
\* same way, and in the same space unless it is the shared part.  So a call
\* that changes a table for one space changes it for no other.
Walks ==
    {<<TableAt(tables, s, r * ENTRIES, 0), r, IF r \in SharedRegions THEN kernel_pml ELSE s>> :
        s \in spaces, r \in Regions}

PrivateTables == \A x, y \in Walks : x[1] = y[1] /\ x[1] # NULL => x = y

\* The addresses of programs, below the part that all spaces share.  (There,
\* programs reach what the kernel reaches: the heap is mapped for users.)
OwnAddresses == {r * ENTRIES + i : r \in Regions \ SharedRegions, i \in 0 .. ENTRIES - 1}

\* A message has named the page at v, and there it is.
ByName(s, v) ==
    Translate(tables, s, v) = v /\ \E r \in Named : v \in Pages(r)

\* What a program finds below the shared part is its own or shared memory, and
\* no page of another program, of the heap or of a table.  A message can name
\* any page: that page is found at its own address, and nowhere else.
Isolation ==
    \A s \in Users, v \in OwnAddresses :
        LET p == Translate(tables, s, v) IN
        p # NULL /\ ~ByName(s, v) =>
            /\ p \in used \ DOMAIN tables
            /\ \A b \in blocks : p \notin Pages(b)
            /\ \/ \E r \in shared : p \in Pages(r)
               \/ \A t \in Users \ {s}, w \in OwnAddresses :
                     Translate(tables, t, w) = p => ByName(t, w)

\* Every page of the heap can be reached in every space, whatever blocks
\* around it have been given back and unmapped.
HeapMapped ==
    \A b \in blocks : \A p \in Pages(b) : \A s \in spaces :
        Translate(tables, s, mmap_phys_to_kernel(p)) = p

\* An address that is mapped goes on meaning the same page: the processor may
\* keep what it has read of the tables, for vmm_flush() invalidates a page
\* that is none of those that change (vmm.c:23).  But for the hole that a block
\* of the heap leaves, and for the ranges of messages, which are mapped at the
\* address they have as memory, be it one where the program has its code.
StaysMapped ==
    [][\A s \in spaces, v \in 0 .. VirtPages - 1 :
          LET p == Translate(tables, s, v)
              after == Translate(tables', s, v)
          IN  \/ p \in {NULL, after}
              \/ after = NULL /\ \E b \in blocks \ blocks' : v = mmap_phys_to_kernel(b.base)
              \/ after = v /\ \E r \in shared' \cup Named : v \in Pages(r)]_vmmVars

\* What each space maps.
View == [s \in spaces |-> [r \in Regions |-> Region(s, r)]]

\* The trees of tables implement flat address spaces: a mapping is seen by
\* the space it was made in, or by all, and by no other.  A range that is
\* mapped already up to a page is one that starts there, and is shorter.

Abstract == INSTANCE AddressSpaces WITH
    Size <- ENTRIES,
    Lengths <- UNION {0 .. n : n \in Lengths \cup {PageCount} \cup {r.pages : r \in Named}},
    Kernel <- kernel_pml,
    Window <- [v \in {mmap_phys_to_kernel(p) : p \in Memory} |->
                  CHOOSE p \in Memory : mmap_phys_to_kernel(p) = v],
    Code <- UserCode, Stack <- UserStack,
    view <- View

Refines == Abstract!SpacesSpec
=============================================================================
