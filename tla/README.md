# A verification project for navy-ng

navy-ng is a small operating system for x86_64: a kernel with preemptive
round-robin tasks, paging, a heap and message passing; the libraries it shares
with its programs; and a few test programs. These TLA+ modules model its core,
TLC checks them on small instances, and TLAPS proves the theorems listed below
for every value of the constants. `PROJECT.json` maps every definition to the
lines of the code it models.

- [1. The system](#1-the-system)
- [2. The modules](#2-the-modules)
- [3. Components, their state, and how they are modelled](#3-components-their-state-and-how-they-are-modelled)
- [4. The runs and their bounds](#4-the-runs-and-their-bounds)
- [5. Fairness](#5-fairness)
- [6. What is proved](#6-what-is-proved)
- [7. What the code does that its tests do not expect](#7-what-the-code-does-that-its-tests-do-not-expect)
- [8. What is only model-checked, and what is not modelled](#8-what-is-only-model-checked-and-what-is-not-modelled)
- [9. Plan](#9-plan)

Run a check with `tlc -workers 2 -config MCSched.cfg MCSched.tla`, a proof with
`tlapm SchedProofs.tla`.

## 1. The system

| component | source | state | operations |
| --- | --- | --- | --- |
| scheduler | `kernel/sched.c` | `tasks` (a vector), `current_pid`, `tick` | `sched_init`, `sched_yield` (timer), `sched_force_yield`, `sched_push_task`, `sched_get_by_pid`, `sched_idle` (reaper) |
| locks, interrupts | `lib/navy/lock.h`, `idt.s`, `interrupt_handler.c`, `ctx.c`, `gdt.c` | the interrupt flag, six lock words, the registers of each task, the frames on the stacks | `LOCK`, `UNLOCK`, the interrupt's entry and exit, the timer's handler, `context_save`, `context_switch` |
| system calls | `kernel/syscall.c`, `syscall.s` | none of their own | log, exit, ipc_send, ipc_rcv_sync, getpid, create_shared_mem |
| message passing | `task.h`, `lib/navy/vec.*` | a vector of messages for each task | `vec_push`, `vec_pop`, `vec_free` |
| tasks | `kernel/task.c`, `elfloader.c`, `ctx.c` | `Task`: state, stacks, space, context | `create_task`, `context_create`, `load_elf_module` |
| physical memory | `pmm.c`, `lib/navy/bitmap.c` | the bitmap, `last_index` | `pmm_init`, `pmm_alloc`, `pmm_free` |
| virtual memory | `vmm.c` | page tables, `kernel_pml` | `vmm_init`, `vmm_create_space`, `vmm_map_range`, `vmm_unmap_page`, `vmm_switch_space` |
| heap | `lib/liballoc/*` | majors and minors, `l_bestBet` | `malloc`, `free`, `realloc`, `calloc` |
| boot | `kernel/bootstrap.c`, `arch.c` | none | starts the parts in order, queues two tasks, idles |
| loader, handover | `loader/stivale.c`, `handover.c` | the memory map, the modules | parses the tags of the boot loader |
| Lison | `lib/lison/*` | tokens, a reader, the tree | `lison_parse_str`, `lison_get`, `lison_free` |
| Python | `lib/navy/pymarshal.c`, `pyvm.c`, `lib/rxi/map.c` | the buffer of the file, a reader; a stack, a hash map of locals | `marshal_r_object`, `py_run`, `marshal_free`, `map_get`, `map_set` |
| strings, formatting | `fmt.c`, `itoa.c`, `str.c`, `lib/ansi` | none | pure functions |

How they interact. There is one processor. Concurrency is the timer interrupt:
its handler calls `sched_yield`, which replaces the registers of the current
task by another's, whenever the interrupt flag is set. The registers lie in frames on
stacks: one stack for all interrupts from user mode, one for the system calls
of each task, one for the boot. The kernel protects its
data with locks that turn interrupts off. A system call starts with interrupts
off (`arch.c:20`) and ends with `sysret`, which turns them on. Calls go down:
system calls and the boot use the scheduler and the heap; the scheduler's queue
and the mailboxes are vectors of the heap; the heap gets pages from the
physical allocator and maps them with the virtual one, which gets its tables
from the physical allocator. Tasks share memory through the kernel's part of
the address space and through ranges that `create_shared_mem` maps.

What is hard. `UNLOCK` turns interrupts on even inside a region that another
lock protects, and nearly every operation of the kernel nests locks, so that
interrupts come where nobody expects them, in the last instructions of a system
call or of another interrupt too; a task ends on the stack that the
reaper will free; the page allocator searches without its lock; a mailbox is a
growing vector that senders, the receiver and the reaper update without a lock;
the heap unmaps pages that others reach through the same window; page tables
are shared between address spaces. Section 3 says for each component which
properties make it correct; `hazards` in `PROJECT.json` lists each danger at
its line.

## 2. The modules

    Sched ------- SchedProofs          Pmm
      |      \                          |  (implemented by)
    Kernel   IrqFrames                 PmmScan
                                         |
                                       Boot ------- BootProofs

    Mailbox <- Ipc    Heap <- Liballoc    AddressSpaces <- Vmm    LisonText <- Lison

    PySource, RxiMap, Fmt <- PyVm

`A -- B` below another: B extends A. `A <- B`: A is the abstract specification,
or the description, that B is checked against. Every `MC...` module
instantiates one of them for TLC, and every `...Proofs` module extends one of
them with its theorems; `KernelProofs` and `IrqFramesProofs` extend
`SchedProofs` too, whose theorems they carry over.

| module | what it is |
| --- | --- |
| `Sched` | the scheduler with one action per operation |
| `Kernel` | the same actions as instructions among locks, interrupts and the timer, for the boot and the two tasks of `pkg/ipc-test` |
| `IrqFrames` | the same actions with the registers: which frame lies where, and which one is popped |
| `Boot` | from the boot loader's tags to the bitmap and the first program, after which `PmmScan` runs |
| `Pmm`, `PmmScan` | the page allocator by what its calls return, and its search loop, which implements that |
| `Mailbox`, `Ipc` | what a mailbox promises, and the vector, access by access, that implements it |
| `Heap`, `Liballoc` | what `malloc`, `free` and `realloc` promise, and the lists of majors and minors |
| `AddressSpaces`, `Vmm` | address spaces as functions, and the trees of tables |
| `LisonText`, `Lison` | the notation without a parser, and the lexer and the parser |
| `PySource`, `RxiMap`, `Fmt`, `PyVm` | Python's programs, their meaning and their files; the hash map; formatted output; the reader of such files and the virtual machine |
| `SchedProofs`, `KernelProofs`, `IrqFramesProofs`, `BootProofs`, `IpcProofs`, `LiballocProofs`, `VmmProofs`, `LisonProofs` | the theorems about the module of that name; `BootProofs` also has those about `Pmm` and `PmmScan` |

An operator named `X_Something` under the words "Plausible error" is a form of
`X` with a mistake that could be made in that code. No specification uses it:
each property is shown to fail when its operator takes the place of `X`.

## 3. Components, their state, and how they are modelled

### Scheduler (`Sched`)

`length` and `state` are the vector of tasks (its pids are indices, and no task
ever leaves it), `current_pid` and `tick` the variables of that name, `bstack`
the tasks whose `syscall_kernel_bstack` is not 0, `idle_i` the loop counter of
`sched_idle`, and `waited` a history: how many switches a task has been passed
over by. Each C function is an action; `next_pid` with the loop around it is
the first running task after the current one, by `Distance`.
A forced yield stores `SWITCH_TICK` in `tick`, so the next tick switches.

What makes it correct: a running task is passed over by fewer switches than
there are tasks (`BoundedBypass`) and runs again (`NoStarvation`); a stack is
freed only when its task can no longer run (`StackOutlivesTask`), and each dead
task's is (`DeadIsReaped`).

### Locks, interrupts, system calls (`Kernel`)

Each C function that takes a lock is a sequence of instructions: lock, unlock,
and those in between that other contexts can notice. `todo` is what each task
has left to do, `isr` what the interrupt handler has, `intr` the interrupt flag,
`locks` who holds each of the six locks. Calls are expanded in place, and
`Maybe(s)` stands for a branch on data that is not in the model (is a table
missing, does the heap need pages). `Release` is `UNLOCK`: it frees the lock and
sets `intr`, whatever other lock is held. `Tick` fires where `intr` is set and
no handler is active, since the interrupt controller waits for the end of the
first. `timing` picks one of four disciplines of the timer for a behaviour
(`Timing`): wherever interrupts are on, or sparing the regions under a lock, or
sparing the boot, or both. The first is what the hardware does; the others
isolate the cause of what goes wrong.

`interrupts_handler` is atomic from the signal to the controller to `iret`:
what can come in between is the subject of `IrqFrames`.

What makes it correct: locks are taken in one order (`LockOrder`); two searches
of the bitmap never overlap, although `pmm_alloc` searches without its lock
(`ScanExclusive`). With a timer that spares locks and boot, the test program
runs to its end, which no lock that is waited for by its holder would allow
(`TestEnds`). With the real timer it need not: see section 7.

### Frames of interrupts (`IrqFrames`)

`cpu` is what the registers amount to: the code that `rip` points into, the
program it belongs to, the stack of `rsp` and how many frames lie below it.
`mem` has the frame in each place of each stack, `regs` the context of each
task, `gs` and `cr3` the task whose context and space the processor uses.
`Interrupt` pushes `cpu`: on `IntStack`, that of `tss.rsp[0]`, if a user program
is cut, else where `rsp` is. `TimerHandler` runs `sched_yield` and, when it
switches, `context_save` (the frame goes to the context of the task) and
`context_switch` (the new task's registers go over the frame). Then the
controller is told and interrupts are on, so that the next one can come before
`Iretq` pops the frame. `Syscall`, `PopAll` and `Sysret` are `syscall_handle`,
with the bodies of `Sched`'s operations and any `UNLOCK` in between. All user
stacks have the same address: which memory it is depends on `cr3`
(`Physical`). `left` is a history: the registers each program was last cut
with.

What makes it correct: a program that is resumed has the registers it was cut
with (`ResumesOwn`); the entry of a system call, which always starts at the top
of the kernel stack that `gs` names, finds that stack its own task's and empty
(`EntersOnFreeStack`); no frame that may still be popped lies on a stack that
the reaper has freed (`FreedStackUnused`). They hold when no switch falls into
two windows (`Dangers`), see section 7; any other interrupt may come anywhere.

### Message passing (`Ipc`)

The mailbox of one receiver: `data` (the number of a buffer), `length`,
`capacity`, and `heap`, the buffers with their slots and whether they are live.
`vec_push` is taken apart into the test of `vec_expand_`, `realloc`'s malloc,
copy and free, the stores of `data` and `capacity`, the load of `length` and
`data`, and the two stores of `data[length++] = *msg`, which the compiler may
put in either order; `vec_pop` in the same way. `open[t]` says whether task t
runs with interrupts on: from `realloc` on in a sender, and in a receiver that
has waited. `CanRun` lets others run there (`Races`), or not.

What makes it correct: nothing is written outside the live buffer
(`NoWildWrite`), the vector implements `Mailbox` (`Refines`), every message is
received (`AllReceived`), and what is received was sent (`Genuine`). These hold
when no task switch falls inside an update; with switches only one message is
needed for `Genuine` to fail. `Mailbox` is last in, first out, as `vec_pop` is:
two messages are received in reverse order, which nothing in the code says is
intended or not.

### Boot and physical memory (`Boot`, `Pmm`, `PmmScan`)

`Pmm` counts addresses in pages. `used` is the set of bits that are set, and
`holds` the range each caller was given. `pmm_alloc` is the lowest run of clear
bits from `last_index` on, else from 0, else NONE; `PmmScan` runs the loop with
its variables `i` and `range`, one bit a step, and the recursive retry, and is
shown to implement it. `bitmap.length` is a number of bytes which the search
takes for bits; the model keeps that.

`Boot` runs before: `tags` is the list that the boot loader passes, which
`stivale2_parse_header` turns into a Handover; `pmm_init_bytes` is `pmm_init`
over its entries in bytes, with its cuts to pages. That these are the initial
bits that `Pmm` has for a memory map in pages, on which the proofs stand, is
proved (`InitialBitmap` in `BootProofs`). `FindModule` is `handover_find_module`, `found` the module it returns;
`LoadSegment` is one turn of the loop of `load_elf_module` over program headers
(`turn`, `Phdr`), and `image` what the memory of the program holds then, each
byte as its place in the file. Then `boot` is "up" and calls come as in
`PmmScan`.

What makes it correct: no page has two owners (`ExclusivePages`), none is lost
(`NoLostPage`), only memory that the boot loader calls usable and that the
bitmap does not fill is handed out (`OnlyUsablePages`), each call returns
(`CallReturns`), and the program that runs is the one called "test", with all
that its file has for it where it was linked (`RunsTest`, for files that are
`WellLinked`).

### Virtual memory (`Vmm`)

`tables` maps each page that is a page table to its entries; an entry is a page
or `NULL`. `vmm_map_range`, `vmm_unmap_page` and `vmm_create_space` are
operators on a record of the memory (`Now`), which the actions — loading a
program, the two system calls on shared memory, the heap's `liballoc_alloc` and
`liballoc_free` — chain as the code does. Running out of memory in one of them
is the panic of `UNWRAP_OR_PANIC`. The kernel writes through its window, and
`liballoc_free` leaves holes in it: it unmaps the first page of a block and
gives all of them back. A write through a hole faults or not, as the TLB may
still hold the page; both are in the model. The TLB itself is not:
`vmm_flush` invalidates a wrong page, which is right as long as an address does
not change its page.

A receive maps the range that lies at the address in the message. The sender
has written that address, and nothing looks at it: `syscall_ipc_rcv_sync` maps
one of the ranges that `syscall_create_shared_mem` made, or any of `Named`,
among them pages that are tables, or another program's.

What makes it correct: the tables are a tree except for the part that all
spaces share (`PrivateTables`). Below that part a program finds no page of
another that is not shared, of the heap or of the tables, except where a message
has named that very page (`Isolation`); in the shared part the heap is mapped
for users, so programs reach it there (section 7). Every page of the heap is
mapped in every space (`HeapMapped`), an address that is mapped goes on meaning
the same page (`StaysMapped`), but where the heap leaves a hole or a range that
a message names comes to lie on a program, and the trees implement flat address
spaces (`Refines`).

### Heap (`Liballoc`)

`majors` is the list from `l_memRoot`, each with the list of its minors (where
each starts, its size, the size requested); `pointers` is what callers hold.
The five cases of `malloc` are one definition: the first gap that is large
enough, in the first major that has room, in the order in which majors are
looked at (from the best bet, then from the root), else a new major. `free`
removes a minor, and the major with its last one; `realloc` to a smaller size
changes the requested size only, and to a larger one is a malloc and a free.

What makes it correct: blocks in use do not overlap (`Refines`), minors lie in
order inside their major (`MinorsInOrder`), none is lost (`ListsAllPointers`),
the accounts are exact (`UsageExact`), and the best bet never dangles
(`BestBetListed`).

### Lison (`Lison`)

A text is a sequence of characters, a token a sequence of characters. The lexer
takes a step per character with its `builder` and `is_str`; the parser takes one
for each turn of `read_list`, with a stack of open lists in the place of the
recursion. The reader does not check where the tokens end: a slot past the last
one holds any token, a choice that is made when it is first read and kept in
`slots`, or it is no memory, and the read faults (`MaxOverrun` slots at most are
memory). The lines of errors count newlines there too. `live` counts the vectors
of lists that are allocated. `LisonText` says with counts of quotes and parentheses which tokens a
text has and which texts are accepted.

What makes it correct: the tokens are those of the description
(`LexesByTheBook`); a text is accepted exactly when the description says so, and
an error names the first list that is not a pair (`ParsesByTheBook`); nothing is
read outside (`ReadsInside`): the reader stays inside the tokens when all lists
are closed, `lison_get` inside lists where the rule of pairs applies, and strings
have the length of their text when quotes pair up on each line; an error frees
every list, but the lists inside the one that is the innermost open where the
tokens end (`ErrorFreesLists`); every text without a comment is parsed to an end
(`ParseReturns`). The conditions in these properties are
where the code fails, see section 7.

### Python (`PyVm`, `RxiMap`)

`PyVm` is `pkg/marshal-test`: it reads a file, runs its code and frees what it
read. `bytes` is the buffer of the file, one NUL longer than it; `offset` is the
reader's, `frames` are the nested calls of `marshal_r_object` that wait for
objects, `code` is what the outermost call returned. An object has the two
words of the union that matter: a number, or the length and the place of a
string in the buffer. `stack`, `locals` and `pc` are those of `py_run`, `log`
is what `debug_log` printed, `heap` counts the blocks in use. An access outside
all memory, a stack that is popped when empty, a jump to a sum of addresses and
a full C stack all end in the phase "fault"; a failed `UNWRAP`, an assertion
and `panic$` end in "panic". `RxiMap` keeps the buckets and the order of their
chains; of the hash it keeps the five bits that a map of up to 32 buckets looks
at. `PySource` stands for CPython 3.10, which is not part of the repository: it
gives a program's meaning without a stack, and the bytes of its file, down to
which objects are flagged and which are references (`pkg/marshal-test/test.pyc`
is the model). The lines of the log are made by `Fmt`, which is `PRINT_FORMAT`
with `itoa`: the digits of a number from the last to the first, then turned
round.

What makes it correct: what is loaded is what was written, to the end of the
run (`LoadedAsWritten`); a program logs what Python would, and panics where
Python raises an error, which also needs the stack never to run empty and the
map to keep every name while it grows (`RunsAsWritten`); a file that ends early
is refused (`CutIsSeen`); all blocks are given back but those of nested tuples
(`FreesAll`). The conditions of the first two, `Ordinary` in `PySource`, and the places `Unseen` of the third are where the
code fails, see section 7.

## 4. The runs and their bounds

| run | module, cfg | shows | bounds, and why they are enough |
| --- | --- | --- | --- |
| `sched` | `MCSched` | the round robin is fair while the queue grows, tasks exit and yields are forced; the reaper frees every dead task's stack and no other | 4 tasks, slices of 3 ticks: the search wraps, skips dead tasks, finds only itself |
| `irq_frames` | `MCIrqFrames` | programs resume with their own registers, on stacks that are theirs | boot and 2 tasks, slices of 2 ticks, 4 frames on a stack: a system call, an interrupt in it and two that cut epilogues, the second of which switches |
| `kernel` | `MCKernel` | lock order and exclusive searches under any timing; the end of the test under quiet timing | boot and the two tasks of the test, slices of 2 ticks, each `vmm_map_range` of at most one page, with at most one missing table of each level and one growth of the heap per call |
| `kernel_window` | `MCKernelWindow.cfg` | violation of `Delivered`: an interrupt in a nested region stops the machine | the same, timer spares the boot |
| `boot` | `MCBoot` | the bitmap is that of the boot loader's map, the program that runs is "test", each page has one owner, none is lost; the loop implements `Pmm` and ends | 7 lists of tags over 3 maps (a plain one; one with an entry too small for the bitmap and others that split the pages; one whose usable part ends inside a page), with no, one or two modules; 6 files; 2 callers, requests up to 4 pages: runs that other ranges split, retries that succeed and that fail |
| `pmm_exhausted` | `MCBootExhausted.cfg` | violation of `NoneOnlyIfExhausted`: NONE with free memory left | the same |
| `ipc_quiet` | `MCIpcQuiet` | the vector implements the mailbox without switches inside an update, with a receiver that may end and be reaped | 2 senders with 2 messages each: the vector grows twice, and the receiver waits in between |
| `ipc_test` | `MCIpcTest.cfg` | violation of `Genuine` with the one message of `pkg/ipc-test` | 1 sender, 1 message |
| `liballoc` | `MCLiballoc` | the heap's lists, accounts and promises | 3 majors, pages of 5 units, a small size of which a major holds three and one that needs more pages than `l_pageCount`; places of majors are symmetric |
| `vmm` | `MCVmm` | trees of tables implement address spaces, isolation, the heap stays mapped | 2 levels of 9 entries, 2 programs, 2 blocks, 1 shared range, 18 pages of memory: what these need, so that memory also runs out; programs are linked at a page of memory; messages name one page of it (13), which is now a table, now a program's or the heap's |
| `lison` | `MCLison` | lexer and parser against the description | every text of marks up to 4 characters after `'(` and up to 5 without a quote, of strings up to 4, of lists on two lines up to 5 between the brackets, of atoms up to 3; 3 slots past the tokens, which are enough to open a list there, to put a newline into it and to end it as no pair |
| `pyvm` | `MCPyVm` | the reader, the virtual machine and the map against Python | every program of up to 3 of 8 statements, 13 programs each with something the code was not written for, the program of `test.py` and every prefix of its file; 4 nested objects |

The safety properties of `sched`, `irq_frames`, `kernel`, `boot`, `ipc_quiet`,
`liballoc`, `vmm` and `lison` do not rest on these bounds: section 6 has
them for every value of the constants.

Deadlock is checked except in `pyvm`, where a program ends or panics, in `ipc_quiet`, where the senders have a bounded
number of messages and a receiver that waits is at rest when no more come, and
in `vmm`, where a panic stops the kernel.
`MaxTasks`, `Count`, `MaxDepth`, `MaxUsers`, `MaxBlocks`, `MaxShared`, `Named` and
`MaxOverrun` are bounds of the models; the number of `Ids` in `Liballoc` stands for the memory
there is. The other constants are constants of the code, made small.

## 5. Fairness

- `Sched`: weak fairness of `sched_yield`, since the timer is periodic and its
  interrupt is pending until it is taken; strong fairness of the boot task's two
  loops, whose bodies take far less than a slice, so that a task that is
  scheduled again and again gets through them. Tasks need not exit or yield.
- `Kernel`: strong fairness of the timer (interrupts may be off and on for ever;
  the request stays), weak fairness of the handler, which nothing interrupts,
  and strong fairness of each task. A spinning handler takes steps that change
  nothing, so fairness of the handler does not free it.
- `Boot`, with `PmmScan`: weak fairness of the call in progress.
- `Ipc`: strong fairness of each task, which `NoStarvation` of `Sched` shows the
  scheduler to give.
- `Lison`: weak fairness of the next step: the program goes on.

## 6. What is proved

| theorem | module | says |
| --- | --- | --- |
| `SchedTypes` | `SchedProofs` | `SchedTypeOK`: the current pid is that of a queued task, `tick` stays within `SWITCH_TICK` |
| `SchedRoundRobin` | | `BoundedBypass` |
| `SchedReapsSafely` | | `StackOutlivesTask` |
| `KernelImplementsSched` | `KernelProofs` | each instruction of `Kernel` is a step of `Sched` or none |
| `KernelSchedulesSafely` | | so the three properties above hold of `Kernel` |
| `KernelScansAlone` | | `ScanExclusive`, under every timing |
| `KernelLockOrder` | | `LockOrder`, under every timing |
| `FramesImplementSched` | `IrqFramesProofs` | each step of `IrqFrames` is one of `Sched` or none |
| `FramesResumeOwn` | | `ResumesOwn`, if `Dangers = {}` |
| `FramesEnterFree` | | `EntersOnFreeStack`, if `Dangers = {}` |
| `FramesFreedUnused` | | `FreedStackUnused`, if `Dangers = {}` |
| `PmmTypes` | `BootProofs` | `PmmTypeOK`: a search never starts past the end of the bitmap |
| `PmmNoDoubleAllocation` | | `ExclusivePages` |
| `PmmNoLeak` | | `NoLostPage` |
| `PmmHandsOutUsable` | | `OnlyUsablePages` |
| `ScanImplementsPmm` | | the loop of `PmmScan` implements `Pmm` |
| `ScanKeepsPages` | | so the properties of `Pmm` hold of the loop |
| `BootImplementsPmm` | | `Refines`: the same for `Boot`, with the bitmap that `pmm_init` makes of the tags |
| `BootKeepsPages` | | so the properties of `Pmm` hold from the boot on |
| `BootRunsTest` | | `RunsTest` |
| `QuietWritesStay` | `IpcProofs` | `NoWildWrite`, if `~Races` |
| `QuietMailbox` | | `Refines`: the vector implements `Mailbox`, if `~Races` |
| `LiballocMinorsInOrder` | `LiballocProofs` | `MinorsInOrder` |
| `LiballocListsAll` | | `ListsAllPointers` |
| `LiballocUsageExact` | | `UsageExact` |
| `LiballocBestBet` | | `BestBetListed` |
| `LiballocRefinesHeap` | | `Refines`: the lists implement `Heap` |
| `VmmRefinesSpaces` | `VmmProofs` | `Refines`: the trees of tables implement `AddressSpaces` |
| `VmmPrivateTables` | | `PrivateTables` |
| `VmmIsolation` | | `Isolation` |
| `VmmHeapMapped` | | `HeapMapped` |
| `VmmStaysMapped` | | `StaysMapped` |
| `LisonLexesByTheBook` | `LisonProofs` | `LexesByTheBook` |
| `LisonParsesByTheBook` | | `ParsesByTheBook` |
| `LisonReadsInside` | | `ReadsInside` |
| `LisonErrorFreesLists` | | `ErrorFreesLists` |

Each is a theorem about every behaviour of the specification (of its safety
part, where it has one of its own, as `SchedSafety`), for every value of the
constants that satisfies the assumptions of the module:

- `SchedAssumption`: there are tasks, and slices have ticks. `KernelAssumption`
  fixes `MaxTasks` at 3, since `Kernel` has the code of the boot and of two
  tasks; slices and timings are arbitrary. `FramesAssumption`: at least one
  frame fits on a stack.
- `PmmAssumption`: bytes have bits, pages have bytes, and memory maps are as the
  loader gives them, ordered, with usable entries that meet no others.
  `BootAssumption`: the tags describe such a map, within the limits of the
  Handover, and one of its usable entries has room for the bitmap
  (`FitForBitmap`, which also asks that the last entry, if it is usable, end at
  a whole byte of the bitmap: `pmm_free` clears the bits of whole bytes there).
  `ElfAssumption` gives the types of a file's headers.
- `IpcAssumption`: the receiver is not a sender. `LiballocAssumption`: headers
  and pages have a size. `VmmAssumption`: there are two levels or more, some
  entries of the top level are copied and some not, there is memory, and a block
  of the heap has pages. `WindowAssumption`: pages handed out are seen among the
  copied entries, and their own numbers, at which programs get shared memory,
  lie below. `LayoutAssumption`: programs and stacks lie below the copied
  entries, a program does not contain the page of its stack, `vmm_init` maps the window to every page handed out (those below
  `Direct`, or those of an entry of the map), and no range that it maps goes
  around or covers the window with other pages. `NamedAssumption`: the ranges
  that messages name lie below the copied entries. The first three are the layout of
  `const.h:22` and `link.ld` on a machine with up to two gigabytes; the window
  of a larger one wraps (section 8).
- `LisonAssumption`: texts are sequences of characters and shorter than the
  numbers of their lengths, `SIZE`.
- The initial state of `Vmm` is that after `sched_init`, so it exists only where
  memory lasts for the boot.

The two conditions, `Dangers = {}` and `~Races`, are constants of the models and
not conditions on their state: with the other values the properties fail
(section 7).

*Scheduler.* `BoundedBypass` is not inductive: that a waiting task was passed
over fewer than `length` times says nothing about the next switch. The
invariant `TurnInv` is: what it has waited and its distance from the current
pid, along the ring, are together at most `length`. A switch goes to the first
running task on that ring, so it takes at least one step off the distance of
each one that goes on waiting (`SwitchShortens`), and a task that is queued
makes the ring longer for all. `QueueInv` (the boot task never ends; exactly the
queued tasks have a state) gives the switch a task to find.
`StackOutlivesTask` is inductive with these: the reaper runs in the boot task,
so a dead task that it finds is not the current one, and a dead task is not
switched to again.

*Locks and interrupts.* A context's code has branches, loops and expanded calls,
so the invariant cannot list its places. `Safe(code, held, flags)` says that the
code is in some set of positions which are all allowed (the next lock comes
after those held, the next unlock is of one held, a search goes on to its mark
where nobody else can run) and which no instruction leaves. Each function of the
kernel has a lemma, proved from those of the functions it calls (`malloc` in
`heap_Runs`, `push_task` in `push_task_Runs`): it leads from a safe position to
whatever is safe after it. `CodeInv` is that what each task has left is safe with
the locks it holds; `HandlerInv` says which locks the handler holds at each of its
nine places. `SearchInv` is the argument for `ScanExclusive`: a task that is
switched away from between a search and its mark holds the lock "vmm", and the
handler that switched away, on its way out, has yet to take that lock, and
spins.

*Frames.* `FramesInv` is an account of every frame. Each task that is not
running has a chain of frames on its own stack, which ends in its registers; a
handler that has switched away from a task goes on above that task's chain, on
a stack that it borrows, and holds nothing but its own return, until it returns
to the registers of the current task.

*Page allocator.* `NoLostPage` is inductive only with the knowledge that what
callers hold was free after `pmm_init` (`HeldWasFree`), for otherwise a free
would clear a bit that `pmm_init` set; and with `ExclusivePages`, for otherwise
it would clear a bit of another caller. `ExclusivePages` follows from
`NoLostPage`: a new range has clear bits only, so it meets nobody's pages.
`OnlyUsablePages` follows from `HeldWasFree` and the definition of the initial
bits. The lemmas about a grant, a search and a free (`GrantInv`, `AllocInv`,
`FreeInv`) are the steps.

*Search loop and boot.* `ScanInv` adds to it that the current run is exactly the
clear bits just before `i`, back to a set bit or to the start of the search, and
that no run before it is long enough; so the run that is found is the lowest, and
a search that ends without one has none to find. `InitialBitmap` works out
`pmm_init` in bytes against `InitialUsed` in pages. `LoadInv` says that the bytes
of the headers before the current turn are in place, which later segments leave
alone since those of a well linked file are disjoint.

*Messages.* `IpcInv` says at each step of `vec_push`, `realloc` and `vec_pop`
what the locals of the task that is inside an update have to do with the vector,
and that all others are outside: of the two buffers that live during a growth,
`data` names the one that is still whole.

*Heap.* `HeapInv` says of the minors of a major that each starts where all those
before it have ended (and not only the next: a gap may open anywhere), that the
lists and the callers agree, and that the best bet is listed. `UsageExact` is a
sum over a list; that it follows an insertion and a removal is proved about the
partial sums, for a least counterexample.

*Page tables.* The state does not say which space a table belongs to. `VmmInv`
gives each table a place: the space in which its entries are seen, its level, and
which of the tables of that level it is. A walk comes to the place that its
address tells, and a table is added on a page that was free, only where a walk
found none; so the tables are a tree. Entries of the last level outside the
shared part change in the space that is being mapped only, and only to pages that
are its program's, or shared, or named by a message and then at the address of
the same number (`Called`); leaving those out (`Leaf`), programs stay apart
(`Apart`). The walks and loops
are recursive functions: what a run of `vmm_map_range` of any length does is
proved of a least counterexample (`RunExists`, `RunStays`), since the library's
induction cannot be used with the provers at hand.

`StaysMapped` and `HeapMapped` need to know where entries change and not only
whose: `Stopped` and `LoadKeeps`, `SharedMaps`, `CreateKeeps`, `HeapMaps` and
`FreeKeeps` give that for each call (a call that panics half way too), from what
one mapping adds (`MapRange`, `MapNewGrows`) and what a walk through unchanged
entries finds (`SameWalk`). `Window` says that all spaces have the tables of the
window in common, and that an address of it which is mapped names the page that
the window shows there: the heap maps nothing else, and whatever else is mapped
after the boot lies below the copied entries. `HeapPart` says that the pages of
all blocks are mapped; since blocks do not overlap, a free unmaps none of them
but the first of its own.

`VmmRefinesSpaces` compares each call with one step of `AddressSpaces`. The same
lemmas tell of each address whether a call added its page or left it alone
(`Added`, `Kept`, `Means`), and the new entries of a program from those that it
has in common with the others (`Spaced`). A range of shared memory that a program
receives again is mapped already, in part or in whole: the step of the address
spaces is taken to start at the least page that changed (`RefinedMap`), which is
why `Vmm` gives `AddressSpaces` the ends of its ranges too (`Lengths` there is
every number up to a length of `Vmm`). `SharedPart`, the last part of `VmmInv`,
says that the ranges received have such lengths.

*Lison.* `Lexing` says of the lexer behind each character that its tokens are
those of the positions before (`Lexed`: the token of rank k is the one that
begins at the position of rank k), that the builder holds the word that is being
read from its first character on, and that `is_str` is whether an odd number of
quotation marks lies behind. `LiveInv` is the account of the parser's heap: what
is allocated are the vectors of the open lists and of the form that was read
last, where the sums over nested lists are those of partial sums, as for the
heap, and what was left (`Left`). `Spans` relates both to the tokens: which slot
opened each list on the stack, and that the vectors of its forms are no more than
the parentheses opened inside it since. An error about a pair frees all lists.
One at the end of the tokens frees only the vector of the innermost list, so
what this list had read is left. After it the second form is read, from slots
past the last token, whatever they hold: there every turn meets the end again,
so that no list gets a form (`Behind`), and an error there, be it about a pair,
finds nothing more to free or to leave.

`ParseInv` relates the parser, which has seen `offset` tokens, to a description
that asks for the matches of parentheses in all of them. It names the tokens `ks`
at which the lists on the stack began. `Nested` says of those that each lies one
deeper than the one before and none has been left since (`Above`), so that the
next closing parenthesis is the match of the last one and of no other
(`CloseMatch`); and that every other list since the first has its match behind
it and is a pair if it has to be. `Stacked` says that each list on the stack has
as many forms as the description counts up to the list inside it, and a quote if
the description finds one (`Contents`). So the test of `read_list` on a list
that ends is that of the description (`SoundIs`; the lines agree because the
tokens have as many newlines as the text, `LinesAgree`); a list that passes it
is one more form of the list around it (`FormsOver`); and the first list that
fails it is the least of `Broken`, since all before it have passed
(`NestedBroken`). The read past the last token finds a list at `ks` that has no
match, or fewer than two tokens that are no newlines: the text is not complete
(`EndIncomplete`). For `lison_get`, `Contents` also keeps of each form that is a
list, where the rule of pairs applies to it, that it has two forms (`FormOK`); and
a string has two quotation marks when they pair up on each line (`StringsHold`).

## 7. What the code does that its tests do not expect

Three runs end in a violation of what a test or a message of the code says.

- **A nested UNLOCK stops the machine** (`kernel_window`; `lock.h:13`). In
  `sched_push_task`, `vmm_map_page`, `sched_idle`, `create_task` and others an
  inner call unlocks its own lock and turns interrupts on. A tick there makes
  the handler wait for the lock that the interrupted task holds.
- **A message that nobody wrote** (`ipc_test`; `syscall.c:47`). The receiver
  waits for `length` alone, which may be stored before the slot.
- **NONE with free memory** (`pmm_exhausted`; `pmm.c:17`, `90`). The bitmap's
  length in bytes bounds a loop over bits.

The models also keep these, which no line of the repository contradicts: a
semicolon makes the lexer of Lison spin (`lexer.c:110`); `#t` gives the token
`#t` and then a token that begins with `t` (`lexer.c:70`); the tokens `"` that a
`#` or a newline in a string leaves behind give a string of the largest length
there is (`parser.c:92`); a list that is not closed makes the parser read past
its tokens; the lists that such a list had read are not freed (`parser.c:28`);
the error of a first form is dropped, and the second form read from where it was
raised (`parser.c:158`); a first form that is a list is not freed when the error
is that there is no quote (`parser.c:161`), for which `ErrorFreesLists` says
nothing; `lison_get` reads past an empty list or a single form.

A system call that names a pid just past the queue passes the test
`tasks.length >= pid` and reads past the vector (`sched.c:111`). In `ipc-test`
this happens when the sender runs before the boot has queued the receiver: with
`Timings = {"outside"}` in `MCKernelWindow.cfg`, `Delivered` fails that way.

A switch may fall where it does harm (`IrqFrames`, `Dangers`), and nothing in
the code keeps it away. With `"exit"`: between the load of the program's stack
pointer and `sysret` (`syscall.s:68`) interrupts are on, if an `UNLOCK` or
`sched_force_yield` in the system call has set the flag; the frame then lies on
the program's stack, `vmm_switch_space` changes the memory under it, and
`iretq` pops what the next program has there. With `"epilogue"`: the controller
is told and interrupts are on before the registers are popped
(`interrupt_handler.c:142`); when the handler that is cut there runs on
`tss.rsp[0]` (`gdt.c:79`), the task that is switched away leaves half a handler
on a stack that the next interrupt from user mode starts again from its top.
`ResumesOwn` fails with either.

In the boot: `m->name` points into a copy of the module that is local to the
loop (`stivale.c:95`), so that all names are the last module's, cut to their own
lengths, as long as that memory is not used for something else; with the one
module of `limine.cfg` the name is right while it lasts. `load_elf_module`
counts the offset of the program headers in headers (`elfloader.c:28`) and is
then one behind (`:52`): the first turn reads 56 times too far, and the last
header is never loaded. It puts the contents of a segment at the start of its
first page (`:48`), and copies the rest from address 0 instead of clearing it
(`:49`).

Shared memory is mapped at its physical address (`syscall.c:98`). Programs are
linked at 4M (`link.ld`), where there is memory too: such a range takes the
place of the program's code (`Vmm`, the last case of `StaysMapped`). A receive
maps whatever range lies at `msg->_addr` (`syscall.c:64-70`), with no test that a
`create_shared_mem` made it: page tables, the heap's pages or another program's
come to be mapped at the addresses of their own numbers (`ByName` in
`Isolation`). And the heap is mapped for users in the part of the addresses that
all spaces share (`compat.c:30-33`, under tables that are the users' too,
`vmm.c:69`), so every program can reach all blocks of the kernel there.

In the virtual machine: `buf` is an array of signed characters, so the int 200
is read as -56, and a string of 128 bytes, such as the
code of 16 calls with an argument, has a negative length, which moves the reader
back (`pymarshal.c:22`, `27`, `106`); the code of 37 empty calls makes it read
the same object again until the C stack is full. References are read but not followed, so that a name which is also a
string constant is NULL (`pymarshal.c:144`). The arguments of a call come in
reverse order (`pyvm.c:113`). An addition adds the first words of its operands,
whatever their types are (`pyvm.c:166`): of two strings, the lengths. `r_code`
skips the first number of the code object instead of the fourth, which is the
one without a field in the files of Python 3.10 that the program accepts
(`marshal-test/main.c:26`): `argcount`, `posonlyargcount` and `kwonlyargcount`
each hold the number after their own. A negative number is logged with the
digits of a negative remainder, characters below `0`, and its minus behind
(`itoa.c:56`). The magic number is compared
with `strcmp` in a buffer without a NUL (`main.c:26`); the model compares four
bytes.

## 8. What is only model-checked, and what is not modelled

Only checked: all liveness (`NoStarvation`, `DeadIsReaped`, `TestEnds`,
`CallReturns`, `AllReceived`, `ParseReturns`), which is out of reach of the
prover; and all of `PyVm`, whose properties compare recursive definitions
over programs and files, which only an induction over data could prove. Only proved, not
listed in a run: `SchedTypeOK`.

Not modelled: the TLB (but see `StaysMapped`), the user bit of page tables, and
what a program stores into a table that it had mapped; messages that name ranges
in the part of the addresses that all spaces share (`NamedAssumption`), which
would take the window or the heap from under the kernel; the locks that an error
return leaves held, for a file that is no ELF file (`elfloader.c:21-25`) and for
a space without memory (`vmm.c:178`): `Boot` and `Vmm` have the panic that
follows, and `Kernel`, which has the locks, has no errors;
the window's wrap around, for machines with more than two gigabytes
(`const.h:24`); the magic numbers of the heap and `calloc`; the report of
exceptions; the hardware's tables and ports; the modes `a`, `x` and `M` of
`PRINT_FORMAT` and `itoa` in other bases than 10 (a negative number is written
as two halves there, the lower without its zeros, `itoa.c:37`); floating point;
the functions of `string.c` and `stdlib.c` that nothing above calls. Also not:
lists of tags without a memory map or modules, or with more entries than their
limits, and maps in which no usable entry has room for the bitmap, since `Boot`
assumes what limine gives; and a last entry that is usable and does not end at
a whole byte of the bitmap, for which `pmm_free` clears bits behind it
(`FitForBitmap`).
`PROJECT.json` gives the reason for each component. Modules compose where the
code shares state (`Sched` in `Kernel` and `IrqFrames`, `Pmm` in `PmmScan` and
`Boot`); `Vmm` has its own copy of `pmm_alloc` as a function, since it chains
calls inside one action.

## 9. Plan

In the order of importance; those above the line exist.

1. `Sched`, `Kernel`: scheduling, locks, interrupts. `SchedProofs`,
   `KernelProofs`.
2. `Pmm`, `PmmScan`: pages.
3. `Ipc` with `Mailbox`: messages. `IpcProofs`.
4. `Liballoc` with `Heap`, `Vmm` with `AddressSpaces`: memory above pages.
   `LiballocProofs`, `VmmProofs`.
5. `Lison` with `LisonText`: the parser. `LisonProofs`.
6. `PyVm` with `PySource`, `RxiMap` and `Fmt`: the virtual machine.
7. `IrqFrames`: the frames of nested interrupts. `IrqFramesProofs`.
8. `Boot`: from the boot loader's tags to pages and the first program.
   `BootProofs`, with the theorems about `Pmm` and `PmmScan`.

---

9. The other modes of `Fmt`, and `strncmp` and `strtok` against reference
   definitions.
10. A composition of `Liballoc`, `Vmm` and `Pmm`: the heap on its pages.
