--------------------------------- MODULE Boot ---------------------------------
(***************************************************************************)
(* From the boot loader's tags to the first program: stivale2_entry()      *)
(* turns the list of tags into a Handover (loader/stivale.c), pmm_init()   *)
(* turns its memory map into the bitmap, bootstrap() finds the module      *)
(* "test" in it, and load_elf_module() copies the program into a space.    *)
(* The page allocator then runs as in module PmmScan, on the bitmap that   *)
(* this has made; addresses are in bytes here and in pages there.          *)
(***************************************************************************)
EXTENDS PmmScan, SequencesExt, FiniteSetsExt

CONSTANTS
    TagLists,       \* lists of tags the boot loader may pass: sequences of
                    \* [id, entries, modules]
    Elfs,           \* contents of a module: [magic, phdrs, stray]
    Test,           \* the name "test"
    LIMIT_MEMORY_MAP_SIZE, LIMIT_MODULE_SIZE

VARIABLES
    boot,           \* "find", "load", "loaded", "up" or "panic"
    tags,           \* what the boot loader has passed, until it is used up
    found,          \* the module that handover_find_module returned
    elf, turn,      \* the file that is loaded, and the turn of the loop
    image           \* what each byte of the program's memory holds

loadVars == <<boot, tags, found, elf, turn, image>>
bootVars == <<scanVars, loadVars>>

-----------------------------------------------------------------------------
\* The last tag of a kind is the one that counts.
OfKind(list, id) == {k \in 1 .. Len(list) : list[k].id = id}
LastOf(list, id) == list[Max(OfKind(list, id))]

\* The map that a list of tags describes, in pages.
InPages(entries) ==
    [k \in 1 .. Len(entries) |->
        LET first == entries[k].base \div PAGE_SIZE
            end == (entries[k].base + entries[k].length) \div PAGE_SIZE
        IN  [base |-> first, length |-> end - first, usable |-> entries[k].type = "USABLE"]]

Described(list) == InPages(LastOf(list, "memmap").entries)

\* bitmap.length, from a map in bytes.
BitmapBytes(entries) == (Last(entries).base + Last(entries).length) \div (PAGE_SIZE * BITS)

\* The usable entries of a map are whole pages which have bits in the bitmap,
\* and one of them has room for it.
FitForBitmap(entries) ==
    LET Usable == {k \in 1 .. Len(entries) : entries[k].type = "USABLE"} IN
    /\ \A k \in Usable :
          /\ entries[k].base % PAGE_SIZE = 0 /\ entries[k].length % PAGE_SIZE = 0
          /\ entries[k].base + entries[k].length <= BitmapBytes(entries) * BITS * PAGE_SIZE
    /\ \E k \in Usable : entries[k].length >= BitmapBytes(entries)

Tag == [id : STRING, entries : Seq([base : Nat, length : Nat, type : STRING]),
        modules : Seq(Seq(STRING))]

\* Both kinds of tags are there, and the assertions of the parser hold.
ASSUME BootAssumption ==
    \A list \in TagLists :
        /\ list \in Seq(Tag)
        /\ OfKind(list, "memmap") # {} /\ OfKind(list, "modules") # {}
        /\ Described(list) \in Handovers
        /\ FitForBitmap(LastOf(list, "memmap").entries)
        /\ \A k \in 1 .. Len(list) :
              /\ Len(list[k].entries) <= LIMIT_MEMORY_MAP_SIZE
              /\ Len(list[k].modules) <= LIMIT_MODULE_SIZE

Header == [type : STRING, offset : Nat, vaddr : Nat, filesz : Nat, memsz : Nat]

ASSUME ElfAssumption ==
    Elfs \subseteq [magic : BOOLEAN, phdrs : Seq(Header), stray : Header]

-----------------------------------------------------------------------------
\* Plausible error in stivale2_parse_mmap: memory of the boot loader, in
\* which the tags lie, is taken for usable.
MmapType_Reclaim(type) ==
    IF type = "BOOTLOADER_RECLAIMABLE" THEN "USABLE" ELSE type

\* The switch of stivale2_parse_mmap().
MmapType(type) ==
    IF type \in {"BOOTLOADER_RECLAIMABLE", "KERNEL_AND_MODULES", "FRAMEBUFFER", "USABLE"}
       THEN type ELSE "RESERVED"

stivale2_parse_mmap(tag) ==
    [k \in 1 .. Len(tag.entries) |-> [tag.entries[k] EXCEPT !.type = MmapType(@)]]

\* The name of each module is a pointer to the copy of the module in the
\* loop, with the length that was true then: `string' is what the copy holds
\* in the end.
stivale2_parse_module(tag) ==
    [lengths |-> [k \in 1 .. Len(tag.modules) |-> Len(tag.modules[k])],
     string |-> IF tag.modules = <<>> THEN <<>> ELSE Last(tag.modules)]

\* The tags are read in their order, each over what the last has left.
stivale2_parse_header(list) ==
    LET after[k \in 0 .. Len(list)] ==
            IF k = 0 THEN [memmaps |-> <<>>, modules |-> [lengths |-> <<>>, string |-> <<>>]]
            ELSE IF list[k].id = "memmap"
               THEN [after[k - 1] EXCEPT !.memmaps = stivale2_parse_mmap(list[k])]
            ELSE IF list[k].id = "modules"
               THEN [after[k - 1] EXCEPT !.modules = stivale2_parse_module(list[k])]
            ELSE after[k - 1]
    IN  after[Len(list)]

-----------------------------------------------------------------------------
ALIGN_DOWN(x) == (x \div PAGE_SIZE) * PAGE_SIZE
ALIGN_UP(x) == ALIGN_DOWN(x + PAGE_SIZE - 1)

\* The bits that pmm_free() or pmm_set_used() touches.
Run(base, length) == LET target == base \div PAGE_SIZE IN target .. target + length \div PAGE_SIZE - 1

\* pmm_init(), by what it leaves in the bitmap.
pmm_init_bytes(memmaps) ==
    LET length == BitmapBytes(memmaps)
        at == Min({k \in 1 .. Len(memmaps) : memmaps[k].type = "USABLE" /\ memmaps[k].length >= length})
        moved == [memmaps EXCEPT ![at].base = @ + ALIGN_UP(length), ![at].length = @ - ALIGN_UP(length)]
        freed == UNION {Run(ALIGN_DOWN(e.base), ALIGN_UP(e.length)) :
                           e \in {moved[k] : k \in {j \in 1 .. Len(moved) : moved[j].type = "USABLE"}}}
    IN  (0 .. length * BITS - 1 \ freed) \cup Run(memmaps[at].base, length)

BootInit ==
    /\ tags \in TagLists
    /\ handover = Described(tags)
    /\ used = pmm_init_bytes(stivale2_parse_header(tags).memmaps)
    /\ last_index = 0
    /\ holds = [c \in Client |-> NoRange]
    /\ ScanLocals
    /\ boot = "find"
    /\ found = 0
    /\ elf = [magic |-> FALSE, phdrs |-> <<>>, stray |-> <<>>]
    /\ turn = 0
    /\ image = [v \in {} |-> <<>>]

-----------------------------------------------------------------------------
str_eq(length, string, name) ==
    /\ length = Len(name)
    /\ Len(string) >= length
    /\ SubSeq(string, 1, length) = name

\* The copy is out of scope: it may have been overwritten since.
FindModule ==
    /\ boot = "find"
    /\ LET modules == stivale2_parse_header(tags).modules IN
       \E string \in {modules.string, <<>>} :
          LET Equal == {k \in 1 .. Len(modules.lengths) : str_eq(modules.lengths[k], string, Test)} IN
          IF Equal = {} THEN boot' = "panic" /\ UNCHANGED <<found, elf>>
          ELSE /\ boot' = "load"
               /\ found' = Min(Equal)
               /\ elf' \in Elfs
    /\ UNCHANGED <<scanVars, tags, turn, image>>

\* The pointer starts at an offset counted in headers, and is then one
\* header behind: the last header is never looked at.
Phdr == IF turn = 0 THEN elf.stray ELSE elf.phdrs[turn]

\* Plausible error in load_elf_module: the offset in the file is left out.
Segment_NoOffset(h) ==
    LET start == ALIGN_DOWN(h.vaddr) IN
    [v \in start .. start + ALIGN_UP(h.memsz) - 1 |->
        IF v - start < h.filesz THEN <<"file", v - start>> ELSE <<"old", 0>>]

\* The pages of a segment: its part of the file from the start of the first
\* page on, then what is found at address 0, then what was there before.
Segment(h) ==
    LET start == ALIGN_DOWN(h.vaddr) IN
    [v \in start .. start + ALIGN_UP(h.memsz) - 1 |->
        IF v - start < h.filesz THEN <<"file", h.offset + v - start>>
        ELSE IF v - start < h.memsz THEN <<"low", v - start - h.filesz>>
        ELSE <<"old", 0>>]

\* The pages mapped last are those that are seen.
Over(pages, below) ==
    [v \in DOMAIN pages \cup DOMAIN below |-> IF v \in DOMAIN pages THEN pages[v] ELSE below[v]]

NotElf ==
    /\ boot = "load" /\ turn = 0 /\ ~elf.magic
    /\ boot' = "panic"
    /\ UNCHANGED <<scanVars, tags, found, elf, turn, image>>

LoadSegment ==
    /\ boot = "load" /\ elf.magic
    /\ turn < Len(elf.phdrs)
    /\ turn' = turn + 1
    /\ image' = IF Phdr.type = "LOAD" THEN Over(Segment(Phdr), image) ELSE image
    /\ UNCHANGED <<scanVars, boot, tags, found, elf>>

Loaded ==
    /\ boot = "load" /\ elf.magic
    /\ turn = Len(elf.phdrs)
    /\ boot' = "loaded"
    /\ UNCHANGED <<scanVars, tags, found, elf, turn, image>>

\* The boot is over, and what it has read is not read again.
Up ==
    /\ boot = "loaded"
    /\ boot' = "up"
    /\ tags' = <<>>
    /\ found' = 0
    /\ elf' = [magic |-> FALSE, phdrs |-> <<>>, stray |-> <<>>]
    /\ turn' = 0
    /\ image' = [v \in {} |-> <<>>]
    /\ UNCHANGED scanVars

Panic == boot = "panic" /\ UNCHANGED bootVars

BootNext ==
    \/ FindModule \/ NotElf \/ LoadSegment \/ Loaded \/ Up \/ Panic
    \/ boot = "up" /\ ScanNext /\ UNCHANGED loadVars

BootSpec == BootInit /\ [][BootNext]_bootVars /\ WF_bootVars(Returning /\ UNCHANGED loadVars)

-----------------------------------------------------------------------------
\* A file whose segments start at pages of their own, as those linked with
\* kernel/hw/x86_64/link.ld do, and have no more bytes in the file than in
\* memory, whose last header is none to load, as the one for the stack is,
\* and that has no such header by chance where the loop begins.
WellLinked ==
    LET n == Len(elf.phdrs)
        Loads == {k \in 1 .. n : elf.phdrs[k].type = "LOAD"}
    IN  /\ n \notin Loads
        /\ elf.stray.type # "LOAD"
        /\ \A k \in Loads :
              /\ elf.phdrs[k].vaddr % PAGE_SIZE = 0
              /\ elf.phdrs[k].filesz <= elf.phdrs[k].memsz
              /\ \A j \in Loads \ {k} :
                    DOMAIN Segment(elf.phdrs[k]) \cap DOMAIN Segment(elf.phdrs[j]) = {}

\* Every byte of a segment that the file has is in its place.
Filled(h) ==
    \A b \in 0 .. h.filesz - 1 :
        h.vaddr + b \in DOMAIN image /\ image[h.vaddr + b] = <<"file", h.offset + b>>

\* The module that the boot runs is the one that the boot loader called
\* "test", when it passes one module, as sysroot/boot/limine.cfg does: with
\* more, all names are the last one's, cut to their own lengths.  And if it
\* is well linked, the program finds all that its file has for it at the
\* addresses it was linked for.
RunsTest ==
    boot = "loaded" =>
        /\ LET modules == LastOf(tags, "modules").modules IN
           Len(modules) = 1 => modules[found] = Test
        /\ WellLinked =>
              \A k \in 1 .. Len(elf.phdrs) : elf.phdrs[k].type = "LOAD" => Filled(elf.phdrs[k])
=============================================================================
