------------------------------- MODULE MCBoot -------------------------------
(* Bytes of two bits and pages of four bytes: a bitmap of five or six      *)
(* bytes, with one full page and one in part, and five or six pages to     *)
(* hand out, for two callers: enough for runs that other ranges split, for *)
(* a retry that finds room below last_index, and for one that does not.    *)
(* In the second map a usable entry is too small for the bitmap, and others *)
(* split the pages; in the third the search runs into memory that was      *)
(* never usable, some of which ends inside a page.                         *)
EXTENDS Boot

Entry(b, n, t) == [base |-> b, length |-> n, type |-> t]
Memmap(entries) == [id |-> "memmap", entries |-> entries, modules |-> <<>>]
Modules(names) == [id |-> "modules", entries |-> <<>>, modules |-> names]
Other == [id |-> "framebuffer", entries |-> <<>>, modules |-> <<>>]

MCTest == <<"t", "e", "s", "t">>
Init == <<"i", "n", "i", "t">>
Tests == <<"t", "e", "s", "t", "s">>

Map1 == Memmap(<<Entry(0, 40, "USABLE"), Entry(40, 12, "ACPI_NVS")>>)
Map2 == Memmap(<<Entry(0, 4, "USABLE"), Entry(4, 4, "KERNEL_AND_MODULES"),
                 Entry(8, 36, "USABLE"), Entry(44, 4, "FRAMEBUFFER")>>)
Map3 == Memmap(<<Entry(0, 28, "USABLE"), Entry(28, 30, "BOOTLOADER_RECLAIMABLE"),
                 Entry(58, 7, "RESERVED")>>)

MCTagLists ==
    {<<Map1, Modules(<<MCTest>>)>>, <<Modules(<<Tests>>), Other, Map2, Modules(<<MCTest>>)>>,
     <<Map1, Modules(<<Tests>>), Map3>>, <<Map1, Modules(<<Init, MCTest>>)>>,
     <<Map1, Modules(<<Tests, MCTest>>)>>, <<Map1, Modules(<<>>)>>, <<Modules(<<MCTest>>), Map3>>}

MCHandovers == {Described(list) : list \in MCTagLists}

Segm(t, o, v, f, m) == [type |-> t, offset |-> o, vaddr |-> v, filesz |-> f, memsz |-> m]
None == Segm("NULL", 0, 0, 0, 0)
Stack == Segm("GNU_STACK", 0, 0, 0, 0)
File(magic, phdrs, stray) == [magic |-> magic, phdrs |-> phdrs, stray |-> stray]

MCElfs ==
    {File(TRUE, <<Segm("LOAD", 4, 16, 6, 6), Segm("LOAD", 12, 24, 2, 7), Stack>>, None),
     File(TRUE, <<Segm("NOTE", 9, 0, 1, 1), Segm("LOAD", 8, 16, 4, 4), Stack>>, None),
     File(TRUE, <<Segm("LOAD", 5, 17, 3, 3), Stack>>, None),
     File(TRUE, <<Segm("LOAD", 4, 16, 4, 4)>>, None),
     File(TRUE, <<Segm("LOAD", 4, 16, 4, 4), Stack>>, Segm("LOAD", 1, 16, 4, 4)),
     File(FALSE, <<>>, None)}
=============================================================================
