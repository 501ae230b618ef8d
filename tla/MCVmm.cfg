CONSTANTS
    limit_pml = 2
    ENTRIES = 9
    FirstCopied = 4
    MMAP_KERNEL_BASE = 54
    MMAP_IO_BASE = 45
    Direct = 29
    Memmap <- MCMemmap
    Memory = {3, 4, 5, 6, 7, 8, 9, 10, 11, 12, 13, 14, 15, 16, 17, 18, 19, 20}
    UserCode = 20
    UserStack = 26
    Lengths = {1}
    PageCount = 2
    Named <- MCNamed
    MaxUsers = 2
    MaxBlocks = 2
    MaxShared = 1
CHECK_DEADLOCK FALSE
SPECIFICATION Spec
INVARIANTS
    PrivateTables
    Isolation
    HeapMapped
PROPERTIES
    StaysMapped
    Refines
