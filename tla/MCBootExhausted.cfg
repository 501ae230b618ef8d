CONSTANTS
    TagLists <- MCTagLists
    Handovers <- MCHandovers
    Elfs <- MCElfs
    Test <- MCTest
    LIMIT_MEMORY_MAP_SIZE = 4
    LIMIT_MODULE_SIZE = 2
    Client = {c1, c2}
    BITS = 2
    PAGE_SIZE = 4
    Sizes = {0, 1, 5, 8, 13}
SPECIFICATION BootSpec
INVARIANT
    NoneOnlyIfExhausted
