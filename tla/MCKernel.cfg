CONSTANTS
    MaxTasks = 3
    SWITCH_TICK = 2
    Timings = {"any", "quiet"}
SPECIFICATION Spec
INVARIANTS
    ScanExclusive
    LockOrder
PROPERTIES
    TestEnds
