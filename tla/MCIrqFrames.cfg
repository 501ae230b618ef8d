CONSTANTS
    MaxTasks = 3
    SWITCH_TICK = 2
    MaxDepth = 4
    Dangers = {}
SPECIFICATION FramesSpec
INVARIANTS
    FreedStackUnused
PROPERTIES
    ResumesOwn
    EntersOnFreeStack
