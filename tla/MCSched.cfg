CONSTANTS
    MaxTasks = 4
    SWITCH_TICK = 3
SPECIFICATION SchedSpec
INVARIANTS
    BoundedBypass
    StackOutlivesTask
PROPERTIES
    NoStarvation
    DeadIsReaped
