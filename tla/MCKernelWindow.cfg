CONSTANTS
    MaxTasks = 3
    SWITCH_TICK = 2
    Timings = {"queued"}
SPECIFICATION Spec
PROPERTIES
    Delivered
