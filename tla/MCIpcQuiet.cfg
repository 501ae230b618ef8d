CONSTANTS
    Sender = {s1, s2}
    Count = 2
    Races = FALSE
    Exits = TRUE
CHECK_DEADLOCK FALSE
SPECIFICATION Spec
INVARIANTS
    NoWildWrite
PROPERTIES
    Refines
    AllReceived
