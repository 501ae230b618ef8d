CONSTANTS
    Sender = {s1}
    Count = 1
    Races = TRUE
    Exits = FALSE
SPECIFICATION Spec
INVARIANTS
    Genuine
