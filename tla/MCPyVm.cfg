CONSTANTS
    Files <- TheFiles
    MaxDepth = 4
    Pointer = Pointer
    Wild = Wild
SPECIFICATION Spec
INVARIANTS
    LoadedAsWritten
    RunsAsWritten
    CutIsSeen
    FreesAll
CHECK_DEADLOCK FALSE
