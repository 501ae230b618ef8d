CONSTANTS
    Texts <- TheTexts
    Keys <- TheKeys
    SIZE = 256
    MaxOverrun = 3
SPECIFICATION Spec
INVARIANTS
    LexesByTheBook
    ParsesByTheBook
    ReadsInside
    ErrorFreesLists
PROPERTIES
    ParseReturns
