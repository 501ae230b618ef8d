CONSTANTS
    Major = 1
    Minor = 1
    PAD = 1
    PageSize = 5
    PageCount = 2
    Sizes = {1, 8}
    Ids = {a1, a2, a3}
    NULL = NULL
SYMMETRY Symmetry
SPECIFICATION Spec
INVARIANTS
    MinorsInOrder
    ListsAllPointers
    UsageExact
    BestBetListed
PROPERTIES
    Refines
