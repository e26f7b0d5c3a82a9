CONSTANTS
    Names = {1, 2, 3, 4, 5}
    Nodes = {1, 2, 3, 4, 5}
    Members <- WideMembers
    Offsets <- WideOffsets
    Limits = {0, 1, 2, 5, 8}
SPECIFICATION Spec
INVARIANTS
    OffsetCounts
    QueryLists
PROPERTIES
    ImplementsRanking
