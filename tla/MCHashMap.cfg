CONSTANTS
    Keys = {"a", "b", "c", "d", "e"}
    NoNode = "null"
    Code <- MCCode
    InitialSlots = 2
    MaxLoadFactor = 1
    ResizingWork = 1
SPECIFICATION FairSpec
INVARIANTS
    TypeOK
    Placed
    ScanInBounds
    Counted
    ResizeInTime
    KeysListed
PROPERTIES
    ImplementsDictionary
    CallsReturn
CHECK_DEADLOCK FALSE
