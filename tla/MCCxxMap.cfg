CONSTANTS
    Keys = {"a", "b", "c"}
    NoNode = "null"
    Code <- MCCode
    InitialSlots = 4
    MaxLoadFactor = 8
    ResizingWork = 128
SPECIFICATION Spec
PROPERTY FirstLookUpFinds
CHECK_DEADLOCK FALSE
