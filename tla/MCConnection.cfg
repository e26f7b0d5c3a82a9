CONSTANTS
    HeaderSize = 2
    MaxMessageSize = 4
    NumFrames = 4
    Length <- MCLength
    FrameStart <- MCFrameStart
    MayParse <- MCMayParse
    MayFail <- MCMayFail
    Output <- MCOutput
    ErrorSize = 1
    SendSpace = 3
SPECIFICATION Spec
INVARIANTS
    TypeOK
    Framed
    ReadRoom
    WriteBounds
    ExecutedInOrder
    ReplyStream
    NothingOwed
PROPERTY ImplementsSession
CHECK_DEADLOCK FALSE
