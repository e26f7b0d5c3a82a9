CONSTANTS
    WordSize = 2
    Base = 4
    MaxMessageSize = 8
    MaxNumArgs = 3
    Commands <- MCCommands
    Messages <- MCMessages
    WellFormed <- MCWellFormed
    ReplySizes = {1, 5}
    SendSpace = 4
SPECIFICATION FairSpec
INVARIANTS
    ParseExact
    Truthful
PROPERTY Ends
CHECK_DEADLOCK FALSE
