CONSTANTS
    Keys = {"a", "long"}
    Values = {"", "v", "longer"}
    Names = {1, 2, 3}
    KeySize <- MCKeySize
    ValueSize <- MCValueSize
    NameSize <- MCNameSize
    NumberSize = 1
    ErrorSize = 16
    Scores <- MCScores
    Offsets <- MCOffsets
    Limits = {0, 3, 6}
    NotANumber = 99
    HeaderSize = 4
    MaxMessageSize = 44
SPECIFICATION Spec
INVARIANTS
    TypeOK
    ReplyUnderstood
    Retrievable
PROPERTIES
    ReplyTells
