CONSTANTS
    Clients = {"good", "other"}
    NoClient = "nobody"
    NumFds = 2
    MaxEvents = 2
    NumRequests <- MCLiveRequests
    Window <- MCWindow
    BufferRequests = 2
    ReplySize = 2
    SendSpace = 3
    BadClients = {}
    Quitters = {}
    HalfClosers = {}
    OneAtATime = TRUE
SPECIFICATION FairSpec
PROPERTY Answered
CHECK_DEADLOCK FALSE
