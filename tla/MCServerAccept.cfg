CONSTANTS
    Clients = {"good", "other"}
    NoClient = "nobody"
    NumFds = 2
    MaxEvents = 2
    NumRequests <- MCRequests
    Window <- MCWindow
    BufferRequests = 2
    ReplySize = 2
    SendSpace = 4
    BadClients = {}
    Quitters = {}
    HalfClosers = {}
    OneAtATime = FALSE
SPECIFICATION FairSpec
PROPERTY Accepted
CHECK_DEADLOCK FALSE
