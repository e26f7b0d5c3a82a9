CONSTANTS
    Clients = {"quit", "good"}
    NoClient = "nobody"
    NumFds = 2
    MaxEvents = 2
    NumRequests <- MCRequests
    Window <- MCWindow
    BufferRequests = 2
    ReplySize = 2
    SendSpace = 4
    BadClients = {}
    Quitters = {"quit"}
    HalfClosers = {}
    OneAtATime = FALSE
SPECIFICATION Spec
INVARIANT Survives
CHECK_DEADLOCK FALSE
