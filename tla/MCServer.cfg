CONSTANTS
    Clients = {"quit", "bad", "half"}
    NoClient = "nobody"
    NumFds = 2
    MaxEvents = 2
    NumRequests <- MCSafetyRequests
    Window <- MCSafetyWindow
    BufferRequests = 2
    ReplySize = 2
    SendSpace = 3
    BadClients = {"bad"}
    Quitters = {"quit", "half"}
    HalfClosers = {"half"}
    OneAtATime = FALSE
SPECIFICATION Spec
INVARIANTS
    TypeOK
    EventsLive
    ObjectPerSocket
    Kept
    
CHECK_DEADLOCK FALSE
