CONSTANTS
    Clients = {"quit", "bad", "good"}
    NoClient = "nobody"
    NumFds = 2
    MaxEvents = 1
    NumRequests <- MCLiveRequests
    Window <- MCWindow
    BufferRequests = 2
    ReplySize = 1
    SendSpace = 2
    BadClients = {"bad"}
    Quitters = {"quit"}
    HalfClosers = {"good"}
    OneAtATime = TRUE
SPECIFICATION FairSpec
INVARIANT NoLostWakeup
PROPERTIES
    Accepted
    Answered
    Released
CHECK_DEADLOCK FALSE
