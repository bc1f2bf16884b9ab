\* A client closes its connection at any time.
SPECIFICATION FairSpec
CONSTANTS
    c1 = c1
    c2 = c2
    NoConnection = NoConnection
    Connections <- One
    Kinds = {"plain"}
    MaxCalls = 2
    MaxReplies = 1
    BufferSize = 6
    SocketSize = 2
    Async = FALSE
    Lockstep = TRUE
    HalfClose = FALSE
PROPERTY GoneIsFreed
CHECK_DEADLOCK FALSE
