\* The application replies after its callback.
SPECIFICATION Spec
CONSTANTS
    c1 = c1
    c2 = c2
    NoConnection = NoConnection
    Connections <- One
    Kinds = {"plain"}
    MaxCalls = 2
    MaxReplies = 1
    BufferSize = 6
    SocketSize = 2
    Async = TRUE
    Lockstep = TRUE
    HalfClose = FALSE
INVARIANT IdleListens
CHECK_DEADLOCK FALSE
