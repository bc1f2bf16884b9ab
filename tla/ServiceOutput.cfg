\* The client pipelines, the application replies in its callback.
SPECIFICATION Spec
CONSTANTS
    c1 = c1
    c2 = c2
    NoConnection = NoConnection
    Connections <- One
    Kinds = {"plain"}
    MaxCalls = 2
    MaxReplies = 1
    BufferSize = 6
    SocketSize = 1
    Async = FALSE
    Lockstep = FALSE
    HalfClose = FALSE
INVARIANT OutputArmed
CHECK_DEADLOCK FALSE
