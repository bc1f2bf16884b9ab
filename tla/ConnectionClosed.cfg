\* The server keeps to the protocol, and closes the connection at any time.
SPECIFICATION Spec
CONSTANTS
    Kinds = {"plain"}
    MaxCalls = 1
    MaxReplies = 1
    MaxNoise = 0
    BufferSize = 4
    SocketSize = 2
    Noise = {}
    GiveUp = TRUE
    CallbackFails = FALSE
INVARIANT ClosedIsReported
CHECK_DEADLOCK FALSE
