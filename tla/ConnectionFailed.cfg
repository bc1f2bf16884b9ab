\* The program makes calls after one that failed; the server keeps to the
\* protocol.
SPECIFICATION Spec
CONSTANTS
    Kinds = {"plain"}
    MaxCalls = 3
    MaxReplies = 1
    MaxNoise = 0
    BufferSize = 3
    SocketSize = 1
    Noise = {}
    GiveUp = FALSE
    CallbackFails = FALSE
INVARIANT ReplyReachesItsCallback
CHECK_DEADLOCK FALSE
