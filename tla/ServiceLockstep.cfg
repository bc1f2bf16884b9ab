\* Two clients that wait for each reply; the application replies in its
\* callback.
SPECIFICATION FairSpec
CONSTANTS
    c1 = c1
    c2 = c2
    NoConnection = NoConnection
    Connections <- Two
    Kinds = {"plain"}
    MaxCalls = 2
    MaxReplies = 1
    BufferSize = 5
    SocketSize = 1
    Async = FALSE
    Lockstep = TRUE
    HalfClose = FALSE
INVARIANTS IdleListens OutputArmed
PROPERTIES EveryCallAnswered
CHECK_DEADLOCK FALSE
