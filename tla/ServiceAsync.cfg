\* One connection, every kind of message, pipelined; the application replies
\* when it likes.
SPECIFICATION Spec
CONSTANTS
    c1 = c1
    c2 = c2
    NoConnection = NoConnection
    Connections <- One
    Kinds = {"plain", "more", "oneway", "badcall", "badjson", "endless"}
    MaxCalls = 2
    MaxReplies = 2
    BufferSize = 6
    SocketSize = 2
    Async = TRUE
    Lockstep = FALSE
    HalfClose = TRUE
INVARIANTS TypeOK BuffersBounded RefcountsCountOwners KeptCallsAttached BusyIsNotWatched
PROPERTY KeepsPromise
CHECK_DEADLOCK FALSE
