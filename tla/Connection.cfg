\* Every kind of call; the server may break the protocol once.
SPECIFICATION FairSpec
CONSTANTS
    Kinds = {"plain", "more", "oneway"}
    MaxCalls = 2
    MaxReplies = 3
    MaxNoise = 1
    BufferSize = 4
    SocketSize = 3
    Noise = {"badjson", "badreply", "endless", "continues", "final"}
    GiveUp = TRUE
    CallbackFails = TRUE
INVARIANTS TypeOK WaitsAreArmed QueueIsUnanswered ReplyReachesItsCallback
PROPERTIES KeepsPromise EveryCallAnswered
CHECK_DEADLOCK FALSE
