\* Every command of the tool; a bridge with two messages of its client, and
\* a service that breaks the protocol once.
SPECIFICATION FairSpec
CONSTANTS
    Commands = {"call", "help", "resolve", "bridge", "direct"}
    CallKinds = {"more", "oneway", "both"}
    Garbage = {"badjson"}
    Methods = {"near", "far", "bad", "incomplete"}
    Noise = {"badjson", "continues"}
    MaxCalls = 2
    MaxReplies = 1
    MaxFaults = 1
    PipeSize = 1
    CopySize = 2
    SocketSize = 1
    ShortWrites = FALSE
INVARIANTS TypeOK ExitTellsOutcome CopyKeepsAll HangUpIsDrained
PROPERTIES KeepsPromise SignalEndsIt GoneClientEndsIt EveryMessageCopied EveryCallAnswered
CHECK_DEADLOCK FALSE
