\* The goroutines of one connection: two requests, two pushes, full channels,
\* and a socket that breaks.
CONSTANTS
    MaxRequests = 2
    Ops = {"delete_message"}
    PushTypes = {"message_deleted"}
    MaxConns = 1
    Capacity = 1
    MaxPushes = 2
    MaxFaults = 0
    MaxBreaks = 1
    MaxReconnectAttempts = 0
    None = None
SPECIFICATION FairSpec
INVARIANTS
    FramesAreKept
PROPERTIES
    RequestsAreAnswered
    ClosedSessionsEnd
CHECK_DEADLOCK FALSE
