\* Two requests that may time out, on one socket or across a reconnection, and
\* a client whose sockets break, fail to open, or are closed in a logout.
CONSTANTS
    MaxRequests = 2
    Ops = {"delete_message", "get_chats"}
    PushTypes = {"message_deleted"}
    MaxConns = 2
    Capacity = 2
    MaxPushes = 0
    MaxFaults = 1
    MaxBreaks = 1
    MaxReconnectAttempts = 1
    None = None
SPECIFICATION Spec
INVARIANTS
    EarlierAnswers
    StatusIsCurrent
    ClosedIsRetried
    LogoutIsFinal
CHECK_DEADLOCK FALSE
