\* Two messages, pages of one, two pages and a request that fails.
CONSTANTS
    MaxMessages = 2
    MaxPages = 2
    MaxRequests = 3
    MaxFaults = 1
    MaxWire = 2
    Limit = 1
    Temp = Temp
    None = None
SPECIFICATION Spec
INVARIANTS
    ReadMarksAreTrue
    
    ViewIsCurrent
    HistoryEndsTrue
CHECK_DEADLOCK FALSE
