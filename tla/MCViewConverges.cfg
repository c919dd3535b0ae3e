\* Two users with several connections each, three concurrent requests, and
\* events that are lost: a statement that fails after its write, a crash.
CONSTANTS
    Users = {alice, bob}
    Requests = {r1, r2, r3}
    Contents = {x, y}
    MaxRetries = 1
    BatchLimit = 100
    OneSession = FALSE
    MaxKafkaErrors = 0
    MaxDbErrors = 1
    MaxCrashes = 1
    None = None
SPECIFICATION WSpec
SYMMETRY Symmetry
INVARIANTS
    ViewConverges
    ReadIsJustified
PROPERTIES
    NoResurrection
CHECK_DEADLOCK FALSE
