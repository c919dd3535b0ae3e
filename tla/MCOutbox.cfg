\* Two events under every fault: broker errors, a failing statement, a crash.
\* One user is enough here: neither the handlers nor the worker look at who is
\* in an event when they publish, save or retry it.
CONSTANTS
    Users = {alice}
    Requests = {r1, r2}
    Contents = {x}
    MaxRetries = 2
    BatchLimit = 1
    OneSession = FALSE
    MaxKafkaErrors = 4
    MaxDbErrors = 1
    MaxCrashes = 1
    None = None
SPECIFICATION FairSpec
INVARIANTS
    LogFollowsCommit
    DoneIsAccounted
    OutboxOutcome
    DuplicatesNeedFaults
PROPERTIES
    ImplementsRelay
    RelaySettles
    EventuallyPublished
CHECK_DEADLOCK FALSE
