\* A connection of a user and the one it reconnects with, which may overlap.
CONSTANTS
    Users = {alice}
    Connections = {c1, c2}
    MaxTurns = 2
    MaxRedisErrors = 2
    MaxCrashes = 1
    None = None
SPECIFICATION FairSpec
INVARIANTS
    StreamsAreLive
    StreamsAreExtended
    PushesAreInOrder
    SkipsNeedCrashes
    AloneIsServed
PROPERTIES
    PresenceDecays
CHECK_DEADLOCK FALSE
