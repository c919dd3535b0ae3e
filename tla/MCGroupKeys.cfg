\* CreateGroup, departures and additions, statement by statement, with a
\* failing statement and a crash.
CONSTANTS
    Users = {alice, bob}
    Creator = alice
    InitialMembers = {}
    Requests = {r1, r2, r3}
    ClientVersions = {1}
    MaxDbErrors = 1
    MaxCrashes = 1
    None = None
SPECIFICATION FairSpec
INVARIANTS
    RotationIsExclusive
    DepartureIsRemembered
    VersionCountsDepartures
    SeedsAreNotAhead
PROPERTIES
    LockIsReleased
CHECK_DEADLOCK FALSE
