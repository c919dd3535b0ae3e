\* Two members depart while one rotation is under way.
CONSTANTS
    Users = {alice, bob, carol}
    Creator = alice
    InitialMembers = {alice, bob, carol}
    Requests = {r1, r2}
    ClientVersions = {0}
    MaxDbErrors = 0
    MaxCrashes = 0
    None = None
SPECIFICATION Spec
SYMMETRY Symmetry
INVARIANTS
    EveryDepartureRotates
CHECK_DEADLOCK FALSE
