\* Two companions who send two messages in all, two loads at once.
CONSTANTS
    Companions = {bob, carol}
    MaxMessages = 2
    MaxLoads = 2
    None = None
SPECIFICATION Spec
SYMMETRY Symmetry
INVARIANTS
    ChatsAreDistinct
    UnreadIsBacked
    ListIsComplete
