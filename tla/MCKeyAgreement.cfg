\* Two messages and two password changes of each user.
CONSTANTS
    Alice = alice
    Bob = bob
    MaxVersion = 1
    MaxMessages = 2
    None = None
    NoKey = NoKey
SPECIFICATION Spec
SYMMETRY Symmetry
INVARIANTS
    MessagesStayReadable
CHECK_DEADLOCK FALSE
