\* Two chats, two devices and two password changes, with a failing call.
CONSTANTS
    Companions = {bob, carol}
    Devices = {d1, d2}
    Passwords = {p0, p1, p2}
    FirstPassword = p0
    Changes = {r1, r2}
    MaxFaults = 1
    None = None
SPECIFICATION Spec
SYMMETRY Symmetry
INVARIANTS
    KeysUsePastPasswords
    KeysStayReadable
CHECK_DEADLOCK FALSE
