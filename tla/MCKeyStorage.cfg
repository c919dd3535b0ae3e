\* Two users on one browser, two passwords, and two tasks at once.
CONSTANTS
    Accounts = {alice, bob}
    Tasks = {t1, t2}
    Passwords = {p1, p2}
    Nothing = Nothing
SPECIFICATION StorageSpec
SYMMETRY Symmetry
CONSTRAINT UntilLapse
INVARIANTS
    
    StoredIsRestorable
