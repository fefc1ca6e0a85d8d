SPECIFICATION Spec
CONSTANTS
    Processes = {p1, p2}
    Assets = {a1, a2}
    Backends = {"local"}
    Parts = {1}
    MaxEncryptions = 2
    MaxCrashes = 0
INVARIANT VerifiedStaysReadable
CHECK_DEADLOCK FALSE
