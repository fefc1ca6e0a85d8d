SPECIFICATION Spec
CONSTANTS
    Processes = {p1, p2}
    Assets = {a1, a2}
    Project = Project
    Actors = {u1, u2}
    Backups = {b1}
    Requests = {d1}
    None = None
    MaxDays = 1
    MaxRules = 1
    MaxRecords = 1
    MaxCrashes = 1
INVARIANTS
    TypeOK
    DeletionIsGoverned
    BackupIsRestorable
    DeletionIsEvidenced
 
SYMMETRY CallSymmetry
CHECK_DEADLOCK FALSE
