SPECIFICATION Spec
CONSTANTS
    Processes = {p1}
    Assets = {a1}
    Project = Project
    Actors = {u1, u2}
    Backups = {b1, b2}
    Requests = {d1}
    None = None
    MaxDays = 0
    MaxRules = 0
    MaxRecords = 0
    MaxCrashes = 0
PROPERTY BackupAfterErasureIsRestorable
CHECK_DEADLOCK FALSE
