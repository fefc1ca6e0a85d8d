SPECIFICATION Spec
CONSTANTS
    Sessions = {s1, s2}
    MaxRecords = 4
    MaxTime = 4
INVARIANTS
    TypeOK
    
    LossIsDetected
PROPERTY BreakIsPermanent
CHECK_DEADLOCK FALSE
