SPECIFICATION Spec
CONSTANTS
    Keys = {k1}
    Workers = {w1, w2}
    Inputs = {in1}
    Outputs = {out1, out2}
    None = None
    FullProgress = 2
    MaxLease = 2
    MaxAttempts = 2
    MaxSequence = 2
    AttemptBound = 3
INVARIANTS
    TypeOK
    LeaseMatchesState
    
    RequeuedOnlyIfSafe
    OutboxTellsOutcome
PROPERTIES
    CancelFreezesEvidence
    QuarantineHolds
    ImplementsDurableJob
SYMMETRY WorkerSymmetry
CHECK_DEADLOCK FALSE
