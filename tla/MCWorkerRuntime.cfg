SPECIFICATION Spec
CONSTANTS
    Workers = {w1, w2}
    Inputs = {in1}
    Outputs <- MCOutputs
    None = None
    FullProgress = 3
    MaxLease = 1
    MaxAttempts = 2
    MaxOperations = 1
    CandidateOps = {1}
    Payloads = {p1, p2}
    MaxHandlerCheckpoints = 1
    MaxCrashes = 0
INVARIANTS
    TypeOK
    ResumeIsAccepted
    SucceededMatchesCandidate
    AttemptsNearlyBounded
PROPERTIES
    ZombiesAreFenced
    ReviewedEvidenceIsFrozen
SYMMETRY WorkerSymmetry
