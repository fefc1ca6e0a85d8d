SPECIFICATION FairSpec
CONSTANTS
    Workers = {w1, w2}
    Inputs = {in1}
    Outputs <- MCOutputs
    None = None
    FullProgress = 3
    MaxLease = 1
    MaxAttempts = 2
    MaxOperations = 1
    CandidateOps = {}
    Payloads = {p1}
    MaxHandlerCheckpoints = 0
    MaxCrashes = 1
PROPERTY LeasesAreResolved
