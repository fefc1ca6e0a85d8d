SPECIFICATION Spec
CONSTANTS
    Workers = {w1, w2}
    Clients = {c1, c2}
    Inputs = {in1, in2}
    Outputs = {out1}
    None = None
    FullProgress = 1
    MaxLease = 1
    MaxAttempts = 1
    MaxSequence = 0
    AttemptBound = 2
INVARIANT TypeOK
PROPERTIES
    CancelRequestSurvives
    OutputSurvives
    CreatedOnce
SYMMETRY ProcessSymmetry
CHECK_DEADLOCK FALSE
