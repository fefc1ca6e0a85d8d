SPECIFICATION Spec
CONSTANTS
    Processes = {p1, p2}
    Assets = {a1, a2}
    Backends = {"local", "s3"}
    Parts = {1}
    MaxEncryptions = 3
    MaxCrashes = 1
INVARIANTS
    TypeOK
    ReferencedIsReadable
    S3WritersAreSafe
    
    ErasureIsComplete
    UploadIsKept
SYMMETRY CallSymmetry
CHECK_DEADLOCK FALSE
