CONSTANTS
    Names = {n1}
    BucketIds = {b1, b2}
    Keys = {k1}
    Versions = {v1, v2, v3}
    Requests = {r1, r2}
    Cleaners = {c1}
    Ops = {"put", "get", "delete", "deleteVersion", "createBucket", "deleteBucket"}
    Expiries = {"pending"}
    BatchSize = 1
    Backend = "sqlite"
    Faults = {"crash"}
    None = None
    Free = Free
SYMMETRY Symmetry
SPECIFICATION Spec
INVARIANTS
    TypeOK
    LatestIsNewest
    NoStaleRead
PROPERTIES
    DeletedRowsReported
    ImplementsVersionIndex
