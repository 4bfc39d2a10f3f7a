CONSTANTS
    Names = {n1}
    BucketIds = {b1, b2}
    Keys = {k1}
    Versions = {v1, v2, v3}
    Requests = {r1, r2}
    Cleaners = {c1}
    Ops = {"put", "delete", "createBucket", "forceDeleteBucket"}
    Expiries = {"pending"}
    BatchSize = 1
    Backend = "postgres"
    Faults = {"crash", "io"}
    None = None
    Free = Free
SYMMETRY Symmetry
SPECIFICATION Spec
INVARIANTS
    RowHasBlob
    RowsInLiveBuckets
PROPERTIES
    CleanerSparesLive
