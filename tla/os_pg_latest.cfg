CONSTANTS
    Names = {n1}
    BucketIds = {b1, b2}
    Keys = {k1}
    Versions = {v1, v2, v3}
    Requests = {r1, r2}
    Cleaners = {}
    Ops = {"put", "get", "createBucket"}
    Expiries = {"never"}
    BatchSize = 1
    Backend = "postgres"
    Faults = {}
    None = None
    Free = Free
SYMMETRY Symmetry
SPECIFICATION Spec
INVARIANTS
    LatestIsNewest
