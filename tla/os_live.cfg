CONSTANTS
    Names = {n1}
    BucketIds = {b1}
    Keys = {k1}
    Versions = {v1, v2}
    Requests = {r1, r2}
    Cleaners = {c1, c2}
    Ops = {"put", "delete", "createBucket"}
    Expiries = {"pending"}
    BatchSize = 1
    Backend = "sqlite"
    Faults = {}
    None = None
    Free = Free
SPECIFICATION FairSpec
INVARIANTS
    NoOrphanBlob
PROPERTIES
    ExpiredEventuallyRemoved
