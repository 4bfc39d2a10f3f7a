CONSTANTS
    Uploads = {u1}
    MaxParts = 1
    MaxList = 1
    Contents = {c1, c2}
    Small = {}
    Versions = {v1}
    Requests = {r1, r2}
    Cleaners = {m1}
    Backend = "postgres"
    Faults = {"io","drop"}
    None = None
    Free = Free
SPECIFICATION FairSpec
PROPERTIES
    UploadsEventuallyRemoved
