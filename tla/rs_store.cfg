CONSTANTS
    Versions = {v1}
    Uploads = {u1}
    MaxPart = 2
    Bodies = {b1, b2}
    Requests = {r1, r2}
    Cleaners = {m1}
    Ops = {"put", "delete", "dropBucket", "initiate", "part", "complete", "abort"}
    Expiries = {"pending"}
    BatchSize = 1
    Faults = {"stop", "fail"}
    None = None
SYMMETRY Symmetry
SPECIFICATION Spec
INVARIANTS
    ServableHasFile
    NothingWithoutBucket
    ObjectsAreWhole
    EtagOfPartsSentOnce
CHECK_DEADLOCK FALSE
