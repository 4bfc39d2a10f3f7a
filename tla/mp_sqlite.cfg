CONSTANTS
    Uploads = {u1}
    MaxParts = 2
    MaxList = 2
    Contents = {c1, c2, c3}
    Small = {c3}
    Versions = {v1}
    Requests = {r1, r2}
    Cleaners = {m1}
    Backend = "sqlite"
    Faults = {"crash"}
    None = None
    Free = Free
SYMMETRY Symmetry
SPECIFICATION Spec
INVARIANTS
    ObjectsAreWhole
    AckedPartRecorded
    RecordedPartHasFile
