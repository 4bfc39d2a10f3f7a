SPECIFICATION MCSpec
CHECK_DEADLOCK FALSE
CONSTANTS
    s1 = s1
    s2 = s2
    o1 = o1
    o2 = o2
    p1 = p1
    d1 = d1
    d2 = d2
    None = None
    Paths = {o1, o2, p1}
    PartPaths = {p1}
    DirOf <- MCDirOf
    MaxBodies = 2
    Chunks = 2
    MaxMillis = 2
    Streams = {s1, s2}
    Clients = {s1, s2}
    Ops = {"put", "form", "part", "assemble", "get", "delete", "deleteParts"}
    Backends = {"local", "nfs"}
    IoErrors = TRUE
    Drivers = {"sqlite", "postgres"}
    Schemas = {{}, {"objects", "uploads"}}
    MaxSignals = 2
INVARIANTS
    AckedIsIntact
    ReadsAreWhole
    NoTempLeft
    MigratedBeforeServing
PROPERTIES
    WholeBodyIsStored
    GracefulExitAnswers
    DrainingEnds
