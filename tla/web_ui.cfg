SPECIFICATION FairSpec
CONSTANTS
    root = root
    dir = dir
    Prefixes = {root, dir}
    Root = root
    Names = {1, 2}
    SizeOf <- MCSizeOf
    Rank <- MCRank
    Existing <- MCExisting
    PageSize = 2
    PartSize = 6
    Threshold = 10
    Batches = {b1, b2}
    Deletions = {d1, d2}
    MaxLists = 3
    MaxClicks = 2
    MaxFiles = 2
    Namings = {"snake", "camel"}
    None = None
    BucketIds = {k1, k2}
    Owned = {k1}
    Removals = {r1, r2}
    Unset = Unset
CHECK_DEADLOCK FALSE
INVARIANTS
    ShownIsStored
    StoredIsWholeFile
    TicksAreStored
    ListIsOwned
PROPERTIES
    SpinningStops
