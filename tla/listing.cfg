CONSTANTS
    Folder <- MCFolder
    MaxKeys = 2
    None = None
    NumKeys = 5
SPECIFICATION FairSpec
INVARIANTS
    TypeOK
    ListedOnce
    SteadyKeysListed
PROPERTIES
    ListingEnds
