CONSTANTS
    Names = {n1}
    BucketIds = {b1, b2}
    Objects = {o1}
    Users = {u1, u2}
    Requests = {r1, r2}
    Drivers = {"sqlite", "postgres"}
    None = None
    Free = Free
SYMMETRY Symmetry
SPECIFICATION Spec
INVARIANTS
    StrangersNeedOpenBucket
    SettingsAsAsked
PROPERTIES
    OnlyOwnersChange
    PlainDeletionSparesObjects
    AnswersFit
