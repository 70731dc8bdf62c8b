\* A gap of an attempt that stopped is not in the manifest of the next one.
SPECIFICATION Spec
CONSTANTS
    a = a
    b = b
    Repo <- OneRepo
    RepoOrder <- OneInOrder
    ItemCount <- OneCount
    PageSize = 2
    BatchWidth = 1
    ItemCap = 9
    TornWrites = FALSE
    MaxAttempts = 2
    Done = Done
    None = None
INVARIANTS
    ManifestReportsEveryGap
CHECK_DEADLOCK FALSE
