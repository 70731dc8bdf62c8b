\* Two repositories, two process starts, torn writes, an item cap.
SPECIFICATION FairSpec
CONSTANTS
    a = a
    b = b
    Repo <- TwoRepos
    RepoOrder <- TwoInOrder
    ItemCount <- TwoCounts
    PageSize = 2
    BatchWidth = 2
    ItemCap = 3
    TornWrites = TRUE
    MaxAttempts = 2
    Done = Done
    None = None
INVARIANTS
    TypeOK
    CursorNeverAhead
    NothingDropped
    
    FirstAttemptReportsAll
PROPERTIES
    
    Implements
    AttemptsEnd
CHECK_DEADLOCK FALSE
