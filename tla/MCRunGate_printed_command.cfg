SPECIFICATION Spec
CONSTANTS
    None = None
    Automatic = Automatic
    Fresh = Fresh
    Registry <- AllDatasets
    DependsOn <- DependsOnMap
    DefaultTier <- DefaultTierNames
    Required <- RequiredMap
    OrgLevel <- OrgLevelDatasets
    Fetchable <- HasQuery
    Flaky <- Unreliable
    Repo <- Repos
    Archived <- OldOnes
    Fork <- Copies
    Ask <- Asks
    Installations <- States
    StaleAfter = 0
    MaxClock = 1
    MaxStarts = 2
    MaxEdits = 1
    MaxUpgrades = 1
CONSTRAINT MoreToSee
INVARIANT PrintedCommandResumes
CHECK_DEADLOCK FALSE
