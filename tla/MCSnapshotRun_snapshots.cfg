\* Two snapshots of two repositories and two datasets, three starts of any
\* kind, one kill.
SPECIFICATION Spec
CONSTANTS
  r1 = r1
  r2 = r2
  issues = issues
  stargazers = stargazers
  Repo <- TwoRepos
  Before <- Issues
  After <- NoDataset
  Repositories = repositories
  Org = org
  NoResource = noresource
  AllowNamed = TRUE
  AllowRetry = TRUE
  MaxSnapshots = 2
  MaxStarts = 3
  MaxDeaths = 1
  None = None
CHECK_DEADLOCK FALSE
INVARIANTS
  
  CompleteIsWhole
  CountsMatchUnlessReopened
  IndexNamesLatest
PROPERTIES
  FetchedIsKept
  
  RetryTouchesOnlyGaps
