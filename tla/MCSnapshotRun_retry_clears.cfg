SPECIFICATION Spec
CONSTANTS
  r1 = r1
  r2 = r2
  issues = issues
  stargazers = stargazers
  Repo <- TwoRepos
  Before <- Issues
  After <- NoDataset
  Repositories = repositories
  Org = org
  NoResource = noresource
  AllowNamed = FALSE
  AllowRetry = TRUE
  MaxSnapshots = 1
  MaxStarts = 2
  MaxDeaths = 0
  None = None
CHECK_DEADLOCK FALSE
PROPERTY ClearedGapHasRecord
