SPECIFICATION Spec
CONSTANTS
  teams = teams
  t1 = t1
  t2 = t2
  Organization = organization
  Teams = teams
  Team <- TwoTeams
  Unimplemented = {audit_log}
  Size <- Sizes
  TeamAt <- Order
  PageSize = 1
  MaxConsecutive = 2
  RateNum = 1
  RateDen = 2
  MinAttempts = 4
  MaxStarts = 4
  Done = Done
  None = None
CHECK_DEADLOCK FALSE
INVARIANTS
  
  
  TeamRecordsOnce
  StopsExactlyAtOutage
