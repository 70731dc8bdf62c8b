SPECIFICATION FairSpec
CONSTANTS
  c1 = c1
  c2 = c2
  Caller <- TwoCallers
  Requests = 2
  Limit = 4
  Window = 2
  ReserveFloor = 3
  MaxConcurrency = 2
  MaxRetries = 1
  Backoff <- Delays
  RetryAfter = {0, 2}
  Reduction = 1
  Ceiling = 4
  None = None
CHECK_DEADLOCK FALSE
INVARIANTS
  SlotsConserved
  WaitsWithinCeiling
  
PROPERTY EverySendEnds
