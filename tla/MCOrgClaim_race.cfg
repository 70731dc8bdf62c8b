SPECIFICATION Spec
CONSTANTS
  p1 = p1
  p2 = p2
  Run <- TwoRuns
  Old = Old
  NoFile = NoFile
  Nobody = Nobody
  Garbled = Garbled
CHECK_DEADLOCK FALSE
INVARIANT OneRunAtWork
