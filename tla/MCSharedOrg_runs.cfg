SPECIFICATION SharedFairSpec
CONSTANTS
  p1 = p1
  p2 = p2
  p3 = p3
  Run <- ThreeRuns
  Old = Old
  NoFile = NoFile
  Nobody = Nobody
  Garbled = Garbled
  Pages = 2
CHECK_DEADLOCK FALSE
INVARIANTS
  AloneUnlessRaced
  ClaimNamesItsRun
  SomeRunWorks
  OneCopyUnlessOvertaken
PROPERTIES
  StaleClaimGoes
  FinishedIsFinalUnlessOvertaken
