SPECIFICATION FileSpec
CONSTANTS
    r1 = r1
    r2 = r2
    r3 = r3
    Record <- Records
    Splits <- WithBreaks
    MaxWrites = 3
    MaxKills = 2
INVARIANTS
    
    NothingInvented
CHECK_DEADLOCK FALSE
