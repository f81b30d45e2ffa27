SPECIFICATION Spec
CONSTANTS
    r1 = r1
    r2 = r2
    Runs <- TwoRuns
    MaxDials = 3
INVARIANTS
    TypeOK
    
PROPERTIES
    AtMostOnce
    Answered
CHECK_DEADLOCK FALSE
