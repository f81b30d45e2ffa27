SPECIFICATION Spec
CONSTANTS
    MayFail = TRUE
INVARIANTS
    ExitProven
PROPERTIES
    Implements
    StopIsReported
CHECK_DEADLOCK FALSE
