SPECIFICATION LiveSpec
CONSTANTS
    Faults <- NoFaults
    MaxOutside = 0
    BrowserMayClose = FALSE
    Live = TRUE
    NDisks = 1
INVARIANTS
    RolledBackIsMerged
CHECK_DEADLOCK FALSE
