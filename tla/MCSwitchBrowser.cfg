SPECIFICATION Spec
CONSTANTS
    Faults <- NoFaults
    MaxOutside = 0
    BrowserMayClose = TRUE
INVARIANTS
    NeverAbandoned
CHECK_DEADLOCK FALSE
