SPECIFICATION ColdSpec
CONSTANTS
    Faults <- NoFaults
    MaxOutside = 0
    BrowserMayClose = FALSE
    Live = FALSE
    NDisks = 1
PROPERTIES
    StopSparesThePower
CHECK_DEADLOCK FALSE
