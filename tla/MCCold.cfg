SPECIFICATION ColdSpec
CONSTANTS
    Faults <- AllFaults
    MaxOutside = 2
    BrowserMayClose = FALSE
    Live = FALSE
    NDisks = 2
INVARIANTS
    ClonesAccounted
    FaithfulTarget
    StopRegistersNothing
    ColdResult
PROPERTIES
    Relocates
    JobEnds
CHECK_DEADLOCK FALSE
