SPECIFICATION LiveSpec
CONSTANTS
    Faults <- AllFaults
    MaxOutside = 2
    BrowserMayClose = FALSE
    Live = TRUE
    NDisks = 2
INVARIANTS
    LiveTypeOK
    ClonesAccounted
    BaseStaysFrozen
    FaithfulLiveTarget
    
    RestoredIsRestored
    MoveIsExclusive
    LiveResult
PROPERTIES
    ClonesAsPromised
    LiveRelocates
CHECK_DEADLOCK FALSE
