SPECIFICATION Spec
CONSTANTS
    Faults <- AllFaults
    MaxOutside = 1
    BrowserMayClose = TRUE
INVARIANTS
    TypeOK
    Exclusive
    HonestView
    CompletedIsSwitched
    RolledBackIsRestored
    RollbackOffered
    SwitchInv
CHECK_DEADLOCK FALSE
