SPECIFICATION LiveSpec
CONSTANTS
    Faults <- LostReplies
    MaxOutside = 0
    BrowserMayClose = FALSE
    Live = TRUE
    NDisks = 1
INVARIANTS
    HonestView
CHECK_DEADLOCK FALSE
