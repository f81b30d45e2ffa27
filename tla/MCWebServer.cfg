SPECIFICATION Spec
CONSTANTS
    c1 = c1
    c2 = c2
    r1 = r1
    r2 = r2
    NoOne = NoOne
    Cookies <- TwoCookies
    Requests <- TwoRequests
    SessionLimit = 1
    MaxHosts = 2
    MaxAnalyses = 2
INVARIANTS
    TypeOK
    OneMutator
    ActiveKept
    
PROPERTIES
    ComesFree
CHECK_DEADLOCK FALSE
