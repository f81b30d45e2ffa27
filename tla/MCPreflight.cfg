SPECIFICATION Spec
CONSTANTS
    f1 = f1
    f2 = f2
    f3 = f3
    x = x
    b = b
    here = here
    elsewhere = elsewhere
    NoFile = NoFile
    Files <- AllFiles
    Backings <- TheBackings
    Dirs <- AllDirs
    MaxDepth = 1
    MaxInt = 999
    GiB = 10
    Count = 2
    Inputs <- SomeInputs
INVARIANTS
    IsolationSound
    
    OwnWritesNeverBlock
PROPERTIES
    Judged
CHECK_DEADLOCK FALSE
