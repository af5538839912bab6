CONSTANTS
    t1 = t1
    t2 = t2
    x = x
    y = y
    broken = broken
    Absent = Absent
    Failed = Failed
    Threads <- TwoThreads
    Texts <- MCTexts
    Valid <- MCValid
    Wanted <- Kinds
    SizeOf <- MCSizeOf
    MaxSize = 1
    MaxTime = 1
    MaxVersions = 2
    MaxCalls = 3
SPECIFICATION TickingSpec
CHECK_DEADLOCK FALSE
SYMMETRY CacheSymmetry
INVARIANTS
    StoresBounded
    LoadsAreFresh
    HitsChangeNothing
