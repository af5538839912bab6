CONSTANTS
    a1 = a1
    a2 = a2
    s1 = s1
    s2 = s2
    accepted = accepted
    rejected = rejected
    Unreviewed = Unreviewed
    NoActor = NoActor
    Actors <- MCActors
    Surfaces <- MCSurfaces
    Decisions <- MCDecisions
    MaxClock = 1
    MaxOps = 3
SPECIFICATION FairSpec
CHECK_DEADLOCK FALSE
INVARIANTS
    ReplayInv
    RecordsMirrorEvents
    WriterInv
    LatestEventIsCurrent
    ClearsNameWhatTheyCleared
PROPERTIES
    ImplementsDecisionLog
    EveryCallReturns
