CONSTANTS
    w1 = w1
    w2 = w2
    n1 = n1
    n2 = n2
    NoId = NoId
    NoSnapshot = NoSnapshot
    Workers <- OneWorker
    Surfaces <- StarterSurfaces
    Candidates <- MCCandidates
    Place <- MCPlace
    Rank <- MCRank
    Ids <- MCIds
    Targets <- MCTargets
    Suffixes <- MCSuffixes
    TermId <- MCTermId
    SnapshotIds <- MCSnapshotIds
    Initial <- ReplacedByStarter
    InboxLimit = 2
    MaxClock = 0
    MaxReviews = 1
SPECIFICATION Spec
CHECK_DEADLOCK FALSE
INVARIANTS
    SnapshotLoads
