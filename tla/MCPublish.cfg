CONSTANTS
    w1 = w1
    w2 = w2
    n1 = n1
    n2 = n2
    NoId = NoId
    NoSnapshot = NoSnapshot
    Workers <- OneWorker
    Surfaces <- MCSurfaces
    Candidates <- MCCandidates
    Place <- MCPlace
    Rank <- MCRank
    Ids <- MCIds
    Targets <- MCTargets
    Suffixes <- MCSuffixes
    TermId <- MCTermId
    SnapshotIds <- MCSnapshotIds
    Initial <- UserLexicons
    InboxLimit = 2
    MaxClock = 1
    MaxReviews = 3
SPECIFICATION Spec
CHECK_DEADLOCK FALSE
SYMMETRY IdSymmetry
INVARIANTS
    LedgerTruth
