CONSTANTS
    w1 = w1
    w2 = w2
    n1 = n1
    n2 = n2
    NoId = NoId
    NoSnapshot = NoSnapshot
    Workers <- TwoWorkers
    Surfaces <- MixedSurfaces
    Candidates <- OneCandidate
    Place <- MCPlace
    Rank <- MCRank
    Ids <- MCIds
    Targets <- MCTargets
    Suffixes <- MCSuffixes
    TermId <- MCTermId
    SnapshotIds <- MCSnapshotIds
    Initial <- MixedLexicons
    InboxLimit = 2
    MaxClock = 1
    MaxReviews = 2
SPECIFICATION Spec
CHECK_DEADLOCK FALSE
SYMMETRY WorkerSymmetry
INVARIANTS
    RecordTellsTheFile
    NoSurfaceBothWays
    SnapshotLoads
    TabShowsLastPublish
PROPERTIES
    LexiconKeepsTerms
