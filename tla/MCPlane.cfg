CONSTANTS
    NoRole = NoRole
    NoMode = NoMode
    NoFile = NoFile
    Unreadable = Unreadable
    NoPack = NoPack
    NoName = NoName
    NoRequest = NoRequest
    NotServing = NotServing
    Nothing = Nothing
    BidiControls = {"rl"}
    Separators = {"zw"}
    Blank = " "
    Compatibility <- MCCompatibility
    LowerCase <- MCNoForms
    UpperCase <- MCNoForms
    WordChars = {"a", "b", "c", "d", "e", "w", "x"}
    AsciiUpper = {}
    AsciiLower = {"a", "b", "c", "d", "e", "w", "x"}
    Digits = {}
    Underscore = "_"
    Hyphen = "-"
    LineEnd = "nl"
    Controls = {"ctl"}
    Escapes <- MCEscapes
    Label = "#"
    Ellipsis = "."
    MaxRendered = 40
    MaxPrompt = 50
    SafetyRules <- MCSafetyRules
    NameKey <- MCNameKey
    MinAgreement = 5100
    MinConfidence = 6500
    Clients = {c1, c2}
    Surfaces = {"s1", "s2"}
    CandidateOf <- MCCandidateOf
    Packs <- MCPacks
    FirstItems <- MCFirstItems
    HandWritten <- MCHandWritten
    Terms = {"t1", "t2"}
    ResolvesTo <- MCResolvesTo
    LexiconEvidence <- MCLexiconEvidence
    Responses <- MCResponses
    Jobs <- MCJobs
SPECIFICATION Spec
SYMMETRY Symmetry
CHECK_DEADLOCK FALSE
INVARIANTS
    DecidersAndCommandsHaveLeave
    AnswersTellTheTruth
    UnsafeEvidenceIsHeldBack
    VerdictsAreEarned
