CONSTANTS
    Absent = Absent
    None = None
    NoDecision = NoDecision
    CaseFold <- MCCaseFold
    BidiControls = {"rlm"}
    Separators = {"zw"}
    Blank = " "
    Compatibility <- MCCompatibility
    LowerCase <- MCLowerCase
    UpperCase <- MCUpperCase
    WordChars = {"a", "b", "A", "B", "_"}
    AsciiUpper = {"A", "B"}
    AsciiLower = {"a", "b"}
    Digits = {}
    Underscore = "_"
    Hyphen = "-"
    BroadSurfaceWords = {}
    MinFragmentLength = 3
    Lexicons <- MCLexicons
    Texts <- MCTexts
    Scopings = {{}, {"s1"}}
    Tools = {"u1", "u2"}
SPECIFICATION Spec
INVARIANT SpansAreOfTheNormalizedText
