CONSTANTS
    w1 = w1
    w2 = w2
    r1 = r1
    x = x
    y = y
    Nothing = Nothing
    Writers <- TwoWriters
    Readers <- OneReader
    Texts <- TwoTexts
    MaxFiles = 3
SPECIFICATION Spec
CHECK_DEADLOCK FALSE
INVARIANTS
    ReadersSeeWholeFiles
    NoLitter
    WrittenIsSafe
PROPERTY
    ImplementsRegister
