CONSTANTS
    Absent = Absent
    None = None
    CaseFold <- MCCaseFold
    Bases <- MCBases
    Values <- MCValues
    Elements <- MCElements
    Entries <- MCEntries
    Additions <- MCAdditions
    MaxEdits = 3
SPECIFICATION Spec
CHECK_DEADLOCK FALSE
INVARIANTS
    TypeOK
    KeepsBothEdits
    OnlyCompetingEditsConflict
    RetryChangesNothing
    ReportTellsTheMerge
