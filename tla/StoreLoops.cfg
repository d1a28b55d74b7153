SPECIFICATION Spec
CONSTANTS
    Hashes <- MCHashes
    Ids <- MCIds
    Verdicts = {"yes"}
    MaxEntries = 3
    MaxAge = 2
    Now = 3
INVARIANTS TypeOK KeepsMostRecent NewSurvives
CHECK_DEADLOCK FALSE
