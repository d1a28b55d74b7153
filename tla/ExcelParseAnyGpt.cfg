SPECIFICATION FairSpec
CONSTANTS
    w1 = w1
    w2 = w2
    Cells <- MCCells
    Blank = ""
    TextOf <- MCTextOf
    RangeOf <- MCRangeOf
    NoRange = NoRange
    RowText <- MCRowText
    MinCells = 2
    Window = 4
    SampleSize = 3
    KeyRows = 2
    KeyCells = 2
    Workers <- MCWorkersOne
    Book <- MCBookLong
    Unreadable <- MCThird
    AnalysisAnswers <- MCWildAnalysis
    VerdictAnswers <- MCYesOrNo
    GptMayFail = TRUE
    Miss = Miss
    NoTable = NoTable
    NoVerdict = NoVerdict
INVARIANTS HeaderAboveData PlainNamesKept AnalysisTransfers SheetsAccountedFor
PROPERTY EndsOrWaitsForGpt
CHECK_DEADLOCK FALSE
