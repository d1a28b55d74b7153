SPECIFICATION Spec
CONSTANTS
    w1 = w1
    w2 = w2
    Cells <- MCCells
    Blank = ""
    TextOf <- MCTextOf
    RangeOf <- MCRangeOf
    NoRange = NoRange
    RowText <- MCRowText
    MinCells = 2
    Window = 4
    SampleSize = 3
    KeyRows = 2
    KeyCells = 2
    Workers <- MCWorkersOne
    Book <- MCBookBanner
    Unreadable <- MCNoneOfOne
    AnalysisAnswers <- MCOneAnalysis
    VerdictAnswers <- MCOneVerdict
    GptMayFail = FALSE
    Miss = Miss
    NoTable = NoTable
    NoVerdict = NoVerdict
INVARIANT Transparent
CHECK_DEADLOCK FALSE
