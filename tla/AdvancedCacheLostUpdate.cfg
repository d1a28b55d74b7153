SPECIFICATION Spec
CONSTANTS
    c1 = c1
    c2 = c2
    Clients <- MCClientsTwo
    Ids <- MCIdsPair
    Verdicts = {"yes"}
    Hashes <- MCHashes
    Keys <- MCKeys
    PrimaryKey <- MCPrimaryKey
    MaxEntries = 2
    MaxAge = 1
    TTL = 2
    GetMayFail = FALSE
    Idle = Idle
    NoKey = NoKey
    Miss = Miss
    Nothing = Nothing
    MaxClock = 3
    MaxStores = 3
PROPERTY NoCollateralLoss
CHECK_DEADLOCK FALSE
