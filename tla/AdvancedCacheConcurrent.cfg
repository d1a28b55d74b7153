SPECIFICATION Spec
CONSTANTS
    c1 = c1
    c2 = c2
    Clients <- MCClientsTwo
    Ids <- MCIds
    Verdicts = {"yes"}
    Hashes <- MCHashes
    Keys <- MCKeys
    PrimaryKey <- MCPrimaryKey
    MaxEntries = 2
    MaxAge = 1
    TTL = 2
    GetMayFail = TRUE
    Idle = Idle
    NoKey = NoKey
    Miss = Miss
    Nothing = Nothing
    MaxClock = 3
    MaxStores = 3
SYMMETRY MCSymmetry
INVARIANTS TypeOK UniqueIdentity BoundedLists AgeBound
PROPERTY KeepsPromise
CHECK_DEADLOCK FALSE
