SPECIFICATION FairSpec
CONSTANTS
    Files <- MCFiles
    Suite <- MCSuite
    Xls <- MCXls
    MaxFlawed = 2
    MaxFaults = 3
INVARIANTS TypeOK LossesAreFaults PaidForOnce
PROPERTY ServesOrIsStuck
CHECK_DEADLOCK FALSE
