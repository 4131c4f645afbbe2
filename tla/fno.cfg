SPECIFICATION FairSpec
CONSTANTS
    a1 = a1
    a2 = a2
    Symbols = {a1, a2}
    Candidates <- FirstDay
    Premiums = {7, 10}
    Structures <- LongAndCondor
    Cap = 14
    MaxPosition = 70
    ScaleOut = 30
    TrailBy = 20
    HardExit = 2
    Close = 3
    MaxActions = 1
    MaxDays = 2
    MaxRows = 2
    MaxFaults = 1
INVARIANTS
    TypeOK
    EnteredOnce
    BudgetRespected
    StatusExplainsPnl
    TrailingOnlyAtTarget
    HardExitSweeps
PROPERTIES
    PositionsSettle
CHECK_DEADLOCK FALSE
