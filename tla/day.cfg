SPECIFICATION FairSpec
CONSTANTS
    Pushers <- MCPushers
    Limit = 1
    AbandonAfter = 0
    Horizon = 3
    Days <- MCDays
    Grace = 1
    InitialCash = 0
    Budget = 1
    MaxIntraday = 1
    MaxTrades = 2
    MaxLong = 1
    MaxBusy = 2
    MaxLives = 2
    MaxFaults = 1
INVARIANTS
    TypeOK
    OncePerStartup
    CriticalBegun
    CompletedMeansEnded
    IntradayCapped
    BooksAgree
PROPERTIES
    NotesSettle
CHECK_DEADLOCK FALSE
