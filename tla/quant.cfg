SPECIFICATION FairSpec
CONSTANTS
    s1 = s1
    s2 = s2
    Symbols = {s1, s2}
    Universes <- OneSymbol
    Quotes = {1, 3}
    Stub = 1
    HardExit = 4
    FirstEntry = 1
    MaxConcurrent = 2
    MaxLots = 1
    LockinGain = 2
    KillLoss = 2
    CoolLosses = 2
    CoolTicks = 2
    MinPulls = 1
    ResumeAt = {2}
    MaxDays = 2
    MaxTrades = 3
    MaxFaults = 1
INVARIANTS
    TypeOK
    MemoryMirrorsLedger
    LearnedFromLedger
    HeldStaysManaged
    DayEndsFlat
    FinalNavExplained
PROPERTIES
    DrawdownStopsEntries
    LedgerImplemented
    DaySettles
CHECK_DEADLOCK FALSE
