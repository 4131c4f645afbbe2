SPECIFICATION Spec
CONSTANTS
    s1 = s1
    s2 = s2
    Symbols = {s1, s2}
    Universes <- OneSymbol
    Quotes = {1, 3}
    Stub = 1
    HardExit = 3
    FirstEntry = 1
    MaxConcurrent = 1
    MaxLots = 2
    LockinGain = 2
    KillLoss = 2
    CoolLosses = 2
    CoolTicks = 2
    MinPulls = 1
    ResumeAt = {0}
    MaxDays = 1
    MaxTrades = 3
    MaxFaults = 0
PROPERTIES
    ClosedIsFinal
CHECK_DEADLOCK FALSE
