SPECIFICATION Spec
CONSTANTS
    a1 = a1
    a2 = a2
    Symbols = {a1}
    Candidates <- OneCandidate
    Premiums = {7, 10}
    Structures <- LongOnly
    Cap = 14
    MaxPosition = 70
    ScaleOut = 30
    TrailBy = 20
    HardExit = 2
    Close = 3
    MaxActions = 1
    MaxDays = 1
    MaxRows = 2
    MaxFaults = 0
INVARIANTS
    OneEntryADay
CHECK_DEADLOCK FALSE
