SPECIFICATION SerialFairSpec
CONSTANTS
    i1 = i1
    buy = buy
    sell = sell
    limit = limit
    stop = stop
    Instruments = {i1}
    Tradable = {i1}
    Requests = {buy, limit, stop}
    Request <- Unhurried
    Expiring = {limit}
    Prices = {3, 5}
    InitialCash = 18
    MaxPositionPct = 100
    BuyFee = 1
    SellFee = 2
    OtherFee = 1
    MaxInvested = 40
    MaxFaults = 1
INVARIANTS
    CashNeverNegative
    NoUnmatchedSale
PROPERTIES
    LapsedSettles
CHECK_DEADLOCK FALSE
