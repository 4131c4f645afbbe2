SPECIFICATION Spec
CONSTANTS
    i1 = i1
    buy = buy
    sell = sell
    limit = limit
    stop = stop
    Instruments = {i1}
    Tradable = {i1}
    Requests = {sell, limit, stop}
    Request <- Contended
    Expiring = {stop}
    Prices = {3, 5}
    InitialCash = 24
    MaxPositionPct = 100
    BuyFee = 1
    SellFee = 2
    OtherFee = 1
    MaxInvested = 40
    MaxFaults = 1
INVARIANTS
    AtMostOneFill
CHECK_DEADLOCK FALSE
