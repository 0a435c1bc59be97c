SPECIFICATION TradingSpec
CONSTANTS
    t1 = t1
    t2 = t2
    Requests <- SomeRequests
    Markets <- TwoMarkets
    MaxShifts = 2
    Tokens = {t1, t2}
    Amount = 2500
    MaxOpenTrades = 5
INVARIANT
    BuyPlansFit
\* An order is built or refused once.
CHECK_DEADLOCK FALSE
