SPECIFICATION Spec
CONSTANTS
    a = a
    b = b
    c = c
    call = call
    put = put
    Strats <- Two
    Legs <- Straddle
    MaxOpenPositions = 2
    MaxOpenOrders = 2
    MaxPerStrategy = 3
    MaxPerUnderlying = 3
    DailyLossLimit = 2
    StrategyLossLimit = 1
    MaxContracts = 4
    MaxPremium = 10
    Requests <- Quantities
    Prices <- Premiums
    Results <- Losing
    MaxBatches = 3
    MaxExits = 2
    MaxDeaths = 1
\* each is violated; remove one to see the others
INVARIANT PositionsWithinLimit
PROPERTIES DailyLossHolds StrategyLossHolds
CHECK_DEADLOCK FALSE
