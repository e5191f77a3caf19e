SPECIFICATION Spec
CONSTANTS
    a = a
    b = b
    c = c
    call = call
    put = put
    Strats <- Three
    Legs <- Straddle
    MaxOpenPositions = 2
    MaxOpenOrders = 2
    MaxPerStrategy = 3
    MaxPerUnderlying = 3
    DailyLossLimit = 2
    StrategyLossLimit = 1
    MaxContracts = 4
    MaxPremium = 10
    Requests <- Quantities
    Prices <- Premiums
    Results <- Even
    MaxBatches = 4
    MaxExits = 2
    MaxDeaths = 1
SYMMETRY Swap
INVARIANT ExposureBounded
PROPERTY EntersOnlyWhenAllowed
CHECK_DEADLOCK FALSE
