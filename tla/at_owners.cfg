SPECIFICATION Spec
CONSTANTS
    late = late
    early = early
    put = put
    call = call
    Unknown = Unknown
    Strats <- Straddles
    Contracts <- PutAndCall
    Configs <- OneRemoved
    Reentrant <- Early
    Fired <- Late
    Sides <- SoldAndBought
    Qty = 1
    MaxOrders = 3
    MaxDeaths = 2
    MaxFails = 1
SYMMETRY Swap
INVARIANTS OneTradePerDay CloseReasonKept
PROPERTIES SeedingRestoresOwners SeededLikeBroker
CHECK_DEADLOCK FALSE
