SPECIFICATION Spec
CONSTANTS
    o1 = o1
    o2 = o2
    o3 = o3
    call = call
    None = None
    Oid <- TwoOrders
    Legs <- OneLeg
    Qty = 1
    MaxAttempts = 1
    InPlace = FALSE
    MaxIntents = 1
    MaxKills = 0
    MaxLost = 0
    MaxDrops = 1
INVARIANT CancelledCannotFill
