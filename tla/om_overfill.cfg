SPECIFICATION Spec
CONSTANTS
    o1 = o1
    o2 = o2
    o3 = o3
    call = call
    None = None
    Oid <- TwoOrders
    Legs <- OneLeg
    Qty = 3
    MaxAttempts = 1
    InPlace = FALSE
    MaxIntents = 1
    MaxKills = 1
    MaxLost = 0
    MaxDrops = 0
INVARIANT FillsDuringCancelCounted
