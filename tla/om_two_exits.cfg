SPECIFICATION Spec
CONSTANTS
    o1 = o1
    o2 = o2
    o3 = o3
    call = call
    None = None
    Oid <- ThreeOrders
    Legs <- OneLeg
    Qty = 1
    MaxAttempts = 1
    InPlace = FALSE
    MaxIntents = 2
    MaxKills = 0
    MaxLost = 0
    MaxDrops = 0
INVARIANT OneActiveExitPerPosition
