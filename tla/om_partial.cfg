SPECIFICATION FairSpec
CONSTANTS
    o1 = o1
    o2 = o2
    o3 = o3
    call = call
    None = None
    Oid <- TwoOrders
    Legs <- OneLeg
    Qty = 2
    MaxAttempts = 1
    InPlace = TRUE
    MaxIntents = 1
    MaxKills = 1
    MaxLost = 1
    MaxDrops = 0
PROPERTY PartialEntryStopsWorking
