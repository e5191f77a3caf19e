SPECIFICATION LegSpec
CONSTANTS
    call = call
    put = put
    None = None
    Contracts <- Straddle
    Qty <- OneEach
    MaxEntries = 1
    MaxReprices = 1
    MaxKills = 0
    ExecsFirst = TRUE
INVARIANT RoutineCancelNeverFailsLeg
