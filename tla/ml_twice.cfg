SPECIFICATION LegSpec
CONSTANTS
    call = call
    put = put
    None = None
    Contracts <- Straddle
    Qty <- OneEach
    MaxEntries = 2
    MaxReprices = 1
    MaxKills = 0
    ExecsFirst = TRUE
INVARIANT WaitUntilFlat
