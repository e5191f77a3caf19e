SPECIFICATION LegSpec
CONSTANTS
    call = call
    put = put
    None = None
    Contracts <- Straddle
    Qty <- OneEach
    MaxEntries = 2
    MaxReprices = 0
    MaxKills = 1
    ExecsFirst = TRUE
SYMMETRY Swap
INVARIANT WaitUntilFlat
