SPECIFICATION LegFairSpec
CONSTANTS
    call = call
    put = put
    None = None
    Contracts <- Straddle
    Qty <- TwoCalls
    MaxEntries = 1
    MaxReprices = 1
    MaxKills = 0
    ExecsFirst = FALSE
PROPERTIES FailedBatchEndsFlat
