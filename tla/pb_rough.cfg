SPECIFICATION FairSpec
CONSTANTS
    Qty = 2
    MaxEntries = 1
    MaxExits = 1
    Modes <- Rough
    HoldFor = FALSE
PROPERTY KeepsTrying
