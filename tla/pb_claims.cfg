SPECIFICATION FairSpec
CONSTANTS
    Qty = 2
    MaxEntries = 1
    MaxExits = 1
    Modes <- Smoothly
    HoldFor = TRUE
\* each is violated; remove one to see the other
PROPERTIES LatchedUntilFlat TimeExitStands
