SPECIFICATION Spec
CONSTANTS
    Qty = 2
    MaxEntries = 1
    MaxExits = 2
    Modes <- Replacing
    HoldFor = FALSE
INVARIANT ExitsOnlyReduce
