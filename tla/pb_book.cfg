SPECIFICATION FairSpec
CONSTANTS
    Qty = 2
    MaxEntries = 2
    MaxExits = 2
    Modes <- Smoothly
    HoldFor = FALSE
INVARIANTS BookIsBroker ExitsAreCovered BothSidesWithdrawn
PROPERTY KeepsTrying
