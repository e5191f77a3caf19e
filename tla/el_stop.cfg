SPECIFICATION FairSpec
CONSTANTS
    Cap = 3
    MaxEvents = 9
    MaxFails = 3
INVARIANTS StopFlushes NoGaps LossIsBounded
PROPERTY StopReturns
CHECK_DEADLOCK FALSE
