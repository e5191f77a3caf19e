SPECIFICATION Spec
CONSTANTS
    Cap = 2
    MaxEvents = 3
    MaxFails = 0
INVARIANT CancelLosesNothing
CHECK_DEADLOCK FALSE
