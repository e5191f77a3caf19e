SPECIFICATION FairSpec
CONSTANTS
    Types <- Claimed
    Limit = 2
    MaxCommands = 2
    MaxCrashes = 1
    MaxSlips = 0
    MaxScripts = 1
\* each is violated; remove one to see the next
INVARIANTS FiresNextTick RefusedChangesNothing
PROPERTIES TicksDrain LatchHolds StopStops StopTakesItsCommandBack
CHECK_DEADLOCK FALSE
