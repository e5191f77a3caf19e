SPECIFICATION LockSpec
CONSTANTS
    MaxHeld = 2
    MaxChanges = 2
    MaxRejects = 1
    MaxDrops = 1
    MaxCrashes = 0
    MaxSaves = 1
\* each is violated; remove one to see the others
PROPERTIES LockedLoopRuns WarningsDoNotLock GateShutAtOnce
