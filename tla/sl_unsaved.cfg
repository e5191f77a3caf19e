SPECIFICATION LockSpec
CONSTANTS
    MaxHeld = 2
    MaxChanges = 2
    MaxRejects = 0
    MaxDrops = 0
    MaxCrashes = 1
    MaxSaves = 0
INVARIANTS OperatorLockHolds
