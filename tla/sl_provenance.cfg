SPECIFICATION LockSpec
CONSTANTS
    MaxHeld = 2
    MaxChanges = 0
    MaxRejects = 0
    MaxDrops = 1
    MaxCrashes = 0
    MaxSaves = 0
INVARIANTS OperatorLockHolds
