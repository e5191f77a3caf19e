SPECIFICATION LockFairSpec
CONSTANTS
    MaxHeld = 2
    MaxChanges = 2
    MaxRejects = 2
    MaxDrops = 2
    MaxCrashes = 1
    MaxSaves = 1
INVARIANT HumanLocksHold
PROPERTIES GateShutForReason UnlocksIntoCleanBook DisconnectLockClears
