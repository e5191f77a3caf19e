SPECIFICATION FairSpec
CONSTANTS
    Types <- Mixed
    Limit = 2
    MaxCommands = 3
    MaxCrashes = 1
    MaxSlips = 2
    MaxScripts = 1
INVARIANTS LastWordWins ActsOnce FreshStart
PROPERTIES ShutdownIsFinal CommandsEnd
CHECK_DEADLOCK FALSE
