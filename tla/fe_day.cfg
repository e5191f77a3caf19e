SPECIFICATION Spec
CONSTANTS
    base = base
    trail = trail
    Strats <- OneTrailing
    Trailing <- OneTrailing
    Levels <- TwoLevels
    PutsOnly = TRUE
    Width = 2
    DayLen = 12
    CutoffAt = 11
    TimeExitAt = 11
    MaxTrades = 2
    MaxFetches = 1
    Target = 1
    History = {2}
    Premiums = {16, 28}
    MaxTicks = 5
    MaxLag = 1
    Days = 1
    MaxFailures = 1
    MaxRestarts = 1
INVARIANTS BarsInOrder GuardedByOwnTrigger OncePerTrigger
