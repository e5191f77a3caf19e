SPECIFICATION OutageSpec
CONSTANTS
    base = base
    trail = trail
    Strats <- OneTrailing
    Trailing <- OneTrailing
    Levels <- TwoLevels
    PutsOnly = TRUE
    Width = 2
    DayLen = 14
    CutoffAt = 13
    TimeExitAt = 13
    MaxTrades = 1
    MaxFetches = 1
    Target = 1
    History = {2}
    Premiums = {16}
    MaxTicks = 5
    MaxLag = 1
    Days = 1
    MaxFailures = 0
    MaxRestarts = 1
\* each is violated; remove those found to see the others (TradesCapped with SPECIFICATION Spec)
INVARIANTS SignalBarIsWhole TradesCapped
PROPERTY EntersAtOnce
