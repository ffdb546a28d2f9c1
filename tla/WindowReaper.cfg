SPECIFICATION FairSpec
CONSTANTS
    Kinds = {"all", "daily", "weekly", "monthly"}
    CustomIDs <- ReadsAsMonth
    Reapers = {r1}
    Retain = 1
    Interval = 2
    TTL = 1
    StartDays <- YearEnds
    Horizon = 8
    Delays = {2}
    MaxEvents = 2
    MaxMishaps = 1
INVARIANTS
    WindowsTile
    HistogramGoesToo
PROPERTIES
    RetainedWindowsKept
    AgedOutExpires
