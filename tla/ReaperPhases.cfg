SPECIFICATION FairSpec
CONSTANTS
    Kinds = {"daily"}
    CustomIDs = {}
    Reapers = {r1, r2}
    Retain = 1
    Interval = 2
    TTL = 2
    StartDays <- OneYearEnd
    Horizon = 8
    Delays = {0}
    MaxEvents = 1
    MaxMishaps = 0
PROPERTIES
    AgedOutExpires
