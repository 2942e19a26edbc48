CONSTANTS
    Callers = {c1, c2}
    c1 = c1
    c2 = c2
    DailyLimit = 2
    Rate = 2
    Window = 2
    DayLength = 3
    Backoff = 1
    MaxBackoff = 2
    MaxReset = 3
    Saturated = 2
    Keys = {k1, k2}
    MaxDeaths = 1
SPECIFICATION FairSpec
INVARIANT AccountsKept
PROPERTIES SendsWhenAllowed Recovers
CHECK_DEADLOCK FALSE
