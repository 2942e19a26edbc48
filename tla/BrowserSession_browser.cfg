CONSTANTS
    Calls = 3
    MaxUses = 2
    Callers = 6
SPECIFICATION BFairSpec
INVARIANT BrowserKept
PROPERTIES ImplementsMutex EverythingEnds
CHECK_DEADLOCK FALSE
