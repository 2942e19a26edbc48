CONSTANTS
    None = None
    Address <- Addresses
    Results <- Answers
SPECIFICATION GFairSpec
INVARIANT CacheIsSound
PROPERTIES ProgressIsKept Settles
CHECK_DEADLOCK FALSE
