CONSTANTS
    a = a
    b = b
    x = x
    y = y
    z = z
    Order <- MCOrder
    Interval = 4
    Offset <- MCOffset
    Day = 4
    Hours <- MCHours
    Market <- MCMarket
    Searches <- MCSearches
    Lanes = 2
    Gap = 2
    Deadline = 1
    FailureLimit = 1
    ChallengeLimit = 1
    Cooldown = 2
    MaxCooldown = 2
    MaxScore = 1
    MaxTrouble = 1
    MaxCrashes = 1
SPECIFICATION SFairSpec
INVARIANT LanesConsistent
PROPERTIES OncePerWindow KeepsToBreaker EveryPairRuns
CHECK_DEADLOCK FALSE
