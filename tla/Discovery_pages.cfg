CONSTANTS
    Key = {k1}
    k1 = k1
    Here = k1
    FailureLimit = 1
    ChallengeLimit = 2
    Cooldown = 1
    MaxCooldown = 2
    MaxScore = 2
    PageSize = 1
    MaxPages = 3
    MaxAdverts = 4
    MaxFaults = 1
SPECIFICATION DSpec
INVARIANT DTypeOK
PROPERTIES PausedForCause PauseIsKept PauseEnds TopIsQueued
CHECK_DEADLOCK FALSE
