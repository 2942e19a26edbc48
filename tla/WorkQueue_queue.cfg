CONSTANTS
    Key = {k1, k2}
    k1 = k1
    k2 = k2
    NoKey = NoKey
    Policies <- BothKinds
    MaxAttempts = 2
    MaxLlm = 2
    MaxDeferrals = 1
    MaxPark = 2
    Lease = 2
    MaxWait = 1
    Timeout = 1
    MaxChanges = 1
    MaxLosses = 1
SPECIFICATION FairSpec
INVARIANT RowsConsistent
PROPERTIES ImplementsJobQueue NotStarved Settles
CHECK_DEADLOCK FALSE
