CONSTANTS
    Listings = 2
    Filters = {f1, f2}
    f1 = f1
    f2 = f2
    Destination = {d1, d2}
    d1 = d1
    d2 = d2
    DestinationSets <- Chats
    Layers = 1
    Limit = 1
    MaxPatches = 2
    MaxFinalized = 2
    MaxFaults = 1
SPECIFICATION OFairSpec
INVARIANT OutboxConsistent
PROPERTIES NoMessageAfterReceipt Reevaluated
CONSTRAINT OneOfEither
CHECK_DEADLOCK FALSE
