CONSTANTS
    Listings = 1
    Filters = {f1, f2}
    f1 = f1
    f2 = f2
    Destination = {d1, d2}
    d1 = d1
    d2 = d2
    DestinationSets <- Chats
    Layers = 0
    Limit = 1
    MaxPatches = 1
    MaxFinalized = 1
    MaxFaults = 0
SPECIFICATION OFairSpec
INVARIANT EveryDestinationQueued
CHECK_DEADLOCK FALSE
