CONSTANTS
    Advert = {a1, a2}
    a1 = a1
    a2 = a2
    SharedText = TRUE
    MaxEdits = 2
    EditsOf <- OneChanges
    MaxFaults = 1
SPECIFICATION FairSpec
INVARIANTS CaptureConsistent ExtractedOnce
PROPERTIES LateWorkIsFenced Published
CHECK_DEADLOCK FALSE
