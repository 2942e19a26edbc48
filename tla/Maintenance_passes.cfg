SPECIFICATION FairSpec
CONSTANTS
    c1 = c1
    c2 = c2
    p1 = p1
    r1 = r1
    r2 = r2
    o1 = o1
    m1 = m1
    m2 = m2
    s = s
    t1 = t1
    b1 = b1
    Capture = {c1, c2}
    Picture = {p1}
    PictureOf <- MCPictureOf
    Retention = 3
    OrphanAge = 2
    Call = {r1, r2}
    Observation = {o1}
    Request = {m1, m2}
    Parts <- MCParts
    Seen <- MCSeen
    Days = 2
    Batch = 1
    MaxElapsed = 1
    Workloads <- MCWorkloads
    MaxFaults = 2
INVARIANT NothingNeededGoes
PROPERTIES OnlyACrashLosesFiles RetainedIsKept CleansUp
