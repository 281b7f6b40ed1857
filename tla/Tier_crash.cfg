SPECIFICATION Spec
CONSTANTS
    k1 = k1
    k2 = k2
    r1 = r1
    r2 = r2
    j1 = j1
    j2 = j2
    j3 = j3
    w1 = w1
    w2 = w2
    l1 = l1
    l2 = l2
    NoLookup = NoLookup
    Idle = Idle
    Keys <- TwoKeys
    Reqs <- OneReq
    Jobs <- TwoJobs
    Workers <- TwoWorkers
    LookupIds <- OneLookup
    ConcurrentCallers = FALSE
    MaxBlocks = 2
    MaxFaults = 1
    MaxRots = 1
    MaxDrains = 0
    MaxRestarts = 1
CHECK_DEADLOCK FALSE
SYMMETRY TierSymmetry
INVARIANTS
    TypeOK
    HitIsBacked
    OkMeansMoved
