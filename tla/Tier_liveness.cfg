\* Two jobs on one key, one thread; one fault, one damaged record, one drain.
SPECIFICATION FairSpec
CONSTANTS
    k1 = k1
    k2 = k2
    r1 = r1
    r2 = r2
    j1 = j1
    j2 = j2
    j3 = j3
    w1 = w1
    w2 = w2
    l1 = l1
    l2 = l2
    NoLookup = NoLookup
    Idle = Idle
    Keys <- OneKey
    Reqs <- OneReq
    Jobs <- TwoJobs
    Workers <- TwoWorkers
    LookupIds <- OneLookup
    ConcurrentCallers = FALSE
    MaxBlocks = 1
    MaxFaults = 1
    MaxRots = 1
    MaxDrains = 1
    MaxRestarts = 0
CHECK_DEADLOCK FALSE
PROPERTIES
    JobsReported
    LookupsResolve
    DrainTerminates
    ShutdownTerminates
