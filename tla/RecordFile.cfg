\* Three threads of two servers write one key; one OS error, two crashes.
SPECIFICATION FairSpec
CONSTANTS
    k1 = k1
    p1 = p1
    p2 = p2
    t1 = t1
    t2 = t2
    Keys <- OneKey
    Procs <- TwoProcs
    Threads <- TwoThreads
    Writers <- ThreeWriters
    MaxFaults = 1
    MaxCrashes = 2
INVARIANTS
    TypeOK
    TornFree
    TempOwned
    OkMeansStored
    NoOrphanTemp
PROPERTIES
    ImplementsRecordSet
    CallsEnd
    NeverWedged
