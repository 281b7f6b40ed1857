\* Two creates, one store opened, two reads, one power loss.
SPECIFICATION Spec
CONSTANTS
    main = main
    p1 = p1
    Main = main
    Threads <- TwoThreads
    Fds <- FourFds
    Shapes <- TwoShapes
    Absent = Absent
    Broken = Broken
    Hole = Hole
    NoFd = NoFd
    NoThread = NoThread
    Alien = Alien
    Blank = Blank
    NoBackend = NoBackend
    MaxCreates = 2
    MaxPowerFails = 1
    MaxReads = 2
    MaxOpens = 1
CHECK_DEADLOCK FALSE
INVARIANTS
    TypeOK
    ReadsExact
    CheckedReadsWhole
    NoSpuriousError
    NoDescriptorLeak
    SeekRegionExclusive
