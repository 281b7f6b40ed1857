SPECIFICATION Spec
CONSTANTS
    s1 = s1
    s2 = s2
    i1 = i1
    i2 = i2
    b1 = b1
    b2 = b2
    b3 = b3
    Missing = Missing
    Torn = Torn
    Blank = Blank
    InFlight = InFlight
    NoSlot = NoSlot
    NoClone = NoClone
    Slots <- TwoSlots
    Iters <- TwoIters
    Blocks <- TwoBlocks
    Concurrent = FALSE
    MaxLen = 2
    MaxFaults = 1
CHECK_DEADLOCK FALSE
INVARIANT
    DoneMeansComplete
