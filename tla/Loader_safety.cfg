\* Two generators at once, two slots, three blocks; one failing read.
SPECIFICATION Spec
CONSTANTS
    s1 = s1
    s2 = s2
    i1 = i1
    i2 = i2
    b1 = b1
    b2 = b2
    b3 = b3
    Missing = Missing
    Torn = Torn
    Blank = Blank
    InFlight = InFlight
    NoSlot = NoSlot
    NoClone = NoClone
    Slots <- TwoSlots
    Iters <- TwoIters
    Blocks <- ThreeBlocks
    Concurrent = TRUE
    MaxLen = 3
    MaxFaults = 1
CHECK_DEADLOCK FALSE
SYMMETRY LoaderSymmetry
INVARIANTS
    TypeOK
    DeliveredIntact
    SlotConservation
