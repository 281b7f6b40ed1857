\* One call; the stack on the transfer stream reads clones not yet made.
SPECIFICATION Spec
CONSTANTS
    q1 = q1
    q2 = q2
    q3 = q3
    t1 = t1
    t2 = t2
    m1 = m1
    m2 = m2
    NoCell = NoCell
    CallerCells <- ThreeCallerCells
    TransferCells <- TwoTransferCells
    ComputeCells <- TwoComputeCells
    Depth = 2
    MaxCalls = 1
    MaxChunks = 3
    MaxFaults = 1
CHECK_DEADLOCK FALSE
INVARIANT
    CoalescingSafe
