\* Two calls of up to three chunks, host and device loader; one raising read.
SPECIFICATION Spec
CONSTANTS
    q1 = q1
    q2 = q2
    q3 = q3
    t1 = t1
    t2 = t2
    m1 = m1
    m2 = m2
    NoCell = NoCell
    CallerCells <- ThreeCallerCells
    TransferCells <- TwoTransferCells
    ComputeCells <- TwoComputeCells
    Depth = 2
    MaxCalls = 2
    MaxChunks = 3
    MaxFaults = 1
CHECK_DEADLOCK FALSE
SYMMETRY CellSymmetry
INVARIANTS
    TypeOK
    ResultsExact
    PendingReadsHeld
    NeverStuck
