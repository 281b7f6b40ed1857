-------------------------- MODULE MCStreamedDecode --------------------------
(* The smallest pools in which a decode never runs out of memory for good. *)
EXTENDS StreamedDecode, TLC

CONSTANTS q1, q2, q3, t1, t2, m1, m2

ThreeCallerCells == {q1, q2, q3}
TwoTransferCells == {t1, t2}
TwoComputeCells  == {m1, m2}

CellSymmetry ==
    Permutations(CallerCells) \cup Permutations(TransferCells) \cup Permutations(ComputeCells)
=============================================================================
