---------------------------- MODULE MCBlockLoader ----------------------------
(* Small instances of BlockLoader.  Symmetry is used by safety runs only. *)
EXTENDS BlockLoader, TLC

CONSTANTS s1, s2, i1, i2, b1, b2, b3

TwoSlots    == {s1, s2}
OneIter     == {i1}
TwoIters    == {i1, i2}
TwoBlocks   == {b1, b2}
ThreeBlocks == {b1, b2, b3}

LoaderSymmetry == Permutations(Slots) \cup Permutations(Iters) \cup Permutations(Blocks)
=============================================================================
