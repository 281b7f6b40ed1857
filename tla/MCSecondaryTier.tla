--------------------------- MODULE MCSecondaryTier ---------------------------
(* Small instances of SecondaryTier.  Symmetry is used by safety runs only. *)
EXTENDS SecondaryTier, TLC

CONSTANTS k1, k2, r1, r2, j1, j2, j3, w1, w2, l1, l2

OneKey     == {k1}
TwoKeys    == {k1, k2}
OneReq     == {r1}
TwoReqs    == {r1, r2}
OneJob     == {j1}
TwoJobs    == {j1, j2}
ThreeJobs  == {j1, j2, j3}
OneWorker  == {w1}
TwoWorkers == {w1, w2}
OneLookup  == {l1}
TwoLookups == {l1, l2}

TierSymmetry ==
    Permutations(Keys) \cup Permutations(Reqs) \cup Permutations(Jobs)
        \cup Permutations(Workers) \cup Permutations(LookupIds)
=============================================================================
