---------------------------- MODULE MCRecordFile ----------------------------
(* Small instances of RecordFile: servers p1, with two threads, and p2.     *)
EXTENDS RecordFile

CONSTANTS k1, p1, p2, t1, t2

OneKey       == {k1}
TwoProcs     == {p1, p2}
TwoThreads   == {t1, t2}
ThreeWriters == {<<p1, t1>>, <<p1, t2>>, <<p2, t1>>}
=============================================================================
