---------------------------- MODULE MCBridgeLock ----------------------------
(* Three threads: one inside and two that compete for the lock it returns; two  *)
(* directories and a record that a file of either may be given.               *)
EXTENDS ItemCache

CONSTANTS t1, t2, t3, none, m1, m2, d1, d2

ThreeThreads == {t1, t2, t3}
TwoThreads   == {t1, t2}
OneRecord    == {m1}
TwoRecords   == {m1, m2}
TwoDirs      == {d1, d2}
=============================================================================
