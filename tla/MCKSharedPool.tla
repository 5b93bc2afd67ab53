---------------------------- MODULE MCKSharedPool ----------------------------
\* Instances of KSharedPool for TLC.
EXTENDS KSharedPool, TLC

CONSTANTS t1, t2, t3, t4

MCSymmetry == Permutations(Thread)
==============================================================================
