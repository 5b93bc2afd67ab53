------------------------------ MODULE MCKTimer ------------------------------
\* Instances of KTimer for TLC.
EXTENDS KTimer

CONSTANTS tick, shot    \* a timer of CallEvery and one of CallOnce
=============================================================================
