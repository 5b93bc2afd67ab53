------------------------------ MODULE MCKSession ----------------------------
\* Instances of KSession for TLC.
EXTENDS KSession, TLC

CONSTANT alice

OneUser == [t \in Token |-> alice]

Symmetry == Permutations(Token) \cup Permutations(Request)
=============================================================================
