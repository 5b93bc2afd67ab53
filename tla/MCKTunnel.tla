------------------------------- MODULE MCKTunnel ----------------------------
\* Instances of KTunnel for TLC.
EXTENDS KTunnel

CONSTANTS near, far

Sends(n) == [e \in End |-> IF e = <<near, 1>> THEN n ELSE 0]

OneUp     == Sends(1)
ThreeUp   == Sends(3)   \* one more than a queue takes
FiveUp    == Sends(5)
FourBoth  == [Sends(3) EXCEPT ![<<far, 1>>] = 1]
OneEach   == [e \in End |-> 1]

NearEnd == {<<near, 1>>}
FarEnd  == {<<far, 1>>}
BothEnds == NearEnd \cup FarEnd
=============================================================================
