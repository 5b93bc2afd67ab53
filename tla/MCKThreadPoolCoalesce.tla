----------------------- MODULE MCKThreadPoolCoalesce -----------------------
\* Instances of KThreadPoolCoalesce for TLC.
EXTENDS KThreadPoolCoalesce

CONSTANTS refresh, recompute,    \* two keys
          other                  \* a plain task of the same tag

MCTask == Key \cup Plain

Bounded(n) == [t \in Tag |-> [iWeight |-> 1, iMaxQueue |-> n, iMaxConcurrency |-> 0,
                                OverflowPolicy |-> "Reject"]]
QueueOfOne == Bounded(1)
NoBound    == Bounded(0)
=============================================================================
