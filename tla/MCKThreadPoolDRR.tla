-------------------------- MODULE MCKThreadPoolDRR --------------------------
\* Instances of KThreadPoolDRR for TLC.
EXTENDS KThreadPoolDRR

CONSTANTS requests, monitoring, io    \* three work classes

Cfg(weight, queue, cap, policy) ==
    [iWeight |-> weight, iMaxQueue |-> queue, iMaxConcurrency |-> cap,
     OverflowPolicy |-> policy]

\* a heavy tag, a bounded one that drops its oldest, a capped one
MCTag == {requests, monitoring, io}
MCConfig == [t \in MCTag |->
    CASE t = requests   -> Cfg(3, 0, 0, "Reject")
      [] t = monitoring -> Cfg(1, 2, 0, "DropOldest")
      [] t = io         -> Cfg(2, 2, 2, "Reject")]

\* monitoring is given a cap and a rejecting queue of one, with a weight of 0
MCConfigs == {<<monitoring, Cfg(0, 1, 1, "Reject")>>}
MCTask == {1}
=============================================================================
