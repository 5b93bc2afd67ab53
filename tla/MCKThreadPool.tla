--------------------------- MODULE MCKThreadPool ----------------------------
\* Instances of KThreadPool for TLC.
EXTENDS KThreadPool, TLC

CONSTANTS a, b,             \* two tags
          w1, w2, w3, w4,   \* thread ids
          k1, k2            \* tasks

MCSymmetry == Permutations(Worker) \cup Permutations(Task)

OrderA == <<a>>
CapOne == [DefaultConfig EXCEPT !.iMaxConcurrency = 1]

\* a runs one task at a time, b is not configured
OneCapped == [t \in Tag |-> IF t = a THEN CapOne ELSE DefaultConfig]

\* ... a's queue holds one task and drops its oldest, b's holds one and rejects
BothBounded == [t \in Tag |-> IF t = a
    THEN [CapOne EXCEPT !.iMaxQueue = 1, !.OverflowPolicy = "DropOldest"]
    ELSE [DefaultConfig EXCEPT !.iMaxQueue = 1]]

To(n, growth, policy) == [nThreads |-> n, Growth |-> growth, Shrink |-> policy]

UpAndDown   == {To(1, "PrestartAll", "ShrinkNever"),
                To(3, "PrestartOne", "ShrinkOne")}
DownToOne   == {To(1, "PrestartAll", "ShrinkNever")}
DownTwice   == {To(2, "PrestartAll", "ShrinkNever"),
                To(1, "PrestartAll", "ShrinkImmediately")}
OnlyOneLazy == {To(1, "PrestartNone", "ShrinkNever")}

\* b is configured once more, its queue unbounded
UnboundB == {<<b, DefaultConfig>>}
MCStrategies == {<<"PrestartNone", "ShrinkOne">>}
=============================================================================
