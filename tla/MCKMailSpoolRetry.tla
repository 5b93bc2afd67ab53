-------------------------- MODULE MCKMailSpoolRetry -------------------------
\* KMailSpool with a count of the attempts to send a mail before time passes.
EXTENDS KMailSpool

VARIABLE attempts

Bound == Cardinality(Mail) + 1

CountedInit == Init /\ attempts = [m \in Mail |-> 0]

CountedNext ==
    /\ Next
    /\ attempts' = IF Delivering /\ step' # "next" /\ attempts[Current] <= Bound
                   THEN [attempts EXCEPT ![Current] = @ + 1]
                   ELSE IF age' # age \/ process' # process
                   THEN [m \in Mail |-> 0] ELSE attempts

CountedSpec == CountedInit /\ [][CountedNext]_<<vars, attempts>>

\* Between two ticks the addition of each mail causes at most one attempt out of
\* turn: "Only the entries in Pending keep their backoff, they just failed on this
\* very connection" (kmailspool.cpp:271-273), "retried with a delay that starts at
\* RetryInterval and doubles with every failed attempt" (kmailspool.h:95-96).
RetriesSpaced == \A m \in Mail : attempts[m] <= Bound
=============================================================================
