------------------------------ MODULE KTaskPool -----------------------------
(***************************************************************************)
(* What a KThreadPool promises about tasks, with no threads, locks or      *)
(* counters in sight: each tag is a first-in first-out queue, a task is    *)
(* started at most once, no more than Cap[tag] tasks of a capped tag run   *)
(* at a time, and a task that is not run is rejected, evicted by a newer   *)
(* one of its own tag, or cleared.  KThreadPool implements this            *)
(* specification (ImplementsTaskPool there gives the mapping).             *)
(***************************************************************************)
EXTENDS Naturals, Sequences, FiniteSets

CONSTANTS Tag, Task,
          Cap          \* [Tag -> Nat], 0 = no cap

VARIABLES pending,     \* the tasks of a tag that wait, oldest first
          running,     \* the tasks of a tag that run
          settled      \* the tasks that ended, were rejected, evicted or cleared

vars == <<pending, running, settled>>

Waiting(t) == {pending[t][i] : i \in 1 .. Len(pending[t])}

Fresh(k) == /\ k \notin settled
            /\ \A t \in Tag : k \notin Waiting(t) /\ k \notin running[t]

Init == /\ pending = [t \in Tag |-> <<>>]
        /\ running = [t \in Tag |-> {}]
        /\ settled = {}

Accept(t, k) == /\ Fresh(k)
                /\ pending' = [pending EXCEPT ![t] = Append(@, k)]
                /\ UNCHANGED <<running, settled>>

AcceptAndEvict(t, k) == /\ Fresh(k)
                        /\ pending[t] # <<>>
                        /\ pending' = [pending EXCEPT ![t] = Append(Tail(@), k)]
                        /\ settled' = settled \cup {Head(pending[t])}
                        /\ UNCHANGED running

Reject(k) == /\ Fresh(k)
             /\ settled' = settled \cup {k}
             /\ UNCHANGED <<pending, running>>

\* start the oldest task of t when the tasks in busy run
StartFrom(busy, t) ==
    /\ pending[t] # <<>>
    /\ Cap[t] = 0 \/ Cardinality(busy[t]) < Cap[t]
    /\ pending' = [pending EXCEPT ![t] = Tail(@)]
    /\ running' = [busy EXCEPT ![t] = @ \cup {Head(pending[t])}]

Start(t) == StartFrom(running, t) /\ UNCHANGED settled

\* a task ends, and its thread goes idle or takes the next task at once
Finish(t, k) ==
    /\ k \in running[t]
    /\ settled' = settled \cup {k}
    /\ LET rest == [running EXCEPT ![t] = @ \ {k}]
       IN  \/ running' = rest /\ UNCHANGED pending
           \/ \E u \in Tag : StartFrom(rest, u)

Clear == /\ settled' = settled \cup UNION {Waiting(t) : t \in Tag}
         /\ pending' = [t \in Tag |-> <<>>]
         /\ UNCHANGED running

Next == \/ \E t \in Tag, k \in Task : Accept(t, k) \/ AcceptAndEvict(t, k)
        \/ \E k \in Task : Reject(k)
        \/ \E t \in Tag : Start(t)
        \/ \E t \in Tag : \E k \in running[t] : Finish(t, k)
        \/ Clear

Spec == Init /\ [][Next]_vars

=============================================================================
