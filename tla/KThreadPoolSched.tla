-------------------------- MODULE KThreadPoolSched --------------------------
(***************************************************************************)
(* The fair scheduler inside KThreadPool: the work-class tags, their       *)
(* bounded sub-queues, their concurrency caps and the weighted Deficit     *)
(* Round Robin across them.                                                *)
(*                                                                         *)
(* The sched_* functions of kthreadpool.cpp run with m_cond_mutex held, so *)
(* each is one atomic function from the scheduler's state to the next: an  *)
(* operator over a record S of the set Sched.  KThreadPoolDRR drives them  *)
(* alone, KThreadPool and KThreadPoolCoalesce under the worker threads;    *)
(* the state they act on is the variable sched of all three.               *)
(***************************************************************************)
EXTENDS Integers, Sequences

CONSTANTS Tag,         \* work-class identifiers
          Task,        \* queued packaged_tasks, each pushed at most once
          InitConfig   \* [Tag -> TagConfig]: ConfigureTag calls before the start

VARIABLE sched         \* the scheduler's state, guarded by m_cond_mutex

TagConfig == [iWeight         : Nat \ {0},
              iMaxQueue       : Nat,          \* 0 = unbounded
              iMaxConcurrency : Nat,          \* 0 = no cap
              OverflowPolicy  : {"Reject", "DropOldest"}]

\* the policy a tag is registered with on first use
DefaultConfig == [iWeight |-> 1, iMaxQueue |-> 0, iMaxConcurrency |-> 0,
                  OverflowPolicy |-> "Reject"]

\* m_Tags (Config, Queue, iDeficit, iRunning per tag), m_TagOrder,
\* m_iTagCursor (counted from 0), m_iTotalQueued and m_bQueuePaused
Sched == [Config         : [Tag -> TagConfig],
          Queue          : [Tag -> Seq(Task)],
          iDeficit       : [Tag -> Int],
          iRunning       : [Tag -> Nat],
          m_TagOrder     : Seq(Tag),
          m_iTagCursor   : Nat,
          m_iTotalQueued : Nat,
          m_bQueuePaused : BOOLEAN]

\* no tag seen yet; config holds what ConfigureTag set before the first use
EmptySched(config, order) ==
    [Config         |-> config,
     Queue          |-> [t \in Tag |-> <<>>],
     iDeficit       |-> [t \in Tag |-> 0],
     iRunning       |-> [t \in Tag |-> 0],
     m_TagOrder     |-> order,
     m_iTagCursor   |-> 0,
     m_iTotalQueued |-> 0,
     m_bQueuePaused |-> FALSE]

Registered(S) == {S.m_TagOrder[i] : i \in 1 .. Len(S.m_TagOrder)}

\* tags auto-register at the end of the round-robin order and are never erased
sched_tag(S, tag) ==
    IF tag \in Registered(S) THEN S
    ELSE [S EXCEPT !.m_TagOrder = Append(@, tag)]

\* mutant: the weight is taken as it comes
ConfigureTagTo_Unclamped(S, tag, config) ==
    [sched_tag(S, tag) EXCEPT !.Config[tag] = config]

\* an iWeight of 0 is clamped to 1; nobody is notified
ConfigureTagTo(S, tag, config) ==
    LET clamped == IF config.iWeight = 0 THEN [config EXCEPT !.iWeight = 1]
                                         ELSE config
    IN  [sched_tag(S, tag) EXCEPT !.Config[tag] = clamped]

\* mutant: one task too many
BelowCap_OffByOne(S, tag) ==
    \/ S.Config[tag].iMaxConcurrency = 0
    \/ S.iRunning[tag] <= S.Config[tag].iMaxConcurrency

BelowCap(S, tag) ==
    \/ S.Config[tag].iMaxConcurrency = 0
    \/ S.iRunning[tag] < S.Config[tag].iMaxConcurrency

Serviceable(S, tag) == S.Queue[tag] # <<>> /\ BelowCap(S, tag)

\* some queued task could start now
Runnable(S) == ~S.m_bQueuePaused /\ \E t \in Tag : Serviceable(S, t)

-----------------------------------------------------------------------------

\* dropped is <<>> or the one task DropOldest evicted
sched_enqueue(S, tag, task) ==
    LET R    == sched_tag(S, tag)
        c    == R.Config[tag]
        full == c.iMaxQueue # 0 /\ Len(R.Queue[tag]) >= c.iMaxQueue
    IN  IF full /\ c.OverflowPolicy = "Reject"
        THEN [sched |-> R, bAccepted |-> FALSE, dropped |-> <<>>]
        ELSE IF full
        THEN [sched     |-> [R EXCEPT !.Queue[tag] = Append(Tail(@), task)],
              bAccepted |-> TRUE,
              dropped   |-> <<Head(R.Queue[tag])>>]
        ELSE [sched     |-> [R EXCEPT !.Queue[tag] = Append(@, task),
                                      !.m_iTotalQueued = @ + 1],
              bAccepted |-> TRUE,
              dropped   |-> <<>>]

Nothing(S) == [bFound |-> FALSE, sched |-> S]

\* mutant: the newest task is taken, not the oldest
Pop_Newest(S, tag) ==
    [bFound |-> TRUE, tag |-> tag, task |-> S.Queue[tag][Len(S.Queue[tag])],
     sched  |-> [S EXCEPT !.Queue[tag] = SubSeq(@, 1, Len(@) - 1),
                          !.m_iTotalQueued = @ - 1, !.iRunning[tag] = @ + 1]]

\* pop the tag's oldest task and count it as running
Pop(S, tag) ==
    [bFound |-> TRUE, tag |-> tag, task |-> Head(S.Queue[tag]),
     sched  |-> [S EXCEPT !.Queue[tag]      = Tail(@),
                          !.m_iTotalQueued  = @ - 1,
                          !.iRunning[tag]   = @ + 1]]

\* the tag the scan looks at after passing over i others
TagAt(S, i) ==
    S.m_TagOrder[((S.m_iTagCursor + i) % Len(S.m_TagOrder)) + 1]

\* mutant: a tag is charged at every visit, not when its quantum is spent
Charged_EveryVisit(S, tag) == S.iDeficit[tag] + S.Config[tag].iWeight

\* a tag is charged one quantum (its weight) when it has none left
Charged(S, tag) == IF S.iDeficit[tag] < 1
                   THEN S.iDeficit[tag] + S.Config[tag].iWeight
                   ELSE S.iDeficit[tag]

\* the scan: the tags it passes over forfeit their deficit, the first
\* serviceable one is charged a quantum if it has none left and serves a task;
\* the turn moves on when its quantum is spent or it cannot go on
DeficitRoundRobin(S) ==
    LET n     == Len(S.m_TagOrder)
        hits  == {i \in 0 .. n - 1 : Serviceable(S, TagAt(S, i))}
        first == CHOOSE i \in hits : \A j \in hits : i <= j
        tag   == TagAt(S, first)
        passed == {TagAt(S, i) : i \in 0 .. first - 1}
        charged == Charged(S, tag)
        popped == Pop(S, tag)
        stays  == charged - 1 >= 1 /\ Serviceable(popped.sched, tag)
        served == [popped.sched EXCEPT
                     !.iDeficit = [t \in Tag |-> CASE t \in passed -> 0
                                                   [] t = tag -> charged - 1
                                                   [] OTHER -> @[t]],
                     !.m_iTagCursor = (@ + first + (IF stays THEN 0 ELSE 1)) % n]
    IN  IF hits = {}
        THEN Nothing([S EXCEPT !.iDeficit =
                 [t \in Tag |-> IF t \in Registered(S) THEN 0 ELSE @[t]]])
        ELSE [popped EXCEPT !.sched = served]

sched_dequeue(S) ==
    IF S.m_bQueuePaused \/ S.m_iTotalQueued = 0 THEN Nothing(S)
    ELSE IF Len(S.m_TagOrder) = 1       \* a plain FIFO, no deficits
    THEN IF Serviceable(S, S.m_TagOrder[1]) THEN Pop(S, S.m_TagOrder[1])
                                            ELSE Nothing(S)
    ELSE DeficitRoundRobin(S)

sched_task_done_NoWake(S, tag) ==
    [sched |-> [S EXCEPT !.iRunning[tag] = @ - 1], bWake |-> FALSE]

\* bWake: the freed slot lets this capped tag run again
sched_task_done(S, tag) ==
    LET R == [S EXCEPT !.iRunning[tag] = IF @ > 0 THEN @ - 1 ELSE @]
    IN  [sched |-> R,
         bWake |-> /\ R.Config[tag].iMaxConcurrency # 0
                   /\ ~R.m_bQueuePaused
                   /\ Serviceable(R, tag)]

\* clear() empties every queue and resets the deficits
Cleared(S) == [S EXCEPT !.Queue          = [t \in Tag |-> <<>>],
                        !.iDeficit       = [t \in Tag |-> 0],
                        !.m_iTotalQueued = 0]

\* no tag has overdrawn its deficit or saved up more than one quantum
WithinQuantum(S) == \A t \in Tag : S.iDeficit[t] \in 0 .. S.Config[t].iWeight

=============================================================================
