--------------------------- MODULE KThreadPoolDRR ---------------------------
(***************************************************************************)
(* The scheduler of KThreadPool on its own, under an endless stream of     *)
(* submissions: what the weighted Deficit Round Robin promises each tag    *)
(* while the other tags flood the pool.                                    *)
(*                                                                         *)
(* A step is one critical section under m_cond_mutex.  Which worker makes  *)
(* it is left out (see KThreadPool): only how many tasks of a tag run      *)
(* matters here.  Tasks need no identity, so Task may be a singleton.      *)
(***************************************************************************)
EXTENDS KThreadPoolSched, FiniteSets

CONSTANTS LaterConfigs,   \* the (tag, config) pairs ConfigureTag is called with later
          MaxQueued,      \* bound: queued tasks per tag
          MaxWorkers,     \* size of the pool that serves the tasks
          Switches        \* which of pause() and clear() the callers use

\* what a caller can pass: the weight is a uint32_t, 0 included
AnyConfig == [iWeight : Nat, iMaxQueue : Nat, iMaxConcurrency : Nat,
              OverflowPolicy : {"Reject", "DropOldest"}]

ASSUME DRRAssumption == /\ IsFiniteSet(Tag)
                        /\ InitConfig \in [Tag -> TagConfig]
                        /\ LaterConfigs \subseteq (Tag \X AnyConfig)
                        /\ MaxQueued \in Nat /\ MaxWorkers \in Nat \ {0}
                        /\ Switches \subseteq {"pause", "clear"}

VARIABLES
    bypass,   \* history: dequeues of other tags a serviceable tag sat through
    share     \* history: tasks each tag was served while all were backlogged

drr_vars == <<sched, bypass, share>>

\* the tasks being run, numbered tag by tag
Busy(S) == UNION {{t} \X (1 .. S.iRunning[t]) : t \in Tag}

NoHistory == [t \in Tag |-> 0]

DRRInit == /\ sched = EmptySched(InitConfig, <<>>)
           /\ bypass = NoHistory
           /\ share = NoHistory

\* whole rounds are taken out of share: only the differences count
Normalised(s) ==
    IF \A t \in Tag : s[t] >= sched.Config[t].iWeight
    THEN [t \in Tag |-> s[t] - sched.Config[t].iWeight]
    ELSE s

\* histories after a step that served `served` (a set of at most one tag)
Remember(served) ==
    /\ bypass' = [t \in Tag |->
         IF t \in served \/ ~Serviceable(sched', t) THEN 0
         ELSE IF served # {} /\ Serviceable(sched, t) THEN bypass[t] + 1
         ELSE bypass[t]]
    /\ share' = IF \A t \in Tag : Serviceable(sched, t) /\ Serviceable(sched', t)
                THEN Normalised([t \in Tag |->
                        IF t \in served THEN share[t] + 1 ELSE share[t]])
                ELSE NoHistory

Push(t) ==
    /\ Len(sched.Queue[t]) < MaxQueued
    /\ \E k \in Task : sched' = sched_enqueue(sched, t, k).sched
    /\ Remember({})

\* a worker that has a free hand looks for a task
Serve ==
    /\ Cardinality(Busy(sched)) < MaxWorkers
    /\ LET r == sched_dequeue(sched)
       IN  /\ sched' = r.sched
           /\ Remember(IF r.bFound THEN {r.tag} ELSE {})

Finish(t) ==
    /\ sched.iRunning[t] > 0
    /\ sched' = sched_task_done(sched, t).sched
    /\ Remember({})

Configure(t, config) ==
    /\ sched' = ConfigureTagTo(sched, t, config)
    /\ bypass' = NoHistory      \* a new deal starts
    /\ share' = NoHistory

Pause(b) ==
    /\ "pause" \in Switches
    /\ sched' = [sched EXCEPT !.m_bQueuePaused = b]
    /\ Remember({})

Clear ==
    /\ "clear" \in Switches
    /\ sched' = Cleared(sched)
    /\ Remember({})

DRRNext == \/ \E t \in Tag : Push(t) \/ Finish(t)
           \/ Serve
           \/ \E c \in LaterConfigs : Configure(c[1], c[2])
           \/ \E b \in BOOLEAN : Pause(b)
           \/ Clear

DRRSpec == DRRInit /\ [][DRRNext]_drr_vars

-----------------------------------------------------------------------------

DRRTypeOK == /\ sched \in Sched
             /\ bypass \in [Tag -> Nat]
             /\ share \in [Tag -> Nat]

\* A tag's deficit never goes below zero and never exceeds one quantum, so no
\* history of skipped, capped or cleared turns can save up a longer burst
\* (sched_dequeue's charge, forfeit and carry-over of an interrupted quantum).
\* ConfigureTag may change anything but lower a weight in mid-turn; a weight of 0 is
\* clamped, else it "would let the DRR deficit counter sink without bound".
DeficitWithinQuantum == WithinQuantum(sched)

\* one quantum of each tag but t, task by task
OthersQuanta(S, t) == UNION {{u} \X (1 .. S.Config[u].iWeight) : u \in Tag \ {t}}

\* "a flood in one tag cannot starve the others": a tag that has a task it may
\* start sits through at most one quantum of each other tag before it is served.
BypassBounded ==
    \A t \in Tag : bypass[t] <= Cardinality(OthersQuanta(sched, t))

\* While every tag stays backlogged and below its cap, tags are served in the ratio of
\* their weights: no tag gets two rounds ahead of another.  One round is not enough: a
\* tag that drained keeps what is left of its quantum (sched_dequeue hands the turn on
\* without resetting iDeficit) and, if it is refilled in time, starts with that rest.
WeightedShare ==
    \A t, u \in Tag :
        LET wt == sched.Config[t].iWeight
            wu == sched.Config[u].iWeight
        IN  share[t] * wu - share[u] * wt < 2 * wt * wu

=============================================================================
