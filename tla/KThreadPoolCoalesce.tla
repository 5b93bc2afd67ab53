------------------------ MODULE KThreadPoolCoalesce -------------------------
(***************************************************************************)
(* KThreadPool::PushCoalesced: repeated submissions for a key collapse     *)
(* into one queued run and at most one rerun.                              *)
(*                                                                         *)
(* A submission is a caller's PushCoalesced with its callable; the promise *)
(* of a generation is the set of submissions that share its future.  The   *)
(* run's trampoline goes through the queue of KThreadPoolSched among plain *)
(* tasks; run_coalesce locks twice - to claim the generation, and to       *)
(* complete - and runs the user's callable unlocked in between.  The       *)
(* workers are those of KThreadPool reduced to taking tasks: that a queued *)
(* task is taken at all is shown there.                                    *)
(***************************************************************************)
EXTENDS KThreadPoolSched, FiniteSets

CONSTANTS Worker,
          Key,           \* coalesce keys: the trampolines in the queue
          Plain,         \* tasks pushed by PushTagged, that fill the queue
          Submissions,   \* bound: PushCoalesced calls, numbered in the order of their locks
          Clears         \* bound: calls of clear()

\* the tag in use: coalescing is per tag, one is enough
tag == CHOOSE t \in Tag : TRUE

ASSUME CoalesceAssumption ==
    /\ \E t \in Tag : Tag = {t}
    /\ Task = Key \cup Plain /\ Key \cap Plain = {}
    /\ Submissions \in Nat
    /\ InitConfig \in [Tag -> TagConfig]
    /\ InitConfig[tag].OverflowPolicy = "Reject"    \* "never with Overflow::DropOldest"
    /\ Clears \in Nat

Submission == 1 .. Submissions

VARIABLES Coalesce,      \* key -> CoalesceState, NoState if the key has none
          pc,            \* where a worker is
          job,           \* the task it runs
          claim,         \* the generation it claimed: its submissions and callable
          outcome,       \* history: what became of a submission
          clears

vars == <<sched, Coalesce, pc, job, claim, outcome, clears>>

\* Callable: the latest submission, 0 = moved from; Promise: {} = null
CoalesceState == [Callable : Submission \cup {0}, Promise : SUBSET Submission,
                  bRunning : BOOLEAN, bQueued : BOOLEAN]
NoState  == [Callable |-> 0, Promise |-> {}, bRunning |-> FALSE, bQueued |-> FALSE]
NoClaim  == [Callable |-> 0, Promise |-> {}]

PC == {"idle", "task", "claim", "run", "settled", "done"}

Init == /\ sched = EmptySched(InitConfig, <<tag>>)
        /\ Coalesce = [k \in Key |-> NoState]
        /\ pc = [w \in Worker |-> "idle"]
        /\ job = [w \in Worker |-> <<>>]
        /\ claim = [w \in Worker |-> NoClaim]
        /\ outcome = [s \in Submission |-> "new"]
        /\ clears = 0

Settle(subs, how) ==
    [s \in Submission |-> IF s \in subs THEN how ELSE outcome[s]]

-----------------------------------------------------------------------------

\* the next submission: the callers are serialised by the mutex
NextSubmission == {s \in Submission : /\ outcome[s] = "new"
                                      /\ \A r \in 1 .. s - 1 : outcome[r] # "new"}

\* mutants: the first callable wins; a submission during a run schedules one of its own
Submitted_FirstWins(CS, s) ==
    [CS EXCEPT !.Callable = IF @ = 0 THEN s ELSE @, !.Promise = @ \cup {s}]

\* the latest callable wins, and its submission joins the pending generation
Submitted(CS, s) == [CS EXCEPT !.Callable = s, !.Promise = @ \cup {s}]

Scheduled_OnlyQueued(CS) == CS.bQueued

\* a run is queued, or one is executing and will be followed by a rerun
Scheduled(CS) == CS.bRunning \/ CS.bQueued

\* mutant: a rejected generation is kept though no run will ever cover it
Schedule_KeepsRejected(k, CS) ==
    LET r == sched_enqueue(sched, tag, k)
    IN  /\ sched' = r.sched
        /\ Coalesce' = [Coalesce EXCEPT ![k] =
                          [CS EXCEPT !.bRunning = FALSE, !.bQueued = TRUE]]
        /\ outcome' = Settle(CS.Promise, "pending")

\* queue a trampoline for the generation in CS.  If the tag rejects it no run will
\* ever cover the generation: the key is forgotten and the futures break.
Schedule(k, CS) ==
    LET r == sched_enqueue(sched, tag, k)
    IN  /\ sched' = r.sched
        /\ Coalesce' = [Coalesce EXCEPT ![k] =
                          IF r.bAccepted
                          THEN [CS EXCEPT !.bRunning = FALSE, !.bQueued = TRUE]
                          ELSE NoState]
        /\ outcome' = Settle(CS.Promise, IF r.bAccepted THEN "pending" ELSE "broken")

push_coalesced_task(k, s) ==
    /\ s \in NextSubmission
    /\ LET CS == Submitted(Coalesce[k], s)
       IN  IF Scheduled(CS)
           THEN /\ Coalesce' = [Coalesce EXCEPT ![k] = CS]
                /\ outcome' = Settle({s}, "pending")
                /\ UNCHANGED sched
           ELSE Schedule(k, CS)
    /\ UNCHANGED <<pc, job, claim, clears>>

PushTagged(p) ==
    /\ \A i \in 1 .. Len(sched.Queue[tag]) : sched.Queue[tag][i] # p
    /\ \A w \in Worker : job[w] # <<p>>
    /\ sched' = sched_enqueue(sched, tag, p).sched
    /\ UNCHANGED <<Coalesce, pc, job, claim, outcome, clears>>

\* a worker takes a task: a plain one, or a trampoline that enters run_coalesce
Dequeue(w) ==
    /\ pc[w] = "idle"
    /\ LET r == sched_dequeue(sched)
       IN  /\ r.bFound
           /\ sched' = r.sched
           /\ job' = [job EXCEPT ![w] = <<r.task>>]
           /\ pc'  = [pc EXCEPT ![w] = IF r.task \in Key THEN "claim" ELSE "task"]
    /\ UNCHANGED <<Coalesce, claim, outcome, clears>>

\* run_coalesce, first section: claim callable and promise.  Submissions during the
\* run start a fresh generation.  A key cleared meanwhile has nothing to claim.
Claim(w) ==
    /\ pc[w] = "claim"
    /\ LET k  == job[w][1]
           CS == Coalesce[k]
       IN  IF CS = NoState
           THEN pc' = [pc EXCEPT ![w] = "done"] /\ UNCHANGED <<Coalesce, claim>>
           ELSE /\ claim' = [claim EXCEPT ![w] = [Callable |-> CS.Callable,
                                                  Promise  |-> CS.Promise]]
                /\ Coalesce' = [Coalesce EXCEPT ![k] =
                       [Callable |-> 0, Promise |-> {},
                        bRunning |-> TRUE, bQueued |-> FALSE]]
                /\ pc' = [pc EXCEPT ![w] = "run"]
    /\ UNCHANGED <<sched, job, outcome, clears>>

\* the callable returned or threw: settle the claimed promise, still unlocked
SettlePromise(w) ==
    /\ pc[w] = "run"
    /\ outcome' = Settle(claim[w].Promise, "served")
    /\ claim' = [claim EXCEPT ![w] = NoClaim]
    /\ pc' = [pc EXCEPT ![w] = "settled"]
    /\ UNCHANGED <<sched, Coalesce, job, clears>>

\* run_coalesce, second section: one rerun if submissions came in, else forget the key
Complete(w) ==
    /\ pc[w] = "settled"
    /\ pc' = [pc EXCEPT ![w] = "done"]
    /\ LET k  == job[w][1]
           CS == Coalesce[k]
       IN  IF CS.Promise = {}
           THEN /\ Coalesce' = [Coalesce EXCEPT ![k] = NoState]
                /\ UNCHANGED <<sched, outcome>>
           ELSE Schedule(k, CS)
    /\ UNCHANGED <<job, claim, clears>>

\* the task ended: the worker accounts for it and is free again
TaskDone(w) ==
    /\ pc[w] \in {"task", "done"}
    /\ sched' = sched_task_done(sched, tag).sched
    /\ pc'  = [pc EXCEPT ![w] = "idle"]
    /\ job' = [job EXCEPT ![w] = <<>>]
    /\ UNCHANGED <<Coalesce, claim, outcome, clears>>

\* clear() drops the queue and every key's state, breaking the pending futures
clear ==
    /\ clears < Clears
    /\ clears' = clears + 1
    /\ sched' = Cleared(sched)
    /\ Coalesce' = [k \in Key |-> NoState]
    /\ outcome' = Settle(UNION {Coalesce[k].Promise : k \in Key}, "broken")
    /\ UNCHANGED <<pc, job, claim>>

WorkerStep(w) == \/ Dequeue(w)
                 \/ Claim(w)
                 \/ SettlePromise(w)
                 \/ Complete(w)
                 \/ TaskDone(w)

Next == \/ \E k \in Key, s \in Submission : push_coalesced_task(k, s)
        \/ \E p \in Plain : PushTagged(p)
        \/ \E w \in Worker : WorkerStep(w)
        \/ clear

Spec == Init /\ [][Next]_vars

\* workers take runnable tasks (KThreadPool), tasks end; the plain pushes may stop
FairSpec == Spec /\ \A w \in Worker : WF_vars(WorkerStep(w))

-----------------------------------------------------------------------------

TypeOK == /\ sched \in Sched
          /\ Coalesce \in [Key -> CoalesceState]
          /\ pc \in [Worker -> PC]
          /\ job \in [Worker -> {<<>>} \cup {<<k>> : k \in Task}]
          /\ claim \in [Worker -> [Callable : Submission \cup {0},
                                   Promise  : SUBSET Submission]]
          /\ outcome \in [Submission -> {"new", "pending", "served", "broken"}]
          /\ clears \in 0 .. Clears

\* the queued trampolines of key k, and the workers inside a run of it
Queued(k) == {i \in 1 .. Len(sched.Queue[tag]) : sched.Queue[tag][i] = k}
Entering(k) == {w \in Worker : pc[w] = "claim" /\ job[w] = <<k>>}
Running(k)  == {w \in Worker : pc[w] \in {"run", "settled"} /\ job[w] = <<k>>}

\* "overlapping/duplicate runs are avoided": until the first clear(), a key has one
\* run queued, entered or executing if its flags say so, and never a second one;
\* a key with submissions always has one.
OneRunPerKey ==
    clears = 0 => \A k \in Key :
        /\ Cardinality(Queued(k)) + Cardinality(Entering(k))
             = (IF Coalesce[k].bQueued THEN 1 ELSE 0)
        /\ Cardinality(Running(k)) = (IF Coalesce[k].bRunning THEN 1 ELSE 0)
        /\ ~(Coalesce[k].bQueued /\ Coalesce[k].bRunning)
        /\ Coalesce[k].Promise # {} => Scheduled(Coalesce[k])

\* "the latest callable wins": the run that will settle a submission's future runs a
\* callable submitted with it or after it, so no state change is missed - also when
\* clear() and a stale trampoline mix generations.
LatestWins ==
    \A w \in Worker : pc[w] = "run" =>
        \A s \in claim[w].Promise : claim[w].Callable >= s

\* "a shared_future<void> that completes when the run covering this submission
\* finishes", or breaks when the tag rejects the run or clear() drops it: a waiter
\* on it is never left alone, whatever the interleaving of run, rerun and clear().
EverySubmissionSettles ==
    \A s \in Submission : outcome[s] = "pending" ~> outcome[s] \in {"served", "broken"}

\* (documented, does not hold) kthreadpool.h:590 "overlapping/duplicate runs are
\* avoided": no two workers execute the callables of one key at the same time.
NoOverlap ==
    \A k \in Key : Cardinality({w \in Running(k) : pc[w] = "run" /\ claim[w].Callable # 0}) <= 1

=============================================================================
