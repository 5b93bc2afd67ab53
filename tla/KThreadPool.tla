---------------------------- MODULE KThreadPool -----------------------------
(***************************************************************************)
(* KThreadPool: worker threads that start on demand, wait on one condition *)
(* variable, are aborted one by one by a shrink and all together by a      *)
(* stop, and take their tasks from the scheduler of KThreadPoolSched.      *)
(*                                                                         *)
(* Every critical section under m_cond_mutex is one action; what a thread  *)
(* does after the unlock - running the user's task, the notify_one() of a  *)
(* push, the baton of a worker that leaves the idle wait, the shutdown     *)
(* notification - is a step of its own, so the steps interleave as the     *)
(* threads do.  m_resize_mutex nests inside m_cond_mutex wherever both     *)
(* matter; stop()'s last section holds it alone and is a separate action.  *)
(*                                                                         *)
(* Abstracted: the counters kept for diagnostics only, thread names, the   *)
(* future's value.  ma_iShrinkCounter (a shrink is tried at every 25th     *)
(* push) and the 10 seconds between shrinks are nondeterministic.          *)
(***************************************************************************)
EXTENDS KThreadPoolSched, FiniteSets

CONSTANTS
    Worker,          \* thread ids: no more threads than these can be alive
    InitOrder,       \* the tags of InitConfig, in the order of the calls
    InitSize,        \* the constructor's nThreads (0: default constructed), Growth
    InitGrowth,      \* and Shrink
    InitShrink,
    Resizes,         \* the arguments of resize(): [nThreads, Growth, Shrink]
    Kills,           \* the bKill arguments stop() is called with
    Reconfigs,       \* the (tag, config) pairs ConfigureTag is called with
    Controls,        \* of "pause" and "clear", those the callers use
    Strategies,      \* the arguments of set_strategy()
    MaxCalls         \* bound: control calls (resize, stop, ConfigureTag, ...)

Growth == {"PrestartNone", "PrestartOne", "PrestartSome", "PrestartAll"}
Shrink == {"ShrinkNever", "ShrinkSome", "ShrinkOne", "ShrinkImmediately"}
Abort  == {"None", "Resize", "Stop"}

ASSUME PoolAssumption ==
    /\ IsFiniteSet(Worker)
    /\ InitConfig \in [Tag -> TagConfig]
    /\ InitOrder \in Seq(Tag)
    /\ InitSize \in Nat /\ InitGrowth \in Growth /\ InitShrink \in Shrink
    /\ Resizes \subseteq [nThreads : Nat, Growth : Growth, Shrink : Shrink]
    /\ Kills \subseteq BOOLEAN
    /\ Reconfigs \subseteq (Tag \X TagConfig)
    /\ Strategies \subseteq (Growth \X Shrink)
    /\ MaxCalls \in Nat

VARIABLES
    size,            \* m_threads.size()
    slot,            \* a worker's place in m_threads and m_abort, 0 = in neither
    abort,           \* a worker's abort flag (it keeps a pointer to it)
    pc,              \* where a worker is
    job,             \* the tag and task a worker runs
    ma_n_idle,
    ma_interrupt,
    ma_iDetachedThreadsToFinish,
    ma_iMaxThreads,
    m_Growth,
    m_Shrink,
    notify,          \* callers that are about to notify_one() after a push
    unpausing,       \* pause(false) is about to notify_all()
    stopPc,          \* where stop() is
    resizing,        \* the resize() calls that have read n_queued()
    calls,           \* control calls so far
    status,          \* history: what became of a task
    toDrain          \* history: the tasks queued when the last stop(false) of a
                     \* pool with threads began, and whether the pool was whole:
                     \* no live thread aborted, and not paused since

threadVars == <<size, slot, abort, pc>>
poolVars   == <<ma_iMaxThreads, m_Growth, m_Shrink>>
callVars   == <<notify, unpausing, stopPc, resizing, calls>>
history    == <<status, toDrain>>
vars == <<sched, threadVars, job, ma_n_idle, ma_interrupt,
          ma_iDetachedThreadsToFinish, poolVars, callVars, history>>

\* "free": no thread or a finished one; "start": before its first lock;
\* "run": in the user's task; "wait": asleep in m_cond_var; "woken": notified,
\* about to re-lock; "baton": left the wait without a task, about to
\* notify_one(); "exit": in notify_thread_shutdown
PC == {"free", "start", "run", "wait", "woken", "baton", "exit"}

NothingToDrain == [tasks |-> {}, whole |-> FALSE]

Lesser(a, b) == IF a <= b THEN a ELSE b

-----------------------------------------------------------------------------
\* Condition variable m_cond_var

Sleepers == {w \in Worker : pc[w] = "wait"}

\* mutant: the notification reaches nobody
AfterNotifyOne_Lost == {pc}

\* the possible pc after notify_one(): one sleeper wakes, or the call is lost
AfterNotifyOne == IF Sleepers = {} THEN {pc}
                  ELSE {[pc EXCEPT ![w] = "woken"] : w \in Sleepers}

\* mutant: the notification reaches nobody
AfterNotifyAll_Lost(p) == p

AfterNotifyAll(p) ==
    [w \in Worker |-> IF p[w] = "wait" THEN "woken" ELSE p[w]]

-----------------------------------------------------------------------------
\* grow() and shrink(), called with m_cond_mutex held

\* thread ids a new thread can have
Unused == {w \in Worker : pc[w] = "free" /\ slot[w] = 0}

GrowBy(policy, iQueued, iAddMax) ==
    LET q == Lesser(iQueued, iAddMax)
    IN  CASE policy = "PrestartNone" -> q
          [] policy = "PrestartOne"  -> Lesser(q + 1, iAddMax)
          [] policy = "PrestartSome" -> Lesser(q + 10, iAddMax)
          [] policy = "PrestartAll"  -> iAddMax

\* n threads are started one after the other in the slots above size; when the
\* system gives no more threads, the pool keeps those that did start
StartThreads(n) ==
    \E T \in SUBSET Unused :
        /\ Cardinality(T) = Lesser(n, Cardinality(Unused))
        /\ \E place \in [T -> (size + 1) .. (size + Cardinality(T))] :
             /\ \A v, w \in T : place[v] = place[w] => v = w
             /\ slot' = [w \in Worker |-> IF w \in T THEN place[w] ELSE slot[w]]
        /\ size'  = size + Cardinality(T)
        /\ abort' = [w \in Worker |-> IF w \in T THEN "None" ELSE abort[w]]
        /\ pc'    = [w \in Worker |-> IF w \in T THEN "start" ELSE pc[w]]

grow(iQueued, growth, iMaxThreads) ==
    IF size < iMaxThreads
    THEN StartThreads(GrowBy(growth, iQueued, iMaxThreads - size))
    ELSE UNCHANGED threadVars

calc_shrink(policy, iHaveIdle) ==
    IF iHaveIdle = 0 THEN 0
    ELSE CASE policy = "ShrinkNever"       -> 0
           [] policy = "ShrinkSome"        -> IF iHaveIdle > 10 THEN iHaveIdle - 10
                                                                ELSE 0
           [] policy = "ShrinkOne"         -> iHaveIdle - 1
           [] policy = "ShrinkImmediately" -> iHaveIdle

\* mutants: one detached thread is counted, however many there are; the thread in
\* the slot just below is told to finish, too
DetachAbove_CountsOne(keep) ==
    LET out == {w \in Worker : slot[w] > keep}
    IN  /\ size'  = keep
        /\ slot'  = [w \in Worker |-> IF w \in out THEN 0 ELSE slot[w]]
        /\ abort' = [w \in Worker |-> IF w \in out THEN "Resize" ELSE abort[w]]
        /\ pc'    = AfterNotifyAll(pc)
        /\ ma_iDetachedThreadsToFinish' = ma_iDetachedThreadsToFinish + 1

DetachAbove_OffByOne(keep) ==
    LET out == {w \in Worker : slot[w] > keep}
    IN  /\ size'  = keep
        /\ slot'  = [w \in Worker |-> IF w \in out THEN 0 ELSE slot[w]]
        /\ abort' = [w \in Worker |-> IF slot[w] # 0 /\ slot[w] >= keep
                                      THEN "Resize" ELSE abort[w]]
        /\ pc'    = AfterNotifyAll(pc)
        /\ ma_iDetachedThreadsToFinish' =
               ma_iDetachedThreadsToFinish + (size - keep)

\* the threads above the size that remains are told to finish and detached,
\* and all sleepers are woken
DetachAbove(keep) ==
    LET out == {w \in Worker : slot[w] > keep}
    IN  /\ size'  = keep
        /\ slot'  = [w \in Worker |-> IF w \in out THEN 0 ELSE slot[w]]
        /\ abort' = [w \in Worker |-> IF w \in out THEN "Resize" ELSE abort[w]]
        /\ pc'    = AfterNotifyAll(pc)
        /\ ma_iDetachedThreadsToFinish' =
               ma_iDetachedThreadsToFinish + (size - keep)

\* bElapsed: the last resize is at least 10 seconds ago
shrink(iQueued, shrinkPolicy, iMaxThreads, bElapsed) ==
    LET forced == IF size > iMaxThreads THEN size - iMaxThreads ELSE 0
        idle   == ma_n_idle - Lesser(ma_n_idle, forced)
        extra  == IF shrinkPolicy = "ShrinkNever" \/ idle = 0 THEN 0
                  ELSE calc_shrink(shrinkPolicy, idle - Lesser(idle, iQueued))
        n      == forced + extra
    IN  IF n # 0 /\ (forced # 0 \/ bElapsed) /\ n <= size
        THEN DetachAbove(size - n)
        ELSE UNCHANGED <<threadVars, ma_iDetachedThreadsToFinish>>

\* a thread woken in order to abort has left the idle wait within 10 seconds
AbortedHaveWoken ==
    \A w \in Worker : pc[w] \in {"wait", "woken"} => abort[w] # "Resize"

-----------------------------------------------------------------------------
\* The constructor: an empty pool, the tags configured, then resize(InitSize).
\* It runs before anybody else sees the pool.

Init ==
    /\ sched = EmptySched(InitConfig, InitOrder)
    /\ LET n == Lesser(GrowBy(InitGrowth, 0, InitSize), Cardinality(Worker))
       IN  \E place \in [Worker -> 0 .. n] :
             /\ \A i \in 1 .. n : \E w \in Worker : place[w] = i
             /\ \A v, w \in Worker : place[v] = place[w] /\ place[v] # 0 => v = w
             /\ slot = place
             /\ size = n
             /\ pc = [w \in Worker |-> IF place[w] = 0 THEN "free" ELSE "start"]
    /\ abort = [w \in Worker |-> "None"]
    /\ job \in [Worker -> {<<>>}]
    /\ ma_n_idle = 0
    /\ ma_interrupt = FALSE
    /\ ma_iDetachedThreadsToFinish = 0
    /\ ma_iMaxThreads = InitSize
    /\ m_Growth = InitGrowth
    /\ m_Shrink = InitShrink
    /\ notify = 0
    /\ unpausing = FALSE
    /\ stopPc = "idle"
    /\ resizing = {}
    /\ calls = 0
    /\ status = [k \in Task |-> "new"]
    /\ toDrain = NothingToDrain

-----------------------------------------------------------------------------
\* Pushing

\* stats, growth and shrinking after a successful enqueue
bookkeep_enqueue(iWaiting) ==
    IF ma_interrupt
    THEN UNCHANGED <<threadVars, ma_iDetachedThreadsToFinish>>
    ELSE IF ma_n_idle = 0
    THEN /\ grow(iWaiting, m_Growth, ma_iMaxThreads)
         /\ UNCHANGED ma_iDetachedThreadsToFinish
    ELSE \/ UNCHANGED <<threadVars, ma_iDetachedThreadsToFinish>>
         \/ /\ iWaiting <= 1                        \* every 25th time
            /\ \E bElapsed \in {FALSE, AbortedHaveWoken} :
                 shrink(iWaiting, m_Shrink, ma_iMaxThreads, bElapsed)

\* push() and PushTagged() up to the unlock
push_to_tag(tag, k) ==
    /\ status[k] = "new"
    /\ LET r == sched_enqueue(sched, tag, k)
       IN  /\ sched' = r.sched
           /\ IF r.bAccepted
              THEN /\ status' = [j \in Task |->
                         CASE j = k -> "queued"
                           [] r.dropped = <<j>> -> "broken"
                           [] OTHER -> status[j]]
                   /\ bookkeep_enqueue(r.sched.m_iTotalQueued)
                   /\ notify' = notify + 1
              ELSE /\ status' = [status EXCEPT ![k] = "broken"]
                   /\ UNCHANGED <<threadVars, ma_iDetachedThreadsToFinish, notify>>
    /\ UNCHANGED <<job, ma_n_idle, ma_interrupt, poolVars,
                   unpausing, stopPc, resizing, calls, toDrain>>

\* ... and the notify_one() after it
NotifyPushed ==
    /\ notify > 0
    /\ notify' = notify - 1
    /\ pc' \in AfterNotifyOne
    /\ UNCHANGED <<sched, size, slot, abort, job, ma_n_idle, ma_interrupt,
                   ma_iDetachedThreadsToFinish, poolVars,
                   unpausing, stopPc, resizing, calls, history>>

-----------------------------------------------------------------------------
\* The worker's loop (the lambda in run_thread)

\* w leaves the critical section with the task of dequeue result r
TakeTask(w, r, p) ==
    /\ sched' = r.sched
    /\ pc'  = [p EXCEPT ![w] = "run"]
    /\ job' = [job EXCEPT ![w] = <<r.tag, r.task>>]

\* nothing to run and not waiting yet: leave on interrupt, else enter the wait,
\* whose predicate is evaluated at once
GoIdle(w, r, p) ==
    /\ sched' = r.sched
    /\ job' = [job EXCEPT ![w] = <<>>]
    /\ IF ma_interrupt
       THEN pc' = [p EXCEPT ![w] = "exit"] /\ UNCHANGED ma_n_idle
       ELSE IF abort[w] # "None"
       THEN pc' = [p EXCEPT ![w] = "baton"] /\ UNCHANGED ma_n_idle
       ELSE pc' = [p EXCEPT ![w] = "wait"] /\ ma_n_idle' = ma_n_idle + 1

\* a new thread takes the lock for the first time; it does not look at its flag
WorkerStart(w) ==
    /\ pc[w] = "start"
    /\ LET r == sched_dequeue(sched)
       IN  IF r.bFound
           THEN /\ TakeTask(w, r, pc)
                /\ status' = [status EXCEPT ![r.task] = "running"]
                /\ UNCHANGED ma_n_idle
           ELSE GoIdle(w, r, pc) /\ UNCHANGED status
    /\ UNCHANGED <<size, slot, abort, ma_interrupt, ma_iDetachedThreadsToFinish,
                   poolVars, callVars, toDrain>>

\* the task returned or threw: account for it, pass on the freed slot, then
\* finish if aborted, else look for the next task
WorkerFinish(w) ==
    /\ pc[w] = "run"
    /\ LET done == sched_task_done(sched, job[w][1])
           r    == sched_dequeue(done.sched)
           ran  == [status EXCEPT ![job[w][2]] = "done"]
       IN  \E p \in (IF done.bWake THEN AfterNotifyOne ELSE {pc}) :
             IF abort[w] # "None"
             THEN /\ sched' = done.sched
                  /\ pc'  = [p EXCEPT ![w] = "exit"]
                  /\ job' = [job EXCEPT ![w] = <<>>]
                  /\ status' = ran
                  /\ UNCHANGED ma_n_idle
             ELSE IF r.bFound
             THEN /\ TakeTask(w, r, p)
                  /\ status' = [ran EXCEPT ![r.task] = "running"]
                  /\ UNCHANGED ma_n_idle
             ELSE GoIdle(w, r, p) /\ status' = ran
    /\ UNCHANGED <<size, slot, abort, ma_interrupt, ma_iDetachedThreadsToFinish,
                   poolVars, callVars, toDrain>>

\* a notified worker re-locks and evaluates the wait predicate: its own flag
\* first, then the queue, then the interrupt
WorkerWake(w) ==
    /\ pc[w] = "woken"
    /\ LET r == sched_dequeue(sched)
       IN  IF abort[w] # "None"
           THEN /\ pc' = [pc EXCEPT ![w] = "baton"]
                /\ ma_n_idle' = ma_n_idle - 1
                /\ UNCHANGED <<sched, job, status>>
           ELSE IF r.bFound
           THEN /\ TakeTask(w, r, pc)
                /\ ma_n_idle' = ma_n_idle - 1
                /\ status' = [status EXCEPT ![r.task] = "running"]
           ELSE /\ sched' = r.sched
                /\ IF ma_interrupt
                   THEN /\ pc' = [pc EXCEPT ![w] = "baton"]
                        /\ ma_n_idle' = ma_n_idle - 1
                   ELSE /\ pc' = [pc EXCEPT ![w] = "wait"]
                        /\ UNCHANGED ma_n_idle
                /\ UNCHANGED <<job, status>>
    /\ UNCHANGED <<size, slot, abort, ma_interrupt, ma_iDetachedThreadsToFinish,
                   poolVars, callVars, toDrain>>

\* the worker leaving the wait passes on the wakeup it may have consumed
WorkerBaton(w) ==
    /\ pc[w] = "baton"
    /\ \E p \in AfterNotifyOne : pc' = [p EXCEPT ![w] = "exit"]
    /\ UNCHANGED <<sched, size, slot, abort, job, ma_n_idle, ma_interrupt,
                   ma_iDetachedThreadsToFinish, poolVars, callVars, history>>

\* notify_thread_shutdown, and the thread ends (a detached one drops its flag)
WorkerExit(w) ==
    /\ pc[w] = "exit"
    /\ pc' = [pc EXCEPT ![w] = "free"]
    /\ IF abort[w] = "Resize"
       THEN /\ ma_iDetachedThreadsToFinish' = ma_iDetachedThreadsToFinish - 1
            /\ abort' = [abort EXCEPT ![w] = "None"]
       ELSE UNCHANGED <<ma_iDetachedThreadsToFinish, abort>>
    /\ UNCHANGED <<sched, size, slot, job, ma_n_idle, ma_interrupt,
                   poolVars, callVars, history>>

\* std::condition_variable may wake a sleeper without a notification
SpuriousWakeup(w) ==
    /\ pc[w] = "wait"
    /\ pc' = [pc EXCEPT ![w] = "woken"]
    /\ UNCHANGED <<sched, size, slot, abort, job, ma_n_idle, ma_interrupt,
                   ma_iDetachedThreadsToFinish, poolVars, callVars, history>>

-----------------------------------------------------------------------------
\* Control calls

Call == calls < MaxCalls /\ calls' = calls + 1

\* resize() reads n_queued() under the lock, and unlocks
ResizeBegin(args) ==
    /\ Call
    /\ resizing' = resizing \cup {[args |-> args, iQueued |-> sched.m_iTotalQueued]}
    /\ UNCHANGED <<sched, threadVars, job, ma_n_idle, ma_interrupt,
                   ma_iDetachedThreadsToFinish, poolVars, notify, unpausing,
                   stopPc, history>>

\* ... then takes both locks, and refuses while a stop() joins the threads
ResizeLocked(call) ==
    /\ resizing' = resizing \ {call}
    /\ IF ma_interrupt
       THEN UNCHANGED <<threadVars, poolVars, ma_iDetachedThreadsToFinish>>
       ELSE /\ m_Growth' = call.args.Growth
            /\ m_Shrink' = call.args.Shrink
            /\ ma_iMaxThreads' = call.args.nThreads
            /\ IF size <= call.args.nThreads
               THEN /\ grow(call.iQueued, call.args.Growth, call.args.nThreads)
                    /\ UNCHANGED ma_iDetachedThreadsToFinish
               ELSE shrink(call.iQueued, call.args.Shrink, call.args.nThreads, FALSE)
    /\ UNCHANGED <<sched, job, ma_n_idle, ma_interrupt, notify, unpausing,
                   stopPc, calls, history>>

\* stop(bKill) up to the unlock.  One thread at a time calls stop() (two would
\* both join the threads), and never a worker.
StopBegin(bKill) ==
    /\ Call
    /\ stopPc = "idle"
    /\ stopPc' = "notify"
    /\ ma_interrupt' = TRUE
    /\ abort' = IF bKill
                THEN [w \in Worker |-> IF slot[w] # 0 THEN "Stop" ELSE abort[w]]
                ELSE abort
    /\ toDrain' = IF bKill \/ size = 0 THEN NothingToDrain
                  ELSE [tasks |-> {k \in Task : status[k] = "queued"},
                        whole |-> /\ ~sched.m_bQueuePaused
                                  /\ \A w \in Worker : abort[w] # "Resize"]
    /\ UNCHANGED <<sched, size, slot, pc, job, ma_n_idle,
                   ma_iDetachedThreadsToFinish, poolVars, notify, unpausing,
                   resizing, status>>

StopNotify ==
    /\ stopPc = "notify"
    /\ stopPc' = "join"
    /\ pc' = AfterNotifyAll(pc)
    /\ UNCHANGED <<sched, size, slot, abort, job, ma_n_idle, ma_interrupt,
                   ma_iDetachedThreadsToFinish, poolVars, notify, unpausing,
                   resizing, calls, history>>

\* mutant: the threads are not joined
StopJoin_Detaches ==
    /\ stopPc = "join"
    /\ stopPc' = "detached"
    /\ UNCHANGED <<sched, threadVars, job, ma_n_idle, ma_interrupt,
                   ma_iDetachedThreadsToFinish, poolVars, notify, unpausing,
                   resizing, calls, history>>

\* join() of every thread in m_threads
StopJoin ==
    /\ stopPc = "join"
    /\ \A w \in Worker : slot[w] # 0 => pc[w] = "free"
    /\ stopPc' = "detached"
    /\ UNCHANGED <<sched, threadVars, job, ma_n_idle, ma_interrupt,
                   ma_iDetachedThreadsToFinish, poolVars, notify, unpausing,
                   resizing, calls, history>>

\* the wait for the detached threads is over: the final section
StopReturn ==
    /\ stopPc = "detached"
    /\ ma_iDetachedThreadsToFinish = 0
    /\ stopPc' = "idle"
    /\ size' = 0
    /\ slot' = [w \in Worker |-> 0]
    /\ abort' = [w \in Worker |-> IF pc[w] = "free" THEN "None" ELSE abort[w]]
    /\ ma_n_idle' = 0
    /\ ma_interrupt' = FALSE
    /\ toDrain' = NothingToDrain
    /\ UNCHANGED <<sched, pc, job, ma_iDetachedThreadsToFinish, poolVars, notify,
                   unpausing, resizing, calls, status>>

pause(bYesNo) ==
    /\ "pause" \in Controls
    /\ Call
    /\ sched' = [sched EXCEPT !.m_bQueuePaused = bYesNo]
    /\ unpausing' = (unpausing \/ ~bYesNo)
    /\ toDrain' = [toDrain EXCEPT !.whole = @ /\ ~bYesNo]
    /\ UNCHANGED <<threadVars, job, ma_n_idle, ma_interrupt,
                   ma_iDetachedThreadsToFinish, poolVars, notify, stopPc,
                   resizing, status>>

NotifyUnpaused ==
    /\ unpausing
    /\ unpausing' = FALSE
    /\ pc' = AfterNotifyAll(pc)
    /\ UNCHANGED <<sched, size, slot, abort, job, ma_n_idle, ma_interrupt,
                   ma_iDetachedThreadsToFinish, poolVars, notify, stopPc,
                   resizing, calls, history>>

\* the dropped tasks are destroyed, which breaks their futures
clear ==
    /\ "clear" \in Controls
    /\ Call
    /\ sched' = Cleared(sched)
    /\ status' = [k \in Task |-> IF status[k] = "queued" THEN "broken"
                                                         ELSE status[k]]
    /\ UNCHANGED <<threadVars, job, ma_n_idle, ma_interrupt,
                   ma_iDetachedThreadsToFinish, poolVars, notify, unpausing,
                   stopPc, resizing, toDrain>>

set_strategy(growth, shrinkPolicy) ==
    /\ Call
    /\ m_Growth' = growth
    /\ m_Shrink' = shrinkPolicy
    /\ UNCHANGED <<sched, threadVars, job, ma_n_idle, ma_interrupt,
                   ma_iDetachedThreadsToFinish, ma_iMaxThreads, notify,
                   unpausing, stopPc, resizing, history>>

\* notifies nobody
ConfigureTag(tag, config) ==
    /\ Call
    /\ sched' = ConfigureTagTo(sched, tag, config)
    /\ UNCHANGED <<threadVars, job, ma_n_idle, ma_interrupt,
                   ma_iDetachedThreadsToFinish, poolVars, notify, unpausing,
                   stopPc, resizing, history>>

-----------------------------------------------------------------------------

WorkerStep(w) == \/ WorkerStart(w)
                 \/ WorkerFinish(w)
                 \/ WorkerWake(w)
                 \/ WorkerBaton(w)
                 \/ WorkerExit(w)

Next == \/ \E t \in Tag, k \in Task : push_to_tag(t, k)
        \/ NotifyPushed
        \/ \E w \in Worker : WorkerStep(w) \/ SpuriousWakeup(w)
        \/ \E args \in Resizes : ResizeBegin(args)
        \/ \E call \in resizing : ResizeLocked(call)
        \/ \E bKill \in Kills : StopBegin(bKill)
        \/ StopNotify
        \/ StopJoin
        \/ StopReturn
        \/ \E b \in BOOLEAN : pause(b)
        \/ NotifyUnpaused
        \/ clear
        \/ \E s \in Strategies : set_strategy(s[1], s[2])
        \/ \E c \in Reconfigs : ConfigureTag(c[1], c[2])

Spec == Init /\ [][Next]_vars

\* threads are scheduled, tasks end, and a call that was begun is completed;
\* nobody has to push, and no spurious wakeup ever has to come
Fairness == /\ \A w \in Worker : WF_vars(WorkerStep(w))
            /\ WF_vars(NotifyPushed)
            /\ WF_vars(NotifyUnpaused)
            /\ WF_vars(\E call \in resizing : ResizeLocked(call))
            /\ WF_vars(StopNotify)
            /\ WF_vars(StopJoin)
            /\ WF_vars(StopReturn)

FairSpec == Spec /\ Fairness

-----------------------------------------------------------------------------
\* Properties

TypeOK ==
    /\ sched \in Sched
    /\ size \in Nat
    /\ slot \in [Worker -> Nat]
    /\ abort \in [Worker -> Abort]
    /\ pc \in [Worker -> PC]
    /\ job \in [Worker -> {<<>>} \cup (Tag \X Task)]
    /\ ma_n_idle \in Nat
    /\ ma_interrupt \in BOOLEAN
    /\ ma_iDetachedThreadsToFinish \in Nat
    /\ ma_iMaxThreads \in Nat /\ m_Growth \in Growth /\ m_Shrink \in Shrink
    /\ notify \in Nat
    /\ unpausing \in BOOLEAN
    /\ stopPc \in {"idle", "notify", "join", "detached"}
    /\ resizing \subseteq [args : [nThreads : Nat, Growth : Growth, Shrink : Shrink],
                           iQueued : Nat]
    /\ calls \in Nat
    /\ toDrain \in [tasks : SUBSET Task, whole : BOOLEAN]
    /\ status \in [Task -> {"new", "queued", "running", "done", "broken"}]

RunningFor(t) == {w \in Worker : pc[w] = "run" /\ job[w][1] = t}

\* A tag's iRunning, raised in sched_dequeue by one worker and lowered in
\* sched_task_done by it much later, is the number of workers inside a task of
\* the tag, through shrinks, kills and restarts in between.  A count that drifts
\* up closes a capped tag for good; one that drifts down breaks its cap.
RunningExact ==
    \A t \in Tag : sched.iRunning[t] = Cardinality(RunningFor(t))

\* "at most 4 of these run at once": the workers really inside tasks of a capped
\* tag never exceed iMaxConcurrency (while nobody reconfigures the tag).
CapRespected ==
    \A t \in Tag : sched.Config[t].iMaxConcurrency # 0 =>
        Cardinality(RunningFor(t)) <= sched.Config[t].iMaxConcurrency

\* ma_n_idle counts the threads inside the idle wait.  push() grows the pool only
\* when it is 0: one count too many, and tasks wait beside an ungrown pool.
IdleExact ==
    ma_n_idle = Cardinality({w \in Worker : pc[w] \in {"wait", "woken"}})

\* ma_iDetachedThreadsToFinish counts the threads a shrink detached that have not
\* ended: only this makes stop() wait for threads it cannot join.
DetachedExact ==
    ma_iDetachedThreadsToFinish =
        Cardinality({w \in Worker : pc[w] # "free" /\ abort[w] = "Resize"})

CountersExact == RunningExact /\ IdleExact /\ DetachedExact

\* the tasks of each tag that run, and those that ended or were not run
RunningTasks == [t \in Tag |-> {job[w][2] : w \in RunningFor(t)}]
Settled      == {k \in Task : status[k] \in {"done", "broken"}}

\* Seen without its threads, the pool is a KTaskPool: first in first out per tag, no
\* task started twice, no tag above its cap, no task vanishing - through growth,
\* shrinks, kills and restarts (without a later ConfigureTag, which may change a cap).
TaskPool == INSTANCE KTaskPool WITH
    Cap     <- [t \in Tag |-> InitConfig[t].iMaxConcurrency],
    pending <- sched.Queue,
    running <- RunningTasks,
    settled <- Settled

ImplementsTaskPool == TaskPool!Spec

\* m_threads holds size threads in slots 1 .. size, and every other live thread is
\* one that a shrink detached: no thread is ever forgotten.
EveryThreadAccountedFor ==
    /\ \A i \in 1 .. size : \E w \in Worker : slot[w] = i
    /\ \A v, w \in Worker : slot[v] = slot[w] /\ slot[v] # 0 => v = w
    /\ \A w \in Worker : /\ slot[w] <= size
                         /\ pc[w] # "free" => (slot[w] = 0 <=> abort[w] = "Resize")

\* No wakeup is lost: while a task could start and an unaborted worker sleeps, some
\* wakeup is still under way - a notify_one() or notify_all() about to be issued, a
\* worker that was woken, is starting, or is about to pass its wakeup on.
\* This is what the notify_one() before the abort check and the baton of a worker
\* that leaves the wait are for.
WakeupUnderWay == \/ notify > 0
                  \/ unpausing
                  \/ stopPc = "notify"
                  \/ \E w \in Worker : pc[w] \in {"woken", "start", "baton"}

\* Nor does a worker sleep through an order to finish: it is awake, or the
\* notify_all() of stop() is still to come.  (The lost wakeup that once hung stop()
\* in join(), see the comment there.)
NoLostWakeup ==
    /\ Runnable(sched) /\ (\E w \in Sleepers : abort[w] = "None") => WakeupUnderWay
    /\ \A w \in Sleepers : abort[w] # "None" \/ ma_interrupt => stopPc = "notify"

\* When stop() returns, no worker thread is alive, detached ones included: the pool
\* may be destroyed.
StopLeavesNoThread ==
    [][ma_interrupt /\ ~ma_interrupt' => \A w \in Worker : pc'[w] = "free"]_vars

\* stop(false) drains a whole pool: of the tasks that were queued when it began none
\* is left in the queue when it returns, whatever caps the tags have.
DrainedByStop ==
    [][ma_interrupt /\ ~ma_interrupt' /\ toDrain.whole =>
         \A k \in toDrain.tasks : status[k] # "queued"]_vars

\* Every accepted task leaves the queue - it is started, or evicted by DropOldest or
\* clear() - whatever resizes and stops go on, unless the pool is left without
\* threads, or paused.
EveryTaskServed ==
    \A k \in Task : status[k] = "queued" ~>
        status[k] # "queued" \/ size = 0 \/ sched.m_bQueuePaused

\* stop() returns: every thread it waits for ends, whatever it was doing.
StopReturns == stopPc # "idle" ~> stopPc = "idle"

-----------------------------------------------------------------------------
\* What the documentation of KThreadPool promises and the code does not keep

\* resize(nThreads): "@param nThreads number of total threads" - the pool never holds
\* more threads than the last resize() that returned true asked for.
SizeWithinMax == size <= ma_iMaxThreads

\* stop(false): "all the tasks in the queue are run".
AllTasksRunByStop ==
    [][ma_interrupt /\ ~ma_interrupt' =>
         \A k \in toDrain.tasks : status[k] # "queued"]_vars

\* A task that could start does not wait, once all is quiet, in a pool that has no
\* thread but may have one.
NotStranded ==
    \A k \in Task : status[k] = "queued" ~>
        status[k] # "queued" \/ ma_iMaxThreads = 0

=============================================================================
