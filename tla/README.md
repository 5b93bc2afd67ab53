# TLA+ models of dekaf2

dekaf2 is a C++ library and application framework: strings, formats, network
protocols, REST servers, SQL, cryptography. Most of it is sequential data
processing. What is hard to get right and hard to test is the part where threads
meet: the thread pool that runs the server's requests and the background work,
the timer that everything periodic hangs on, the pool of shared objects
(database connections, mostly), the job scheduler, limiters, tunnels and caches.
This project models that part in TLA+, checks it with TLC and proves central
invariants with TLAPS.

Paths are relative to the repository; `pool.cpp`, `pool.h` stand for
`source/threading/execution/kthreadpool.{cpp,h}`, `ktimer.*` for
`source/time/duration/ktimer.*`, `kpool.h` for `source/containers/memory/kpool.h`, `kron.*` for
`source/time/scheduler/kron.*`, `kbasepipe.cpp` for `source/system/process/bits/kbasepipe.cpp`, `kmailspool.*`
for `source/util/mail/kmailspool.*`, `ksession*.*` for `source/crypto/auth/ksession.*` and its stores in `bits/`, and `ktunnel.*` for
`source/net/util/ktunnel.*`.

Contents: [1 Inventory](#1-inventory) - [2 Modules](#2-modules-and-how-they-follow-the-code) -
[3 Runs](#3-what-is-checked) - [4 Proofs](#4-what-is-proved) -
[5 What the models found](#5-where-code-and-documentation-disagree) -
[6 Not modelled](#6-what-is-not-modelled) - [7 Plan](#7-plan) - [8 Running](#8-running-it)

## 1 Inventory

### Components that keep state several threads share

| component | state | operations | interacts with | hard behaviour | what makes it correct |
|---|---|---|---|---|---|
| **Scheduler of KThreadPool** (`sched_*`, pool.cpp) | tags with policy, FIFO sub-queue, deficit, running count; round-robin order and cursor; total | enqueue, dequeue, task done, ConfigureTag, clear | called by pool and workers with `m_cond_mutex` held | tags that empty, overflow, hit their cap or are reconfigured in mid-round | shares by weight, no tag starved, exact counts |
| **KThreadPool** | threads, abort flags, idle and detached counters, interrupt flag, limits, condition variable | push, resize (grow, shrink), stop, pause, clear, set_strategy, ConfigureTag; the worker loop | tasks are user code; KTimer, REST server, TCP server, web push hand it work | lost wakeups, aborted workers beside queued tasks, threads nobody can join, stop against push | every task ends exactly once, caps are kept, no thread outlives `stop()` |
| **PushCoalesced** | per tag and key: callable, promise, running and queued flags | submit, claim, complete, clear | its trampoline is a task of the pool | submissions while the run claims, executes, completes; rejected rerun | one run per key, the latest callable wins, each future settles |
| **KTimer** | map of timers, control block per timer (cancelled, running), in-flight count, pause/added/shutdown flags | CallOnce, CallEvery, Cancel, Restart, Pause, Resume, destructor; timing loop; callbacks | callbacks call back into the timer; detached threads | cancel against an extracted callback, destructor against detached threads, deadline cached while sleeping | cancel is final, nothing due is forgotten, every call returns |
| **KSharedPool** | pooled objects, used count, limits, usage window | get, deleter, put, disable, max_size | user's Create(), destroy() and notify hooks run unlocked | slots reserved before the object exists, failing Create(), pooling disabled with objects out | exact count, limit kept, nobody waits beside a free object |
| **Kron** (`kron.*`) | job list by next execution, running jobs, a child process and a pipe per job | AddJob, DeleteJob, KillJob, destructor; the launcher thread | child processes, users' threads | a process ID that was reaped, a child that waits for its reader, a start that fails halfway | no child lost or killed in place of another, one run of a job at a time, each run ends |
| **KRateLimiter, KConnectionLimiter** (`rest/limits`) | token buckets, per-key counts | Check, Acquire/Release guards | REST server threads | clock read before the lock; guard released twice | never above the limit, counts return to zero |
| **KTCPServer, KRESTServer** | accept threads, open connections, shutdown flag | Start, Stop, accept, session | KThreadPool, signals | stop against accept | Stop returns, no session lost |
| **KTunnel** (`ktunnel.*`) | out queue and stream of the tunnel; per connection a message queue, pause flags, an interruptor | Connect, Run, Pump, messages connect, data, pause, resume, disconnect; Stop | a second KTunnel, the streams outside, KTimer for pings | a poll that misses what another thread queued; close and pause against data on the way | each connection is a pair of ordered byte pipes, both ends close |
| **KSession stores** (`ksession*.*`) | sessions, a write-behind cache in front of a database | create, validate, touch, update, logout, purge | KTimer, KSQL or SQLite, requests in parallel | stale copies, late touches, unwritten time stamps, failing statements | cache and database agree, an expired or ended session is not accepted |
| **KMailSpool** (`kmailspool.*`) | queue of fresh mails, retry queue, spool directory, a thread on demand | Add, deliver, spool, retry, destructor, restart | file system, SMTP relay | crash between an answer and the removal of the file; a thread that ends while a mail comes | no mail lost, none sent twice without need, none waits for ever |
| **KLockMap, KCache, KMRU** | per-key locks with use counts; cached values | lock, unlock; get, erase | callers' loaders | erase of a lock in use | mutual exclusion per key |

### Components without concurrency of their own

Child processes and shared memory (wrappers of system calls), logging and program
start, HTTP client and server protocol code and its HTTP/2 and HTTP/3 bindings,
WebSocket, UDP/DTLS/MQTT, SQL generation and database bindings, ACME and web push
managers, KThreads and KParallel, reference counts and lock wrappers, and the bulk of
the library (strings, formats, crypto, streams, JSON, XML, CSV, HTML). Section 6 says
why each is left out. `PROJECT.json` lists every component with its sources.

### Hazards

`PROJECT.json` lists 40 hazards with the line where each bites and the properties
that would notice. The ones that shaped the models:

- a wakeup that is lost between a predicate and the sleep, consumed by a thread that
  leaves, or never sent (pool.cpp:508, 616, 671; kpool.h:584);
- counters kept by hand over long paths: running tasks of a tag, idle threads, detached
  threads, used objects, callbacks in flight (pool.cpp:863, 539, 358; kpool.h:486, 508);
- numbers read under one lock and used under another (pool.cpp:193, 327; ktimer.cpp:431);
- waiting for somebody who may wait for us (ktimer.cpp:252, 259, 429);
- user code running unlocked between two critical sections (pool.cpp:1032, 1080;
  ktimer.cpp:250; kpool.h:486);
- a process that dies, or a statement or write that fails, between two effects that belong
  together (kmailspool.cpp:358, 440; ksessioncachingstore.cpp:275, 280);
- decisions on a copy that is stale when they take effect (ksession.cpp:225, 234; kron.cpp:885);
- messages that overtake each other, polls that nobody ends, and a lock kept by who is blocked in the
  midst of a message (ktunnel.cpp:468, 494, 583, 964, 968, 1763).

## 2 Modules, and how they follow the code

    KThreadPoolSched            the sched_* functions as operators on the state `sched`
      |-- KThreadPoolDRR        + pushes and completions: fairness of the scheduler
      |-- KThreadPool           + worker threads, growth, shrinking, stop
      |     `-- (INSTANCE) KTaskPool       what the pool promises, abstractly
      `-- KThreadPoolCoalesce   + PushCoalesced
    KTimer, KSharedPool         stand alone
    Kron                        launcher, scheduler, child processes and pipes
    KMailSpool  -- (INSTANCE) KMailQueue       what a spool promises about mail
    KSession    -- (INSTANCE) KSessionStore    sessions in one simple store
    KTunnel     -- (INSTANCE) KTunnelPipes     connections as pairs of byte pipes
    MC<module>                  instances for TLC
    <module>_proofs             theorems: of KThreadPool (with the scheduler and KThreadPoolDRR),
                                KThreadPoolCoalesce, KTimer, KSharedPool, Kron, KMailSpool, KSession
                                and KTunnel

Conventions. Variables and operators keep the names of the source (`ma_n_idle`,
`sched_dequeue`, `m_bIsPaused`). **A critical section is one action**: what a thread does
under a mutex is a single step, what it does after the unlock (a notify, the user's
callback, the next lock) is a step of its own, so steps of different threads interleave
as they do in the program. A thread's position is its entry in `pc` (or `call`, `stopPc`),
with the place in the code given beside the declaration. Variables marked `history` exist
for properties only and no guard reads them, except to bound the state space. An operator
marked `mutant:` is no part of the model: it is the definition after it with a plausible
bug put in, to show that the properties notice.

### KThreadPoolSched

The scheduler's state is one record: `m_Tags` split into four functions (`Config`, `Queue`,
`iDeficit`, `iRunning`), `m_TagOrder`, `m_iTagCursor` (from 0), `m_iTotalQueued`,
`m_bQueuePaused`. Since `m_cond_mutex` is held in every `sched_*` function, each is a function
from record to record (with a result): `sched_tag` (registration on first use),
`sched_enqueue` (bound and overflow policy, DropOldest or Reject), `sched_dequeue` (the
round-robin scan: forfeit of empty tags, capped tags skipped, quantum added, one task
charged, cursor kept while deficit is left), `sched_task_done`, `ConfigureTagTo` (weight 0
clamped to 1) and `Cleared`. The scan is written without recursion: the cursor goes to the
nearest serviceable tag, and the tags passed over forfeit their deficit, as in the loop. The
counters for diagnostics are left out.

### KThreadPoolDRR

The scheduler under an endless stream of submissions (`Push`, `Serve`, `Finish`, `Configure`, `Pause`,
`Clear`); who dequeues is left out, only `MaxWorkers` tasks may run. `bypass[t]` counts the dequeues of
other tags while `t` was serviceable; `share` counts what each tag was served while all were backlogged
and below their caps (whole rounds are taken out, so it stays finite).

### KThreadPool

| code | model |
|---|---|
| `push`, `push_to_tag` (pool.cpp:880 ff.): overflow, enqueue, grow or shrink | `push_to_tag(t, k)`; the `notify_one()` after the unlock is `NotifyPushed` |
| `resize()`: `n_queued()` before the locks, then grow or shrink under them | `ResizeBegin`, `ResizeLocked`; `GrowBy`, `ShrinkBy` |
| `run_thread` (pool.cpp:530 ff.) | `WorkerStart` (first lock), `WorkerFinish` (task ends, abort check, next task), `WorkerWake` (predicate after a wakeup), `WorkerBaton` (pass a wakeup on), `WorkerExit` (`notify_thread_shutdown`) |
| condition variable | `pc = "wait"`, `AfterNotifyOne`, `AfterNotifyAll`, `SpuriousWakeup` |
| `stop(bKill)` | `StopBegin`, `StopNotify`, `StopJoin` (joins all attached threads), `StopReturn` (waits for the detached ones) |
| `pause`, `clear`, `set_strategy`, `ConfigureTag` | actions of the same names; the `notify_all()` of `pause(false)` is `NotifyUnpaused` |

A thread's identity is a member of `Worker`; `slot` is its index in `m_threads` and
`m_abort`, whose elements are created and dropped together. A shrink detaches a thread
(slot 0) but the thread keeps its flag (`abort`). Abstracted: counters for diagnostics,
names, values of futures; whether a push tries to shrink (`ma_iShrinkCounter`, every 25th) and
whether ten seconds have passed since the last shrink are choices.

### KTaskPool

The promise, without threads: a first-in first-out queue per tag, at most `Cap[t]` tasks of a
capped tag running, a task starts at most once, and what does not run was rejected,
evicted by a newer task of its tag or cleared. `KThreadPool` instantiates it
(`TaskPool == INSTANCE KTaskPool WITH ...`): `pending` is the scheduler's sub-queue, `running` the
jobs of the workers inside a task, `settled` the tasks done or broken. The abstract `Finish` lets
a thread take its next task in the same step, as `run_thread` does under one lock.

### KThreadPoolCoalesce

`Coalesce[key]` is the code's `CoalesceState` (callable, promise, `bRunning`, `bQueued`); a promise
is the set of submissions sharing it, a callable the number of its submission. The
trampoline `run_coalesce` goes through the real scheduler operators, among plain tasks
that fill the bounded queue. It locks twice: `Claim` moves the generation out, `Complete`
queues the rerun or erases the key; between them the user's callable runs and
`SettlePromise` settles the futures, unlocked. `clear()` breaks what is pending.

### KTimer

| code | model |
|---|---|
| `AddTimer` (ktimer.cpp:134 ff.) | `AddTimerCall`, with the lazy start of the timing thread under `m_ThreadCreationMutex` |
| `Cancel` | `Cancel` (erase from the map), then the call phases `mark` (set `bCancelled`) and `drain` (wait for running callbacks, its own excluded) |
| `Restart`, `Pause`, `Resume`, `~KTimer` | actions and call phases of those names; `join`, `flight` are the destructor's waits |
| `TimingLoop` | `LoopStart`, sleeping, `scan`, `run` the due list, again; `known` stands for the deadline cached in `tNextTimer` |
| callbacks | `RunDueInline`, `RunDueOwnThread` and the thread's steps `launched`, `callback`, `leave` |

Time is abstract: a timer in the map may become due at any moment (`Expire`), `Restart()` takes
that back. `m_ThreadCreationMutex` is a variable, because `Pause()` and the destructor keep it while
they wait; the other mutexes are never held across a wait and make their critical
sections single steps.

### KSharedPool

Objects are alike and counted. A `get()` is `Get` (the call), `Wait` (the predicate, under the
mutex: take, reserve a slot, create without one if pooling is disabled, or sleep), `Create`
(user code, unlocked, may fail), `ReleaseSlotOnFailure` and `CountFresh` (the second lock); the
smart pointer's end is `Deleter`. `iIntervals` selects fixed or dynamic sizing. The time
series behind dynamic sizing is reduced to `observed`, the set of maxima its sliding
window may have: those of the suffixes of what was recorded. `lax` is a history variable: the
pool was disabled once, or its limit was lowered.

### Kron

| code | model |
|---|---|
| `LocalScheduler` (kron.cpp:544 ff.) | `AddJob`, `DeleteJob`, `GetJob`, one critical section each; `ModifyJob` is the first two |
| `Launcher`, `StartNewJobs` | `Round` (start, look after running jobs, sleep or leave), `TakeJob` |
| `Job::Start` and `KBasePipe::Open` | `StartSkipped` (still running), `StartFails`, `StartOpens` (pipe and fork), `StartAsks` (the exit code it asks for), then `Push` into `m_RunningJobs` |
| `FinishWaitingJobs` | `KillIfOverdue`, `IsWaiting` (reaps the child), `Wait` (reads the output, closes), for one job after the other, under one lock (`Locked`) |
| `KillJob`, `~Kron` | `KillJob`, `Stop` and the launcher's last rounds |

Time is abstract: a job comes due (`Expire`), a run exceeds its limit (`Overdue`). A command of `Verbose`
fills its pipe and cannot end by itself, one of `Lingering` leaves a process that holds
the pipe open. `stray` records a signal to a process ID that was already reaped. Cron expressions are pure
parsing and left out; a single-time job is added with its time in the future or come.

### KMailSpool and KMailQueue

| code | model |
|---|---|
| constructor, `LoadSpool` | `Construct`: the entries of the directory, temporary files removed |
| `Add` | `Add`: push, start the thread or wake it |
| `Run` (the thread) | `Lock`, `Wake`, `TimeOut`, `Round` (what is due, what is fresh), `Deliver`'s steps, `Merge` |
| `Deliver` | per mail `Attempt` (any answer, none, or no connection), `SettleDue`, `SettleFresh` |
| `Spool` | `SpoolWrite` (temporary file), `SpoolRename` |
| destructor, end of the process | `Quit`, `QuitJoin`, `QuitDone`; `Crash` at any point |

The relay is the environment: every answer is possible at every attempt. Time counts in ticks of
the retry interval. `KMailQueue` has only the place of a mail (nowhere, memory, disk) and what
happened to it: a mail is dropped when the relay answered for it, when it is overaged and an
attempt failed, or when the disk failed it; a crash takes only what is in memory.

### KSession and KSessionStore

A store call holds one mutex throughout and is one step; `Validate()` is three (look up,
decide by the clock, erase or touch), `PurgeExpired()` two. `Backend` keeps whole seconds,
`Cache` the exact time with a dirty flag, as in `KSessionCachingStore` over the SQL stores. A failing database
statement leaves the rows alone (`Faults` names which may fail). `Shutdown` is the destructor's flush,
`Crash` the end without it. `KSessionStore` is one map from token to record: a logout is final, a session
never looks younger, or more recently used, than it is, and is not lost by a restart.

### KTunnel and KTunnelPipes

| code | model |
|---|---|
| `Run` (ktunnel.cpp:1699 ff.) | `RunSend`, `RunReceive` (with `HandleMessage`), `RunSleeps` (what poll waits for is fixed here), `RunWakes`, `RunEnds`, `RunThrows` |
| `ReadMessage`, `WriteMessage` (:1097, :1122) | part of `RunReceive` and `RunSend`; blocked in the midst of a message with `m_Tunnel` locked: `RunReads`, `RunSend` into "writing", and `RunReceive`, `RunHasSent`, `RunTimesOut` out of it |
| `HandleMessage` | `HandleConnect`, `HandleKnown` (`SendData`, `Pause`, `Resume`), `HandleUnknown` |
| `Connect`, `ConnectToTarget` | `Connect` and `ConnectAsks` (a thread of the program), `ConnectToTarget` (a thread per request), `Remove` |
| `Connection::Pump` | `PumpMakesRoom` and `PumpResume` (the queue is unlocked between them), `PumpQuits`, `PumpIO`, `PumpSleeps`, `PumpWakes`, `PumpLost`, `PumpTimesOut` |
| `Stop` | `Stop` (the call, which waits for `m_Tunnel`), `StopCloses` |

Two instances exchange messages over a stream of `MaxWire` messages. With the fault `stall` the stream may take or
bring in a part of a message only (`partial`): readiness promises some bytes, not a message. Run() then is
"reading" or "writing", until the rest passes or, with `timeout`, the stream's timeout closes it. A connection has an `End` on
either side; its record holds the `Connection` object and where its thread is (`at`; `deaf` is a poll
that does not wait for input). `outside` is the direct stream's other end. Bytes are counted in
chunks of one read. `KPollInterruptor` is a flag that a poll consumes. `KTunnelPipes` has no
messages: an end takes chunks in, puts the other's out in order, and is closed for the
other's sake only when it has put out everything.

## 3 What is checked

Each property of a passing run has a mutant in
`PROJECT.json`: a plausible bug in a mapped definition that makes TLC report it.

| run | instance | states | shows |
|---|---|---|---|
| `drr` | tags of weight 3 (unbounded), 1 (drops oldest), 2 (two at a time, rejects); 2 queued per tag; 3 workers; pause, clear, reconfiguration with weight 0 | 1344 k | `DeficitWithinQuantum`, `BypassBounded`, `WeightedShare` |
| `pool` | 3 thread ids, 2 tasks, capped bounded tag and rejecting bounded tag, any 2 control calls | 257 k | `CountersExact`, `CapRespected`, `EveryThreadAccountedFor`, `NoLostWakeup`, `StopLeavesNoThread`, `DrainedByStop`, refinement `ImplementsTaskPool` |
| `pool_live` | 2 threads, a capped tag, 2 tasks, 2 calls, fair | 104 k | `EveryTaskServed`, `StopReturns` |
| `coalesce` | 2 workers, 2 keys, 1 plain task, 4 submissions, queue of one, 1 clear, fair | 46 k | `OneRunPerKey`, `LatestWins`, `EverySubmissionSettles` |
| `timer` | a repeating timer with own thread, a one-shot timer run inline, 1 caller, 2 callback threads, 1 pause, fair | 173 k | `CancelIsFinal`, `DtorLeavesNoThread`, `OnceAtMostOnce`, `DueTimerRuns`, `CallsReturn` |
| `shared_pool` | 3 threads with 2 gets each, maximum 2, new maxima 1, 2, 3, 2 calls, both sizings, fair | 216 k | `UsedExact`, `LimitExact`, `NoLostWakeup`, `GetReturns` |
| `kron` | a repeating, limited job that writes too much and a single one, both leaving a process behind; 3 descriptors, fair | 158 k | `NoChildLost`, `KillHitsOwnChild`, `OneRunAtATime`, `EveryRunEnds`, `StopReturns` |
| `mail` | 2 mails, retry interval up to 2 ticks, maximum age 1, write and read faults (removals succeed), 1 crash or orderly end, fair | 316 k | `FilesTrackedOnce`, `DuplicateOnlyIfUnsure`, refinement `ImplementsMailQueue`, `EveryMailSettles` |
| `session` | 1 session, 2 requests, idle timeout 2, absolute timeout 3, seconds of 2 ticks, clock up to 5, failing creates and updates | 71 k | `CacheCoherent`, `AcceptedInTime`, refinement `ImplementsStore` |
| `tunnel` | 1 connection, queues of 2, the client sends 3 chunks; messages that pass in parts, timeouts of the stream, unreachable targets, `Stop()` at the far side, fair | 169 k | `EveryChunkArrives`, `StopEndsRun` |
| `tunnel_close` | 1 connection, 1 chunk, a slow target; both outsides may close; refusals, idle timeouts, broken stream, fair | 168 k | refinement `ImplementsPipes`, `CloseReachesPeer` |
| `timer_add` | a callback adds a timer during a pause | | a documented promise that the code breaks: section 5 |

Every module with variables has a `TypeOK`; it holds in every configuration and can be added to any.

### What the central properties say

- `BypassBounded`: a tag with a task it may start sits through at most one quantum of each
  other tag. `WeightedShare`: while all tags are backlogged, any two are served by weight,
  always less than two rounds apart. One round would be too strong, as TLC shows on this instance: when a
  tag drains in mid-quantum the turn goes on but its deficit stays (kthreadpool.cpp:835), and the tag
  has that rest on top of its quantum if it is refilled before the scan comes by again.
- `NoLostWakeup` (pool): if a task could start and an unaborted worker sleeps, a wakeup is under
  way, and no worker sleeps through an order to finish. This is what the `notify_one()` before
  the abort check and the baton of a worker leaving the wait are for; without either TLC finds
  the stranded task.
- `ImplementsTaskPool`: no task lost, run twice or out of order in its tag.
- `DrainedByStop`: `stop(false)` leaves none of the tasks queued at its start, *provided that no live
  thread was aborted before and the pool was not paused*. Without the proviso it is false.
- `OneRunPerKey` (until the first `clear()`), `LatestWins` (always): a submission is covered by
  a run of its own callable or a later one.
- `CancelIsFinal`: once `Cancel()` has returned true to a thread outside the callback, no thread is inside the callback
  again, including callbacks already extracted when it was called.
- `DueTimerRuns`: a timer added or restarted while the timing thread sleeps on a cached deadline
  is not overlooked.
- `LimitExact`: objects in use and pooled never exceed the configured maximum, unless pooling
  was disabled once or the limit lowered. `NoLostWakeup`: nobody waits beside a
  free object or slot without somebody awake who will pass the word on.
- `NoChildLost`, `KillHitsOwnChild` (Kron): from the fork to the reaping a child is where `KillJob()` and the
  launcher find it, and nobody signals a process ID after that.
- `EveryRunEnds`: also for the child that waits for its reader, as it has a time limit.
- `DuplicateOnlyIfUnsure`: a mail goes out twice only if the answer to the first was lost, or the
  process died before it removed the file - or, outside the listed run, could not remove it: `kRemoveFile()`'s result is ignored
  (kmailspool.cpp:358), and with "remove" added to the `DiskFaults` of `MCKMailSpool.cfg` TLC finds the second copy. `FilesTrackedOnce`: memory and spool directory agree.
- `EveryMailSettles`: the hand-over between an `Add()` and a thread that is about to end or to sleep
  loses no mail.
- `CacheCoherent`: outside what is marked dirty, the cache is what the database would return.
  `AcceptedInTime`: whatever was cached, rounded or lost, a request accepts a session only within both
  timeouts. That a logout is final (`LoggedOutIsGone`) follows from `ImplementsStore`, and is proved besides.
- `EveryChunkArrives`: needs no timeout of a poll, so every sleep that matters is ended by a wakeup.
- `CloseReachesPeer`: an end whose other side has closed, first or at the same moment, or has refused the request, ends
  itself. The idle timeout of a pump is allowed in that run and not fair, so it is not what the property rests on.
- `StopEndsRun`: a call of `Stop()` ends `Run()` on both sides. A sleeping `Run()` is woken; one that is
  blocked in the midst of a message keeps the lock `Stop()` waits for, and returns when the rest has passed or the
  operation times out. The documentation promises more (section 5, number 16).
- `ImplementsPipes`: nothing lost, doubled or reordered, and data queued before a disconnect is put out.

### Bounds, and why they are enough

Three threads are the smallest number at which a notification can reach the wrong one while a
third sleeps; two tags are the smallest with a choice, three in `drr` so that the round
has an order. Two tasks let a task be queued while another holds its tag's only slot. Two
control calls cover every ordered pair of them (a shrink and a stop, two shrinks, stop and
restart by a resize, a pause and a clear): the code's state after a call is again one of
the states from which calls start. Queue bounds of one make overflow the common case.
Four submissions are one running, one queued as rerun, one joining it and one after.
Two callback threads give two simultaneous callbacks of one timer. `MaxQueued = 2` in `drr` is below the largest weight so that
quanta are interrupted by a tag running empty. A counter is never bounded from within a
property: bounds are guards on callers (`MaxCalls`, `Pauses`, `Submissions`, `Clears`, `MaxGets`, `MaxQueued`).

Two jobs of Kron let one be started while the other is collected, `iFactor = 2` gives rounds with and
without a check for due jobs, three descriptors let opening a pipe fail. Two mails are one that waits for
its retry and one that is new; a crash may come at each step, and the restarted process does
all a first one does. A single session with two requests has every race of `Validate()`, as no operation
but the logout of a user touches two; seconds of two ticks are the smallest that round, and the clock runs until either
timeout has come after a touch. In `tunnel` three chunks are one more than pauses a queue of two (the code has 20), so the
last one needs the resume; there the stream takes messages in parts, and `Stop()` may find `Run()` at any place.
`tunnel_close` takes a shorter stream and lets either outside close at any time, beside refusals and the rest of the faults.
In both only the client's outside sends; `MCKTunnel.cfg` with `Input <- FourBoth`, `Stopping = {}` and the faults `stall` and `timeout` has both
directions (272 k states; `EveryChunkArrives` holds). The connections of a
tunnel share only its queue and stream, where order is kept, hence one connection; channel numbers are not reused.

`CHECK_DEADLOCK FALSE` stands where callers may stop calling: then the system rests with
everything done. `drr` has endless callers and checks for deadlock.

Symmetry (threads and tasks) is used in runs without liveness only, where all constants
treat them alike.

### Fairness

- Pool: weak fairness of each worker's steps, of the notify after a push or an
  unpause, of a begun resize and of each phase of a stop: the operating system runs threads,
  tasks end, a call that was begun is completed. No push and no spurious wakeup is ever required.
- Coalescing: weak fairness of each worker. That a queued task is taken at all is what the
  pool's properties show; here workers may take runnable tasks.
- Timer: callers finish a call they began; callback threads and the timing thread run. Timers need
  not expire, callers need not call.
- Shared pool: a `get()` that may go on does; who holds an object returns it. Weak fairness
  is enough: a waiter is not promised the *next* object, but with finitely many calls it gets one.

- Kron: the launcher runs; a child without a time limit ends, one with a limit may hang until it
  is overdue, which comes; a process left behind ends. Nobody needs to add or kill a job.
- Mail: time passes and the thread runs. The relay may fail for ever, nobody need stop the process.
- Tunnel: the threads of both sides run, an outside reads what it gets, and a waiting `Stop()` gets the lock when `Run()` leaves it
  alone. No timeout of a poll need come, and the rest of a message need not pass the stream; but an operation that stays
  blocked is ended by the stream's timeout (`RunTimesOut`), which is time passing.

Strong fairness is assumed nowhere: mutexes are not assumed to be handed out fairly.

## 4 What is proved

For every number of threads, tags, tasks, mails, sessions, every configuration and every bound
(TLAPS; backends Z3, Zenon, LS4).

| module | theorem | the specification satisfies |
|---|---|---|
| `KThreadPool_proofs` | `TypeCorrect`, `CountsAreExact`, `NoThreadForgotten`, `StopIsFinal` | `TypeOK`; `CountersExact` (`RunningExact`, `IdleExact`, `DetachedExact`); `EveryThreadAccountedFor`; `StopLeavesNoThread` |
| | `CapsAreKept`, `DeficitsAreBounded` | `CapRespected`; `WithinQuantum(sched)` |
| | `NoWakeupIsLost`, `StopDrainsTheQueue` | `NoLostWakeup`; `DrainedByStop` |
| | `PoolImplementsTaskPool` | the refinement `ImplementsTaskPool` |
| | `RoundRobinTypeCorrect`, `DeficitStaysWithinQuantum`, `NoTagIsStarved`, `TagsShareByWeight` | of `DRRSpec`: `DRRTypeOK`; `DeficitWithinQuantum`; `BypassBounded`; `WeightedShare` |
| `KThreadPoolCoalesce_proofs` | `TypeCorrect`, `LatestCallableWins`, `KeysRunOnce` | `TypeOK`; `LatestWins`; `OneRunPerKey` |
| `KSharedPool_proofs` | `PoolTypeCorrect`, `UsedCountExact`, `LimitIsKept`, `DisabledIsEmpty`, `NoWakeupIsLost` | `TypeOK`; `UsedExact`; `LimitExact`; `DisabledHoldsNothing`; `NoLostWakeup` |
| `KTimer_proofs` | `CancelStops`, `DtorIsLast`, `OnceRunsOnce` | `CancelIsFinal`; `DtorLeavesNoThread`; `OnceAtMostOnce` |
| `Kron_proofs` | `NoChildIsLost`, `KillsAreOwn`, `OneRun` | `NoChildLost`; `KillHitsOwnChild`; `OneRunAtATime` |
| `KMailSpool_proofs` | `TypeCorrect`, `FilesHaveOneEntry`, `DuplicatesAreUnsure` | `TypeOK`; `FilesTrackedOnce`; `DuplicateOnlyIfUnsure` |
| | `MailSpoolImplementsMailQueue` | the refinement `ImplementsMailQueue` |
| `KSession_proofs` | `SessionTypeCorrect`, `CacheNeverDiverges`, `AcceptedWithinTimeouts`, `LogoutIsFinal` | `TypeOK`; `CacheCoherent`; `AcceptedInTime`; `LoggedOutIsGone` |
| | `SessionsImplementStore` | the refinement `ImplementsStore` |
| `KTunnel_proofs` | `TunnelTypeCorrect`, `OneSideIsTransparent` | `TypeOK`; `Transparent` |
| | `TunnelImplementsPipes` | the refinement `ImplementsPipes` |

`KThreadPool_proofs` begins with the scheduler: what each of its operators does to
types, queues, running counts and deficits, to the set `Startable` of the queued tasks that could
start at once, and to the set of tasks in the queues. It extends `KThreadPool` and `KThreadPoolDRR`; the theorems about either use
the assumption on its constants only. `KThreadPoolCoalesce_proofs`, with one tag, repeats the few of these lemmas it needs.

**KThreadPoolDRR.** Assumption: `DRRAssumption` (finitely many tags, arguments of the right types). All theorems but
the first also assume `WeightsKept`, that no `ConfigureTag` lowers a weight: lowering it keeps the deficit, which may then
be more than the new quantum. For any number of tags, weights, bounds, caps and workers.

- *The scan.* `Scannable`: a tag has one place in the order and the cursor is at one of them. `DequeueVisit` says what a
  dequeue does to the turn (`Visit`): it serves the first serviceable tag of the scan, lowers its deficit, and
  lets the cursor stay exactly if that tag can go on; the tags before it, none of them serviceable, forfeit theirs.
- *No tag starves.* That `bypass[t]` is bounded is not inductive. `TurnInv` adds what is *owed*: `Owed(S, t)` is the set
  of tasks that the tags `Ahead` of `t` in the scan may still be served before it is `t`'s turn, and
  `BypassHolds` says that `bypass[t]` and their number together are at most one quantum of each other tag. Each dequeue that
  passes over `t` takes one of the tasks that were owed (`VisitOwed`); a step that makes `t` serviceable again starts
  with `bypass[t] = 0`; a tag that is not yet registered counts as ahead, since it may come between the cursor and `t` when it
  is, so registering it adds nothing to what is owed (`AheadRegistered`). The tasks are pairs of tag and number, so that sums over tags are cardinalities of finite sets.
- *Shares.* Shares are compared by visits (`Rotation`): there is a count of visits for each tag such that its share is what
  that many visits yield, up to the visit it is in (`Visits`); along the scan the counts grow by at most one in all; and no
  tag but the one at the cursor is in the middle of a visit, unless it has not been served yet. A dequeue either goes on
  with the visit of the first tag or ends it, and that tag is then the last of the scan with one visit more
  (`VisitRotates`). Two tags' counts therefore differ by at most one, and the rests by at most one quantum, hence two rounds.

**KThreadPool.** Assumptions: `PoolAssumption` (finite set of thread ids, arguments of the right
types). `CapsAreKept`, `NoWakeupIsLost` and `PoolImplementsTaskPool` also assume `CapsKept`, that no later
`ConfigureTag` changes a cap: lowering a cap below what already runs breaks it by design, raising it
notifies nobody (section 5), and `KTaskPool` has fixed caps. `DeficitsAreBounded` assumes `WeightsRaised`,
that a later `ConfigureTag` may raise a weight and none lowers one. `StopDrainsTheQueue` needs neither.

- *Counters and threads.* The inductive invariant is `IInv = TypeOK /\ ThreadInv /\ StopPhase`. `RunningExact` is not
  inductive alone: that the worker ending a task lowers the right tag's count needs that its job is a real
  job (`JobKnown`), and a shrink lowers `ma_n_idle` and raises the detached counter for the threads
  of the last slots, so the counters need `EveryThreadAccountedFor` and `SlotsLive`: outside `stop()`
  the threads in the table are alive, unaborted and not leaving. `StopLeavesNoThread` is an action
  property: at `StopReturn` every thread is either in the table, and has ended (`StopPhase`: behind
  the joins no thread of the table is alive), or was detached by a shrink, and `DetachedExact` turns
  the zero that `StopReturn` reads into the absence of such threads. The counting steps rest on lemmas
  about adding and removing one element of a finite set defined by a predicate on `pc`.
- *Wakeups.* `NoLostWakeup` asks for one wakeup under way; one is enough for one task, and not for the second
  that could start. `WakeupsSuffice` counts: while a worker sleeps that may take a task, and no call is about to notify
  all, `Cardinality(Startable(sched))` is at most the notifications due plus the workers that are awake. A push adds
  one to either side, a worker that falls asleep has seen that nothing is startable, one that leaves passes the
  baton. `WellKept` (part of the same invariant `WInv`) makes the counting exact: `m_iTotalQueued` is the number of queued
  tasks and each tag with tasks is registered, so the early returns of `sched_dequeue` overlook nothing.
- *Refinement.* `TasksPlaced`: a task is new, in one queue at one position, with one worker, or settled. With it
  each action is a step of `KTaskPool` or a stutter: a push is `Accept`, `AcceptAndEvict` or `Reject`, a worker that ends
  its task and takes the next is one `Finish`, `clear()` one `Clear`.
- *Draining.* `Draining`: while a whole pool is being stopped, nobody is aborted, and as long as one of the tasks
  found is queued a worker is left that will look for it. A worker leaves a stopping pool without a task only
  when each tag with tasks is at its cap (`TakesNone`), hence others are inside such tasks, and will look again.
- *Deficits.* The scan finds the first serviceable tag of the order, which is not among those it passed over; hence each
  tag's deficit is set to zero, spent by one or left alone (`RoundRobinQuantum`).

**KThreadPoolCoalesce.** Assumption: `CoalesceAssumption` (one tag, which does not drop its oldest, as the header demands).
`IInv = SchedOK /\ Types /\ Jobs /\ Ordered /\ RunsOnce`. `LatestWins` needs `Ordered`: wherever a promise is, with the key, or claimed
by a worker, its callable is at least as new as every submission that shares it; that holds across `clear()`, also
for a trampoline of an older generation that claims what a later one has put there. `OneRunPerKey` counts runs;
`RunsOnce` says what the flags mean: `bQueued` that a trampoline is queued or about to be entered, `bRunning` that one
is inside, never both, and a promise waits only with one of them.

**KSharedPool.** Assumption: `KSharedPoolAssumption`. `IInv = TypeOK /\ UsedExact /\ DisabledHoldsNothing /\ WithinCeiling`.
`LimitExact` says nothing about how a slot comes to be allowed; `WithinCeiling` does: as long as the
pool is not lax it is not disabled, nobody creates an object without a slot, and neither the
current limit nor anything the window observed is above the ceiling, so a dynamic resize cannot
lift the limit over it. `NoLostWakeup` is counted as in the thread pool (`WakeupsSuffice`): while anybody waits, the pool is not
disabled and as many threads are awake as there are objects, and slots, to be had.

**KTimer.** Assumption: `KTimerAssumption`. `IInv = Places /\ Counted /\ Stopped /\ OneDestroys`. `CancelIsFinal` only
says that no thread is inside a callback of a stopped timer. To be kept it needs that the timer stays cancelled,
so that a callback that was extracted, or whose thread was launched, is not begun (`Stopped`), and that the zero
`Cancel()` waited for means that nobody was inside (`Counted`: `iRunning` and `iInFlight` are the cardinalities of
the sets of threads they stand for). `OneDestroys` says what the destructor has reached: it holds the mutex without
which nobody starts a timing thread, from its join on that thread is gone, so nobody launches another callback
thread, and at the end `Counted` turns the zero it waited for into their absence. `OnceAtMostOnce` has an invariant of its own,
`OnceSpent`: a one-time timer is in the map, in the timing thread's list, in one launched thread or begun, and moves
on only, so neither `Restart()` nor another round can start it again.

**Kron.** Assumption: `KronAssumption`. `IInv = Typed /\ Children /\ BehindHasShell /\ RunningCounted /\ KillHitsOwnChild`.
`Children` ties a child to its place: a job with a child is listed once, or is the one being started; and who is in
either place has a child that was not reaped, except the one job that the launcher is collecting under the lock.
`BehindHasShell`: whoever holds a pipe open is known to `Start()`, which then skips the job. `RunningCounted`
connects the counter with the list, so that the launcher leaves an empty list behind.
The list is a sequence from which a position is removed; the lemmas on that come first.

**KMailSpool.** Assumptions: `KMailSpoolAssumption`, and that no removal of a file fails (`"remove" \notin DiskFaults`). `IInv =` that and `Flags /\ Queues /\ States /\ Records /\ Phases /\ Tracked /\ TakenOnce`.
`FilesTrackedOnce` needs to know where a mail can be besides: `Tracked` keeps the fresh mails, the files and the three lists of
entries (waiting, due, pending) free of doubles and of each other, but for the file just written, whose entry comes
in the next step; `Phases` says that `Deliver` has arguments only while it runs. `TakenOnce`: what the relay surely took is not kept
any more, or its answer is just in. For the refinement `Recorded` adds that what happens to a mail is recorded before the
program acts on it. `Select` and `Delay`, recursive functions over positions and attempts, are treated by
induction over an interval: that they are defined, and what `Select` keeps.

**KSession.** Assumptions: `KSessionAssumption`, `NoneAssumption`; `CacheNeverDiverges` also that the deferred write of
`LastSeen` does not fail, `SessionsImplementStore` that neither it nor an erase does (with such a failure the first
statement is false: section 5, number 12). `CacheCoherent` needs `WholeSeconds` (the database holds whole seconds, so that rounding once
more changes nothing); `AcceptedInTime` needs `TimesFollow`: whatever row, cache entry or copy in a request is about
a token, its times are no younger than when the session was made and last found valid; `LogoutIsFinal` needs
`GoneForGood`: a token that was logged out has neither row nor entry, and since tokens are not drawn twice nobody
makes one. The refinement maps a token to what `Lookup` would return, and `Doomed` to
the tokens of requests that have decided to erase; each action is a step of the store or a stutter.

**KTunnel.** Assumptions: `KTunnelAssumption`, `NoneAssumption`, and `OneClient`: the programs of at most one side call `Connect()`, as
in the repository's own uses (the exposed host in samples/ktunnel.cpp:937, the test client in samples/ktunnel_test.cpp:235). With both calling, `Transparent` is false (section 5, number 13), and so is the refinement: two connections in one
channel have no pair of roles. The number of connections, chunks, the bounds and the faults are arbitrary.

- *The data.* What has been put out (`Pipes`) is a prefix of what the peer took in; to be kept, the invariant must say where the
  rest is. `Incoming(e)` is an end's queue, then the wire to its side, then the other side's out queue; `Flow` says that the chunks from
  the one after those put out (and the one in `ToDirect`) to the last one taken in are there, each once, in order, and no disconnect before one of them.
  It holds of an end that is open, and already while the request to open it is on its way, since the client's first data follow the request at once.
- *The ends.* `Roles`: an unused end is as `Init` left it, a used one has the role of its side and is listed while in use. `Talk`: a
  channel is spoken about only after its client's request, the first message of its channel; the server speaks only after having read it. So a
  `Connect` always finds a fresh end, and a disconnect for an unknown channel comes from an end that is closed for good.
- *The close.* `Gone`: an end that has a disconnect to handle, or has handled it, has a peer that is not open and will not be.
  With `Flow` the queue of an end that quits for its peer's sake is drained (`QuitsDrained`), which is what
  `KTunnelPipes` demands of a close with reason `peer`.
- *The steps.* A pump's step adds at most one message to what its peer has to handle (`Turn`); handling one moves it from the wire to
  the end's queue, or drops it when the end is gone, and may be answered (`Heard`). Each is treated once, for all actions of the kind.
  That a message passes in parts touches no data: `partial`, `stop` and the state of Run() only delay the steps.
- *Refinement.* Taking, putting out and both are `Pump`; the ends of a pump, with or without a last write, are `Close`; `Connect`
  and the request's arrival are `Open`; everything else stutters.

**Only model-checked**: all liveness properties (`EveryTaskServed`, `StopReturns`, `EverySubmissionSettles`,
`DueTimerRuns`, `CallsReturn`, `GetReturns`, `EveryRunEnds`, `EveryMailSettles`, `EveryChunkArrives`, `CloseReachesPeer`,
`StopEndsRun`), since TLAPS does not reason about fairness and `ENABLED`. `DeficitsAreBounded` and `DeficitStaysWithinQuantum` both state `WithinQuantum(sched)`, the one of
the pool with its threads, the other of the scheduler under every order of calls. All other safety and action properties and
refinements of passing runs are proved.

## 5 Where code and documentation disagree

`PROJECT.json` lists `timer_add`; the other configurations named here are for running by hand (section 8),
and TLC ends each with a counterexample.

1. `MCKTimer_add.cfg` (`timer_add`): a callback run by the timing thread that adds a timer blocks on the mutex
   `Pause()` holds while waiting for that thread: both wait for ever, although adding is "nonblocking" (ktimer.h:146).
2. `MCKTimer_pause.cfg`, `PauseMeansPaused`: "Pause() will not return before the timing thread has paused"
   (ktimer.h:125). A pause before the thread exists leaves `m_bIsPaused` set after `Resume()`; the next `Pause()` takes
   it for the answer.
3. `MCKThreadPool_shrunk.cfg`, `AllTasksRunByStop`: "if false, all the tasks in the queue are run" (pool.h:355). A shrink
   aborts the worker inside a capped tag's task; `stop(false)` lets the idle workers exit as the tag is at its cap;
   the aborted worker ends without looking at the queue (pool.cpp:619). The tag's next task stays behind.
4. `MCKThreadPool_toolarge.cfg`, `SizeWithinMax`: two shrinks in a row count the threads detached by the first as idle
   once more; the sum exceeds the pool, `shrink()` gives up (pool.cpp:344), `resize()` returns true and the
   pool keeps more threads than asked for (pool.h:321).
5. `MCKThreadPool_stale.cfg`, `NotStranded`: the comment at pool.cpp:190 calls `n_queued()` "only used as a heuristic"; with
   `PrestartNone` it decides whether a thread is started, and a task pushed between the two locks waits until
   the next push.
6. `MCKThreadPoolCoalesce_clear.cfg`, `NoOverlap`: `clear()` drops the state of a key whose run executes; the next
   submission starts a second run beside it, against "overlapping/duplicate runs are avoided" (pool.h:590).
7. `MCKron_leak.cfg`, `PipesClosed`: `KBasePipe::Close()` closes descriptors only while it has a process ID
   (kbasepipe.cpp:211), and Kron calls `Wait()` after `IsWaiting()` has reaped the child (kron.cpp:753): each
   execution of a job leaks the read end of its pipe, against "we close it in KBasePipe::Close" (kinpipe.cpp:68).
8. `MCKron_stuck.cfg`, `RunningMeansExecuted`: a start that fails (kron.cpp:309), or finds that the command has already
   ended (:323), leaves `m_Shell` set, and the job is skipped as still running for good (kron.h:138).
9. `MCKron_verbose.cfg`, `StopReturns`: output is read after the child's end (:352). A child that fills the pipe never
   ends unless it has a time limit, and the destructor waits for it.
10. `MCKMailSpool_retry.cfg`, `RetriesSpaced`: after a round that connected every waiting mail is due (kmailspool.cpp:269): two
    mails that the relay defers make each other due, round after round without a pause, against "retried with a delay
    that starts at RetryInterval and doubles" (kmailspool.h:95).
11. `MCKSession.cfg` with the one property `EndsOnlyWhenExpired`: `Validate()` decides on a copy (ksession.cpp:225) and may erase a session that
    another request has just touched. No document excludes it; the refinement allows it.
12. `MCKSession_fault.cfg`, `CacheCoherent`: a deferred write that fails leaves the entry clean (ksessioncachingstore.cpp:280),
    so the database purges by the old time a session that is in use.
13. `MCKTunnel_collide.cfg`, `Transparent`: "from either side you can Connect() new connections" (ktunnel.h:418). Both sides number
    channels from 1: connections asked for at the same time get the same number, are refused, or are
    wired to each other's streams. With one side calling it is proved (`OneSideIsTransparent`).
14. `MCKTunnel_pause.cfg`, `PauseHolds`: the queue is unlocked before the resume is sent (ktunnel.cpp:494). The pause for the
    next full queue may be sent first; then the peer is resumed for good and the queue grows without
    bound. A resume sent under the lock, as `ReadData` does it, would not do this.
15. `MCKTunnel_unreachable.cfg`, `CloseReachesPeer`: a target that cannot be reached is removed without a message
    (ktunnel.cpp:1187), against "return after connection is closed from the other end" (ktunnel.h:433): the client
    learns of it when it sends something, or by its idle timeout.
16. `MCKTunnel_stalled.cfg`, `StopEndsRun`: `Stop()` "closes the underlying tunnel stream so a blocked
    ReadMessage()/WriteMessage() returns promptly" (ktunnel.h:447). It locks `m_Tunnel` first (ktunnel.cpp:964), and
    `ReadMessage()` and `WriteMessage()` keep that lock while they block (:1100, :1125): when a message has arrived or was taken
    in part only, `Stop()` waits until the rest passes or the operation times out (75 seconds by default), and a signal
    handler that calls it hangs with it. Without the timeout `Run()` never returns.
17. `MCKTunnel_stalled.cfg` with the one invariant `NoStandoff`: `IsWriteReady()` promises room for some bytes, `WriteMessage()` blocks until all
    are out (ktcpstream.cpp:158). Both sides may be blocked in a write, each waiting for the other to read, though the
    two directions are checked separately so that none starves (ktunnel.cpp:1719). Only the timeout ends this, and the tunnel
    with it. It takes sockets with less room than a message. No document excludes it.

Seen while modelling, represented in the models, without a run of their own:

- `stop(true)` still runs a task on a thread that has just been started (pool.cpp:578; pool.h:355 says the queue is
  left alone).
- A second push right after the first does not grow the pool as long as the notified worker still
  counts as idle (pool.cpp:887; pool.h:130).
- Raising a tag's cap by `ConfigureTag` notifies nobody (pool.cpp:706): tasks that became runnable wait for the next
  push or completion. The instances therefore do not raise caps where `NoLostWakeup` is checked.
- Two timer callbacks that cancel each other's timer wait for each other (ktimer.cpp:259): in the
  model a callback cancels its own timer only. A second, concurrent `Cancel()` of one ID returns false while the callback may still
  run (ktimer.cpp:173; ktimer.h:74): `CancelIsFinal` speaks of the one that returned true.
- `Pause()` never returns if the timing thread left because the program shuts down (ktimer.cpp:506); program shutdown
  is not part of the model.
- `max_size()` below what is pooled keeps the pooled objects, later `get()` calls hand them all out (kpool.h:398); and
  dynamic sizing restores an older, higher maximum from its window (kpool.h:624). `lax` marks these states.
- A spool file that cannot be read is removed, also after a passing error (kmailspool.cpp:105, 348), and nothing is
  synced to disk before the rename (kmailspool.h:94): the model's disk keeps what was renamed.
- KTunnel's REPL channels (read, not modelled): `ReadData()` "returns false when the channel is closed (Disconnect frame
  or tunnel stop)" (ktunnel.h:324), but nothing sets `m_bQuit` when the tunnel stops; `Disconnect()` sets it and
  notifies without the lock (ktunnel.cpp:678), so a reader may miss it; `OpenRepl()` never removes its connection
  from the list. Pumps also go on after `Run()` has returned, until their idle timeout.

## 6 What is not modelled

| part | why |
|---|---|
| limiters, KTCPServer, KLockMap/KCache | on the plan (section 7) |
| within Kron | `Job::Kill`, `IsWaiting` and `Wait` called by who keeps a job, `ModifyJob` with another object of the same ID, schedulers of the user, Windows |
| within KTunnel | login, key exchange and encryption (sequential, before `Run`), pings, REPL channels, reuse of channel numbers, partial operations of the direct streams |
| within KMailSpool | `.tmp` files that cannot be removed (their names are never used again) |
| within sessions | the SQL of the stores, cookies, password checks |
| KThreadSafe, KSharedRef, KSubscribe | single critical sections and reference counts; the models of their users take them as atomic |
| KThreads, KParallel | start and join threads, no further state |
| HTTP, HTTP/2, HTTP/3, WebSocket, UDP, DTLS, MQTT, KPoll | sequential protocol code over one stream and bindings to other libraries; socket I/O |
| ACME, web push | clients of KTimer; decided by remote services |
| KLog, start-up, KSQL, child processes, shared memory | output, one-time initialisation, system calls |
| strings, formats, crypto, streams, JSON, XML, CSV, HTML | sequential data processing without state between calls |

Within what is modelled: C++ memory-model effects are not (shared fields are atomics or guarded
by the mutex that the model's step stands for); exceptions of `std::thread` and allocation
failures are not; values and texts are not.

## 7 Plan

Order: the pool first, since everything else hands it work; then the timer, which the
remaining services hang on; then objects shared between threads; then the services.

1. *Done*: `KThreadPoolSched`, `KThreadPoolDRR`, `KThreadPool` with `KTaskPool`, `KThreadPoolCoalesce`, `KTimer`, `KSharedPool`,
   `Kron`, `KMailSpool` with `KMailQueue`, `KSession` with `KSessionStore`, `KTunnel` with `KTunnelPipes`; proofs of all safety and action
   properties the runs check and of the refinements.
2. `KRateLimiter` and `KConnectionLimiter`: buckets with a clock read before the lock; guards that are
   moved and released; the count is the number of live guards. Theorem: never above the limit.
3. `KLockMap`: mutual exclusion per key and no lock dropped while held; provable outright. With it
   `KCache` in front of a loader.
4. `KTCPServer`: accept threads, connection counter, two-way shutdown: `Stop` returns and
   no session outlives it; composed from the pool's promise `KTaskPool`. REPL channels of KTunnel.

## 8 Running it

    tlc -workers 2 -config MCKThreadPool.cfg MCKThreadPool.tla     # any cfg, its MC module
    tlapm KThreadPool_proofs.tla                                   # any *_proofs module

A run takes between a few seconds and two minutes, the proofs of `KThreadPool_proofs` ten minutes, those of `KTunnel_proofs` five.
The runs, with module, configuration and expected outcome, are listed in `PROJECT.json`; `map`
there names the source lines each definition stands for.
