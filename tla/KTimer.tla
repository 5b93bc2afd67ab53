------------------------------- MODULE KTimer -------------------------------
(***************************************************************************)
(* KTimer: timers in a map, one timing thread that looks for due ones, and *)
(* their callbacks, run by the timing thread itself or each in a detached  *)
(* thread.  Cancel() and the destructor wait for callbacks in flight.      *)
(*                                                                         *)
(* Time is abstract: a timer in the map may become due at any moment, and  *)
(* Restart() takes that back.  A critical section of m_Timers, of a        *)
(* Control or of the Flight is one step; m_ThreadCreationMutex, which      *)
(* Pause() and the destructor keep while they wait, is a variable.         *)
(***************************************************************************)
EXTENDS Integers, FiniteSets

CONSTANTS Caller,         \* threads that use the timer from outside
          CallbackThread, \* bound: detached callback threads alive at a time
          timing,         \* the timing thread
          None,           \* no thread, no timer
          Timer,          \* timer IDs, each given out once
          Once,           \* the timers of CallOnce; the others are CallEvery's
          OwnThread,      \* the timers whose callback gets its own thread
          CallerUses,     \* what callers do beside AddTimer and Cancel
          CallbackUses,   \* what callbacks do with the KTimer that runs them
          Pauses          \* bound: calls of Pause()

Thread == CallbackThread \cup {timing}
Actor  == Caller \cup Thread

ASSUME KTimerAssumption ==
    /\ IsFiniteSet(CallbackThread)
    /\ timing \notin CallbackThread \cup Caller /\ Caller \cap CallbackThread = {}
    /\ None \notin Actor \cup Timer
    /\ Once \subseteq Timer /\ OwnThread \subseteq Timer
    /\ CallerUses \subseteq {"restart", "pause", "destroy"}
    /\ CallbackUses \subseteq {"add", "cancel", "restart"}
    /\ Pauses \in Nat

VARIABLES
    m_Timers,               \* the IDs in the map
    due,                    \* those with ExpiresAt <= now
    added,                  \* IDs given out
    m_bAddedTimer, m_bPause, m_bIsPaused, m_bShutdown,
    m_ThreadCreationMutex,  \* its holder, when held across steps
    bCancelled, iRunning,   \* of the Control block, per timer
    iInFlight,              \* of the Flight
    known,                  \* timers whose deadline is in the thread's tNextTimer
    DueTimers,              \* the thread's local list
    pc,                     \* where a thread is; "free" = it does not exist
    job,                    \* the timer whose callback it runs (tls_pRunningControl)
    call, target,           \* the KTimer function an actor is in, and for which timer
    pauses,
    begun,                  \* history: timers whose callback was ever started
    stopped                 \* history: timers a Cancel() from outside returned true for

map     == <<m_Timers, due, added>>
pausing == <<m_bPause, m_bIsPaused, pauses>>
control == <<bCancelled, iRunning>>
loop    == <<known, DueTimers>>
threads == <<pc, job, iInFlight>>
calls   == <<call, target>>
history == <<begun, stopped>>
vars == <<map, m_bAddedTimer, pausing, m_bShutdown, m_ThreadCreationMutex, control,
          loop, threads, calls, history>>

Init ==
    /\ m_Timers = {} /\ due = {} /\ added = {}
    /\ m_bAddedTimer = FALSE /\ m_bShutdown = FALSE
    /\ m_bPause = FALSE /\ m_bIsPaused = FALSE /\ pauses = 0
    /\ m_ThreadCreationMutex = None
    /\ bCancelled = [t \in Timer |-> FALSE] /\ iRunning = [t \in Timer |-> 0]
    /\ known = {} /\ DueTimers = {}
    /\ pc = [h \in Thread |-> "free"] /\ job = [h \in Thread |-> None]
    /\ iInFlight = 0
    /\ call = [a \in Actor |-> "none"] /\ target = [a \in Actor |-> None]
    /\ begun = {} /\ stopped = {}

m_TimingThread == pc[timing] # "free"

-----------------------------------------------------------------------------
\* Callers and callbacks.  Nobody calls a KTimer from outside once its destruction
\* has begun; callbacks in flight may.

MayCall(a, what) ==
    /\ call[a] = "none"
    /\ \/ a \in Caller /\ ~m_bShutdown /\ what \in CallerUses \cup {"add", "cancel"}
       \/ a \in Thread /\ pc[a] = "callback" /\ what \in CallbackUses

Enter(a, fn, t) == /\ call'   = [call EXCEPT ![a] = fn]
                   /\ target' = [target EXCEPT ![a] = t]

Return(a) == Enter(a, "none", None)

\* CallEvery or CallOnce, for a timer that gets the ID t
AddTimerCall(a, t) ==
    /\ MayCall(a, "add")
    /\ t \in Timer \ added /\ \A b \in Actor : call[b] = "AddTimer" => target[b] # t
    /\ Enter(a, "AddTimer", t)
    /\ UNCHANGED <<map, m_bAddedTimer, pausing, m_bShutdown, m_ThreadCreationMutex,
                   control, loop, threads, history>>

\* mutant: the running timing thread is not told about the new deadline
Insert_Silent(t) == /\ added' = added \cup {t} /\ m_Timers' = m_Timers \cup {t}
                    /\ UNCHANGED <<due, m_bAddedTimer>>

Insert(t) == /\ added' = added \cup {t} /\ m_Timers' = m_Timers \cup {t}
             /\ m_bAddedTimer' = TRUE
             /\ UNCHANGED due

\* a new ID goes into the map; the first one starts the timing thread
AddTimer(a) ==
    /\ call[a] = "AddTimer" /\ m_ThreadCreationMutex = None
    /\ Insert(target[a])
    /\ pc' = IF m_TimingThread THEN pc ELSE [pc EXCEPT ![timing] = "start"]
    /\ Return(a)
    /\ UNCHANGED <<pausing, m_bShutdown, m_ThreadCreationMutex, control, loop,
                   job, iInFlight, history>>

\* Cancel, under the map's lock: the entry and its control block are taken out.
\* (An unknown ID returns false at once and changes nothing.)
Cancel(a, t) ==
    /\ MayCall(a, "cancel")
    /\ a \in Thread => job[a] = t      \* callbacks cancel their own timer
    /\ t \in m_Timers
    /\ m_Timers' = m_Timers \ {t} /\ due' = due \ {t}
    /\ Enter(a, "mark", t)
    /\ UNCHANGED <<added, m_bAddedTimer, pausing, m_bShutdown, m_ThreadCreationMutex,
                   control, loop, threads, history>>

\* mutant: Cancel() from inside the own callback waits for itself
CancelMark_AlwaysDrains(a) ==
    /\ call[a] = "mark"
    /\ bCancelled' = [bCancelled EXCEPT ![target[a]] = TRUE]
    /\ Enter(a, "drain", target[a])
    /\ UNCHANGED <<map, m_bAddedTimer, pausing, m_bShutdown, m_ThreadCreationMutex,
                   iRunning, loop, threads, history>>

\* ... then, under the control block's lock: a callback extracted but not started
\* is prevented.  From inside the own callback Cancel returns here.
CancelMark(a) ==
    /\ call[a] = "mark"
    /\ bCancelled' = [bCancelled EXCEPT ![target[a]] = TRUE]
    /\ IF a \in Thread /\ job[a] = target[a]
       THEN Return(a)
       ELSE Enter(a, "drain", target[a])
    /\ UNCHANGED <<map, m_bAddedTimer, pausing, m_bShutdown, m_ThreadCreationMutex,
                   iRunning, loop, threads, history>>

\* ... and waits until no callback of this timer is running
CancelDrain(a) ==
    /\ call[a] = "drain" /\ iRunning[target[a]] = 0
    /\ stopped' = stopped \cup {target[a]}
    /\ Return(a)
    /\ UNCHANGED <<map, m_bAddedTimer, pausing, m_bShutdown, m_ThreadCreationMutex,
                   control, loop, threads, begun>>

\* Restart of a timer of the right kind moves its deadline away from now
Restart(a, t) ==
    /\ MayCall(a, "restart") /\ t \in m_Timers
    /\ due' = due \ {t} /\ m_bAddedTimer' = TRUE
    /\ UNCHANGED <<m_Timers, added, pausing, m_bShutdown, m_ThreadCreationMutex,
                   control, loop, threads, calls, history>>

\* Pause only sets the flags if there is no timing thread, else it keeps the mutex
\* until the timing thread has reported that it pauses
PauseCall(a) ==
    /\ MayCall(a, "pause") /\ a \in Caller
    /\ pauses < Pauses /\ pauses' = pauses + 1
    /\ m_ThreadCreationMutex = None
    /\ m_bPause' = TRUE
    /\ IF m_TimingThread
       THEN /\ Enter(a, "Pause", None) /\ m_ThreadCreationMutex' = a
            /\ UNCHANGED m_bIsPaused
       ELSE /\ m_bIsPaused' = TRUE
            /\ UNCHANGED <<calls, m_ThreadCreationMutex>>
    /\ UNCHANGED <<map, m_bAddedTimer, m_bShutdown, control, loop, threads, history>>

PauseReturn(a) ==
    /\ call[a] = "Pause"
    /\ m_bIsPaused \/ m_bShutdown
    /\ m_ThreadCreationMutex' = None
    /\ Return(a)
    /\ UNCHANGED <<map, m_bAddedTimer, pausing, m_bShutdown, control, loop,
                   threads, history>>

Resume(a) ==
    /\ MayCall(a, "pause") /\ a \in Caller
    /\ m_ThreadCreationMutex = None
    /\ m_bPause' = FALSE
    /\ m_bIsPaused' = (m_TimingThread /\ m_bIsPaused)
    /\ UNCHANGED <<map, m_bAddedTimer, pauses, m_bShutdown, m_ThreadCreationMutex,
                   control, loop, threads, calls, history>>

\* ~KTimer.  Nobody else is inside a call from outside.
DtorCall(a) ==
    /\ MayCall(a, "destroy") /\ a \in Caller
    /\ \A c \in Caller : call[c] = "none"
    /\ m_bShutdown' = TRUE /\ m_bPause' = FALSE
    /\ Enter(a, "~KTimer", None)
    /\ UNCHANGED <<map, m_bAddedTimer, m_bIsPaused, pauses, m_ThreadCreationMutex,
                   control, loop, threads, history>>

DtorLock(a) ==
    /\ call[a] = "~KTimer" /\ m_ThreadCreationMutex = None
    /\ m_ThreadCreationMutex' = a
    /\ Enter(a, "join", None)
    /\ UNCHANGED <<map, m_bAddedTimer, pausing, m_bShutdown, control, loop, threads,
                   history>>

\* mutant: the detached callbacks are not waited for
DtorJoin_NoFlight(a) ==
    /\ call[a] = "join" /\ pc[timing] \in {"free", "exited"}
    /\ Enter(a, "destroyed", None)
    /\ UNCHANGED <<map, m_bAddedTimer, pausing, m_bShutdown, m_ThreadCreationMutex,
                   control, loop, threads, history>>

DtorJoin(a) ==
    /\ call[a] = "join" /\ pc[timing] \in {"free", "exited"}
    /\ Enter(a, "flight", None)
    /\ UNCHANGED <<map, m_bAddedTimer, pausing, m_bShutdown, m_ThreadCreationMutex,
                   control, loop, threads, history>>

\* wait for the callbacks in their own threads
DtorFlight(a) ==
    /\ call[a] = "flight" /\ iInFlight = 0
    /\ Enter(a, "destroyed", None)
    /\ UNCHANGED <<map, m_bAddedTimer, pausing, m_bShutdown, m_ThreadCreationMutex,
                   control, loop, threads, history>>

-----------------------------------------------------------------------------
\* RunGuarded and RunDue

\* mutant: a cancelled timer is started all the same
Start_Unguarded(h, t) ==
    /\ iRunning' = [iRunning EXCEPT ![t] = @ + 1]
    /\ begun' = begun \cup {t}
    /\ job' = [job EXCEPT ![h] = t]

\* the callback is started unless the timer was cancelled since it was extracted
Start(h, t) ==
    IF bCancelled[t]
    THEN job' = [job EXCEPT ![h] = None] /\ UNCHANGED <<iRunning, begun>>
    ELSE /\ iRunning' = [iRunning EXCEPT ![t] = @ + 1]
         /\ begun' = begun \cup {t}
         /\ job' = [job EXCEPT ![h] = t]

\* the timing thread takes a due timer: into a thread of its own, whose flight is
\* counted before it exists, or into its own hands
RunDueOwnThread(t, h) ==
    /\ pc[timing] = "run" /\ t \in DueTimers \cap OwnThread
    /\ h \in CallbackThread /\ pc[h] = "free"
    /\ iInFlight' = iInFlight + 1
    /\ pc' = [pc EXCEPT ![h] = "launched"] /\ job' = [job EXCEPT ![h] = t]
    /\ DueTimers' = DueTimers \ {t}
    /\ UNCHANGED <<map, m_bAddedTimer, pausing, m_bShutdown, m_ThreadCreationMutex,
                   control, known, calls, history>>

RunDueInline(t) ==
    /\ pc[timing] = "run" /\ t \in DueTimers \ OwnThread
    /\ Start(timing, t)
    /\ pc' = IF job'[timing] = t THEN [pc EXCEPT ![timing] = "callback"] ELSE pc
    /\ DueTimers' = DueTimers \ {t}
    /\ UNCHANGED <<map, m_bAddedTimer, pausing, m_bShutdown, m_ThreadCreationMutex,
                   bCancelled, iInFlight, known, calls, stopped>>

RunGuarded(h) ==
    /\ pc[h] = "launched"
    /\ Start(h, job[h])
    /\ pc' = [pc EXCEPT ![h] = IF job'[h] = None THEN "leave" ELSE "callback"]
    /\ UNCHANGED <<map, m_bAddedTimer, pausing, m_bShutdown, m_ThreadCreationMutex,
                   bCancelled, iInFlight, loop, calls, stopped>>

\* the callback ends, by return or exception
CallbackEnds(h) ==
    /\ pc[h] = "callback" /\ call[h] = "none"
    /\ iRunning' = [iRunning EXCEPT ![job[h]] = @ - 1]
    /\ pc' = [pc EXCEPT ![h] = IF h = timing THEN "run" ELSE "leave"]
    /\ job' = [job EXCEPT ![h] = None]
    /\ UNCHANGED <<map, m_bAddedTimer, pausing, m_bShutdown, m_ThreadCreationMutex,
                   bCancelled, iInFlight, loop, calls, history>>

\* ~InFlight at the exit of a callback thread
Leave(h) ==
    /\ pc[h] = "leave"
    /\ iInFlight' = iInFlight - 1
    /\ pc' = [pc EXCEPT ![h] = "free"]
    /\ UNCHANGED <<map, m_bAddedTimer, pausing, m_bShutdown, m_ThreadCreationMutex,
                   control, job, loop, calls, history>>

-----------------------------------------------------------------------------
\* TimingLoop

To(p) == pc' = [pc EXCEPT ![timing] = p] /\ UNCHANGED <<job, iInFlight>>

\* the thread reads the deadlines, or finds that it was started for nothing
LoopStart ==
    /\ pc[timing] = "start"
    /\ IF m_bShutdown THEN To("exited") /\ UNCHANGED known
                      ELSE To("sleep") /\ known' = m_Timers
    /\ UNCHANGED <<map, m_bAddedTimer, pausing, m_bShutdown, m_ThreadCreationMutex,
                   control, DueTimers, calls, history>>

\* at the end of a sleep, and when there is nothing to pause for: a deadline has passed
\* (that of a timer cancelled or restarted meanwhile, too), or the flag is set
Awake == m_bAddedTimer \/ known \cap due # {} \/ known \ m_Timers # {}

LoopWake ==
    /\ pc[timing] = "sleep"
    /\ \/ m_bShutdown /\ To("exited") /\ UNCHANGED m_bIsPaused
       \/ ~m_bShutdown /\ m_bPause /\ To("paused") /\ m_bIsPaused' = TRUE
       \/ ~m_bShutdown /\ ~m_bPause /\ Awake /\ To("scan") /\ UNCHANGED m_bIsPaused
    /\ UNCHANGED <<map, m_bAddedTimer, m_bPause, pauses, m_bShutdown,
                   m_ThreadCreationMutex, control, loop, calls, history>>

\* the end of the pause.  (Pause() sleeps for milliseconds before it reads
\* m_bIsPaused, so reading m_bPause and resetting m_bIsPaused are one step.)
LoopUnpause ==
    /\ pc[timing] = "paused"
    /\ m_bShutdown \/ ~m_bPause
    /\ IF m_bShutdown THEN To("exited") /\ UNCHANGED m_bIsPaused
       ELSE To(IF Awake THEN "scan" ELSE "sleep") /\ m_bIsPaused' = FALSE
    /\ UNCHANGED <<map, m_bAddedTimer, m_bPause, pauses, m_bShutdown,
                   m_ThreadCreationMutex, control, loop, calls, history>>

\* mutant: a one-time timer stays in the map
Extract_Keep == m_Timers' = m_Timers /\ DueTimers' = due

\* the due timers are copied, the one-time timers among them removed
Extract == m_Timers' = m_Timers \ (due \cap Once) /\ DueTimers' = due

LoopScan ==
    /\ pc[timing] = "scan"
    /\ m_bAddedTimer' = FALSE
    /\ Extract
    /\ due' = {} /\ known' = m_Timers'
    /\ To("scanned")
    /\ UNCHANGED <<added, pausing, m_bShutdown, m_ThreadCreationMutex, control, calls,
                   history>>

\* the last look at m_bShutdown before the callbacks are called
LoopRun ==
    /\ pc[timing] = "scanned"
    /\ To(IF m_bShutdown THEN "exited" ELSE "run")
    /\ UNCHANGED <<map, m_bAddedTimer, pausing, m_bShutdown, m_ThreadCreationMutex,
                   control, loop, calls, history>>

LoopAgain ==
    /\ pc[timing] = "run" /\ DueTimers = {}
    /\ To("sleep")
    /\ UNCHANGED <<map, m_bAddedTimer, pausing, m_bShutdown, m_ThreadCreationMutex,
                   control, loop, calls, history>>

\* time passes
Expire(t) ==
    /\ t \in m_Timers \ due /\ due' = due \cup {t}
    /\ UNCHANGED <<m_Timers, added, m_bAddedTimer, pausing, m_bShutdown,
                   m_ThreadCreationMutex, control, loop, threads, calls, history>>

-----------------------------------------------------------------------------

\* steps of an actor inside a KTimer function
CallStep(a) == \/ AddTimer(a)
               \/ CancelMark(a)
               \/ CancelDrain(a)
               \/ PauseReturn(a)
               \/ DtorLock(a)
               \/ DtorJoin(a)
               \/ DtorFlight(a)

ThreadStep(h) == \/ RunGuarded(h)
                 \/ CallbackEnds(h)
                 \/ Leave(h)

LoopStep == \/ LoopStart
            \/ LoopWake
            \/ LoopUnpause
            \/ LoopScan
            \/ LoopRun
            \/ LoopAgain
            \/ \E t \in Timer : RunDueInline(t)
            \/ \E t \in Timer, h \in CallbackThread : RunDueOwnThread(t, h)

Next == \/ \E a \in Actor :
             \/ \E t \in Timer : AddTimerCall(a, t) \/ Cancel(a, t) \/ Restart(a, t)
             \/ PauseCall(a)
             \/ Resume(a)
             \/ DtorCall(a)
             \/ CallStep(a)
        \/ \E h \in Thread : ThreadStep(h)
        \/ LoopStep
        \/ \E t \in Timer : Expire(t)

Spec == Init /\ [][Next]_vars

\* threads run and callbacks end; callers need not call anything, nor timers expire
FairSpec == /\ Spec
            /\ \A c \in Caller : WF_vars(CallStep(c))
            /\ \A h \in CallbackThread : WF_vars(ThreadStep(h) \/ CallStep(h))
            /\ WF_vars(LoopStep \/ ThreadStep(timing) \/ CallStep(timing))

-----------------------------------------------------------------------------

TypeOK ==
    /\ m_Timers \subseteq added /\ due \subseteq m_Timers /\ added \subseteq Timer
    /\ m_bAddedTimer \in BOOLEAN /\ m_bShutdown \in BOOLEAN
    /\ m_bPause \in BOOLEAN /\ m_bIsPaused \in BOOLEAN /\ pauses \in 0 .. Pauses
    /\ m_ThreadCreationMutex \in Caller \cup {None}
    /\ bCancelled \in [Timer -> BOOLEAN] /\ iRunning \in [Timer -> Nat]
    /\ iInFlight \in Nat
    /\ known \subseteq added /\ DueTimers \subseteq added
    /\ pc \in [Thread -> {"free", "start", "sleep", "paused", "scan", "scanned", "run",
                          "exited", "launched", "callback", "leave"}]
    /\ job \in [Thread -> Timer \cup {None}]
    /\ call \in [Actor -> {"none", "AddTimer", "mark", "drain", "Pause", "~KTimer",
                           "join", "flight", "destroyed"}]
    /\ target \in [Actor -> Timer \cup {None}]
    /\ begun \subseteq Timer /\ stopped \subseteq Timer

\* "After Cancel() returned the callback is not running and will not run again": also
\* for callbacks the timing thread had already extracted, or whose thread was launched.
CancelIsFinal ==
    \A t \in stopped, h \in Thread : ~(pc[h] = "callback" /\ job[h] = t)

\* "waits for the timing thread and for all callbacks still in flight": when the
\* destructor returns, no thread of this KTimer exists, not even one that has not
\* started its callback yet, or has just finished it.
DtorLeavesNoThread ==
    (\E a \in Caller : call[a] = "destroyed") =>
        \A h \in Thread : pc[h] \in {"free", "exited"}

\* "calls cb exactly once": a CallOnce callback is never started a second time,
\* whatever Restart() and the timing thread do to the timer.
OnceAtMostOnce ==
    [][\A t \in Once : iRunning'[t] > iRunning[t] => t \notin begun]_vars

\* A timer that is due is extracted, unless it is cancelled, restarted, or the timing
\* thread is paused or shut down: neither AddTimer nor Restart is overlooked while the
\* thread sleeps on its cached next deadline (m_bAddedTimer).
DueTimerRuns ==
    \A t \in Timer : t \in due ~> t \notin due \/ m_bPause \/ m_bShutdown

\* Cancel(), Pause() and the destructor wait for other threads, but never for ever.
CallsReturn ==
    \A a \in Actor : call[a] # "none" ~> call[a] \in {"none", "destroyed"}

\* (documented, does not hold) ktimer.h: "Pause() will not return before the timing
\* thread has paused": when it returns, the thread is not in the middle of a round.
PauseMeansPaused ==
    [][\A a \in Caller : call[a] = "Pause" /\ call'[a] = "none" /\ ~m_bShutdown =>
         pc[timing] \notin {"scan", "scanned", "run", "callback"}]_vars

=============================================================================
