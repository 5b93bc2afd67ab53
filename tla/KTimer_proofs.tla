----------------------------- MODULE KTimer_proofs --------------------------
(***************************************************************************)
(* Theorems about KTimer, for any callers, timers and callback threads.    *)
(***************************************************************************)
EXTENDS KTimer, FiniteSetTheorems, TLAPS

-----------------------------------------------------------------------------
\* Who is where.

PC    == {"free", "start", "sleep", "paused", "scan", "scanned", "run", "exited",
          "launched", "callback", "leave"}
Calls == {"none", "AddTimer", "mark", "drain", "Pause", "~KTimer", "join", "flight",
          "destroyed"}

Places ==
    /\ pc \in [Thread -> PC] /\ job \in [Thread -> Timer \cup {None}]
    /\ call \in [Actor -> Calls] /\ target \in [Actor -> Timer \cup {None}]
    /\ bCancelled \in [Timer -> BOOLEAN] /\ iRunning \in [Timer -> Nat] /\ iInFlight \in Nat
    /\ \A h \in Thread : /\ pc[h] \in {"callback", "launched"} => job[h] \in Timer
                         /\ pc[h] \in {"launched", "leave"} => h \in CallbackThread
    /\ \A a \in Actor : call[a] \in {"AddTimer", "mark", "drain"} => target[a] \in Timer

\* The threads inside a callback of timer t, and those whose flight is counted.
RunningIn(t) == {h \in Thread : pc[h] = "callback" /\ job[h] = t}
InFlight     == {h \in CallbackThread : pc[h] # "free"}

\* The counters that Cancel() and the destructor wait on are exact.
Counted == /\ \A t \in Timer : iRunning[t] = Cardinality(RunningIn(t))
           /\ iInFlight = Cardinality(InFlight)

\* A stopped timer is cancelled and idle, a drained one is cancelled.
Stopped == /\ \A t \in stopped : t \in Timer /\ bCancelled[t] /\ RunningIn(t) = {}
           /\ \A a \in Actor : call[a] = "drain" => bCancelled[target[a]]

\* A caller is destroying the timer: it is the only one in a call, and from the join on
\* it keeps the mutex that a thread is created under.
Destroying == {"~KTimer", "join", "flight", "destroyed"}
Joined(a)  == call[a] \in {"flight", "destroyed"}
OneDestroys ==
    /\ \A a \in Actor : call[a] \in Destroying \cup {"Pause"} => a \in Caller
    /\ \A a \in Caller : call[a] \in Destroying =>
         /\ m_bShutdown
         /\ \A b \in Caller : b # a => call[b] = "none"
         /\ call[a] # "~KTimer" => m_ThreadCreationMutex = a
         /\ Joined(a) => pc[timing] \in {"free", "exited"}
         /\ call[a] = "destroyed" => InFlight = {}

IInv == Places /\ Counted /\ Stopped /\ OneDestroys

LEMMA ThreadsAreFinite ==
    /\ IsFiniteSet(Thread) /\ IsFiniteSet(CallbackThread) /\ timing \in Thread
    /\ CallbackThread \subseteq Thread /\ Thread \subseteq Actor /\ Caller \subseteq Actor
    /\ timing \notin CallbackThread /\ None \notin Timer /\ None \notin Actor
    /\ \A a \in Caller : a \notin Thread
  BY KTimerAssumption, FS_AddElement DEF Thread, Actor

LEMMA TimerInit == Init => IInv
  <1> SUFFICES ASSUME Init PROVE IInv
    OBVIOUS
  <1>1. Places
    BY ThreadsAreFinite DEF Init, Places, PC, Calls
  <1>2. Counted
    <2>1. InFlight = {} /\ \A t \in Timer : RunningIn(t) = {}
      BY ThreadsAreFinite DEF Init, InFlight, RunningIn
    <2> QED
      BY <2>1, FS_EmptySet DEF Init, Counted
  <1>3. Stopped /\ OneDestroys
    BY ThreadsAreFinite DEF Init, Stopped, OneDestroys, Destroying
  <1> QED
    BY <1>1, <1>2, <1>3 DEF IInv

\* What the counters count is finite.
LEMMA FiniteCounts ==
    /\ IsFiniteSet(InFlight) /\ \A t \in Timer : IsFiniteSet(RunningIn(t))
  <1>1. InFlight \subseteq CallbackThread /\ \A t \in Timer : RunningIn(t) \subseteq Thread
    BY DEF InFlight, RunningIn
  <1> QED
    BY <1>1, ThreadsAreFinite, FS_Subset

-----------------------------------------------------------------------------
\* Steps of threads.

\* The threads of all steps that do not start or end a callback or a flight: the timing
\* thread moves, or none does.
LEMMA CountsStay ==
    ASSUME Places, Counted, UNCHANGED <<job, iRunning, iInFlight>>,
           NEW p \in PC \ {"callback"}, pc[timing] # "callback",
           pc' \in {pc, [pc EXCEPT ![timing] = p]}
    PROVE  /\ Counted' /\ UNCHANGED InFlight
           /\ \A t \in Timer : RunningIn(t)' = RunningIn(t)
  <1>1. \A h \in Thread : h # timing => pc'[h] = pc[h]
    BY ThreadsAreFinite DEF Places
  <1>2. pc'[timing] # "callback"
    BY ThreadsAreFinite DEF Places
  <1>3. InFlight' = InFlight
    BY <1>1, ThreadsAreFinite DEF InFlight
  <1>4. \A t \in Timer : RunningIn(t)' = RunningIn(t)
    BY <1>1, <1>2, ThreadsAreFinite DEF RunningIn
  <1> QED
    BY <1>3, <1>4 DEF Counted

\* Steps in which no thread moves and no timer is cancelled: an actor enters a function
\* of the timer or returns from it.
LEMMA CallsMove ==
    ASSUME IInv, UNCHANGED <<threads, control, stopped>>,
           NEW a \in Actor, NEW fn \in Calls \ {"drain"}, NEW t \in Timer \cup {None},
           fn \in {"AddTimer", "mark"} => t \in Timer, Enter(a, fn, t)
    PROVE  Places' /\ Counted' /\ Stopped' /\ UNCHANGED InFlight
  <1>1. UNCHANGED <<pc, job, iInFlight, bCancelled, iRunning>>
    BY DEF threads, control
  <1>2. UNCHANGED InFlight /\ \A u \in Timer : RunningIn(u)' = RunningIn(u)
    BY <1>1 DEF InFlight, RunningIn
  <1>3. Counted'
    BY <1>1, <1>2 DEF IInv, Counted
  <1>4. Places'
    BY <1>1 DEF IInv, Places, Enter
  <1>5. Stopped'
    <2>1. \A u \in stopped' : u \in Timer /\ bCancelled'[u] /\ RunningIn(u)' = {}
      BY <1>1, <1>2 DEF IInv, Stopped
    <2>2. \A b \in Actor : call'[b] = "drain" => bCancelled'[target'[b]]
      BY <1>1 DEF IInv, Stopped, Places, Enter
    <2> QED
      BY <2>1, <2>2 DEF Stopped
  <1> QED
    BY <1>2, <1>3, <1>4, <1>5

\* Steps in which nobody moves at all.
LEMMA NobodyMoves ==
    ASSUME IInv, UNCHANGED <<threads, control, calls, stopped, m_bShutdown,
                             m_ThreadCreationMutex>>
    PROVE  IInv'
  <1>1. UNCHANGED <<pc, job, iInFlight, bCancelled, iRunning, call, target>>
    BY DEF threads, control, calls
  <1>2. UNCHANGED InFlight /\ \A u \in Timer : RunningIn(u)' = RunningIn(u)
    BY <1>1 DEF InFlight, RunningIn
  <1>3. Places' /\ Counted'
    BY <1>1, <1>2 DEF IInv, Places, Counted
  <1>4. Stopped'
    BY <1>1, <1>2 DEF IInv, Stopped
  <1>5. OneDestroys'
    BY <1>1, <1>2 DEF IInv, OneDestroys, Joined
  <1> QED
    BY <1>3, <1>4, <1>5 DEF IInv

\* Steps of the timing thread, or of who starts it, outside callbacks.
LEMMA TimingThreadMoves ==
    ASSUME IInv, UNCHANGED <<job, iInFlight, control, calls, stopped, m_bShutdown,
                             m_ThreadCreationMutex>>,
           NEW p \in PC \ {"callback", "launched", "leave"},
           pc[timing] \notin {"free", "exited", "callback"},
           pc' = [pc EXCEPT ![timing] = p]
    PROVE  IInv'
  <1>1. UNCHANGED <<job, iInFlight, bCancelled, iRunning, call, target>>
    BY DEF control, calls
  <1>2. Counted' /\ UNCHANGED InFlight /\ \A t \in Timer : RunningIn(t)' = RunningIn(t)
    BY <1>1, CountsStay DEF IInv
  <1>3. Places'
    BY <1>1, ThreadsAreFinite DEF IInv, Places
  <1>4. Stopped'
    BY <1>1, <1>2 DEF IInv, Stopped
  <1>5. OneDestroys'
    BY <1>1, <1>2 DEF IInv, OneDestroys, Joined
  <1> QED
    BY <1>2, <1>3, <1>4, <1>5 DEF IInv

-----------------------------------------------------------------------------
\* The steps of actors that call the timer.

LEMMA CallsKeep ==
    ASSUME IInv, NEW a \in Actor, NEW t \in Timer,
           AddTimerCall(a, t) \/ Cancel(a, t) \/ Restart(a, t)
    PROVE  IInv'
  <1>1. CASE AddTimerCall(a, t)
    <2>1. Places' /\ Counted' /\ Stopped' /\ UNCHANGED InFlight
      BY <1>1, CallsMove DEF AddTimerCall, Calls, history
    <2>2. OneDestroys'
      BY <1>1, <2>1, ThreadsAreFinite
      DEF IInv, Places, OneDestroys, Joined, Destroying, AddTimerCall, MayCall, Enter, threads
    <2> QED
      BY <2>1, <2>2 DEF IInv
  <1>2. CASE Cancel(a, t)
    <2>1. Places' /\ Counted' /\ Stopped' /\ UNCHANGED InFlight
      BY <1>2, CallsMove DEF Cancel, Calls, history
    <2>2. OneDestroys'
      BY <1>2, <2>1, ThreadsAreFinite
      DEF IInv, Places, OneDestroys, Joined, Destroying, Cancel, MayCall, Enter, threads
    <2> QED
      BY <2>1, <2>2 DEF IInv
  <1>3. CASE Restart(a, t)
    BY <1>3, NobodyMoves DEF Restart, history
  <1> QED
    BY <1>1, <1>2, <1>3

LEMMA PausesKeep ==
    ASSUME IInv, NEW a \in Actor, PauseCall(a) \/ PauseReturn(a) \/ Resume(a)
    PROVE  IInv'
  <1>1. CASE PauseCall(a) /\ m_TimingThread
    <2>1. Places' /\ Counted' /\ Stopped' /\ UNCHANGED InFlight
      BY <1>1, CallsMove DEF PauseCall, Calls, history
    <2>2. OneDestroys'
      BY <1>1, <2>1, ThreadsAreFinite
      DEF IInv, Places, OneDestroys, Joined, Destroying, PauseCall, MayCall, Enter, threads
    <2> QED
      BY <2>1, <2>2 DEF IInv
  <1>2. CASE PauseCall(a) /\ ~m_TimingThread
    BY <1>2, NobodyMoves DEF PauseCall, history
  <1>3. CASE PauseReturn(a)
    <2>1. Places' /\ Counted' /\ Stopped' /\ UNCHANGED InFlight
      BY <1>3, CallsMove DEF PauseReturn, Return, Calls, history
    <2>2. \A b \in Caller : call[b] \notin Destroying
      BY <1>3 DEF IInv, OneDestroys, Destroying, PauseReturn
    <2>3. OneDestroys'
      BY <1>3, <2>1, <2>2, ThreadsAreFinite
      DEF IInv, Places, OneDestroys, Joined, Destroying, PauseReturn, Return, Enter, threads
    <2> QED
      BY <2>1, <2>3 DEF IInv
  <1>4. CASE Resume(a)
    BY <1>4, NobodyMoves DEF Resume, history
  <1> QED
    BY <1>1, <1>2, <1>3, <1>4

\* The destructor: at the join no timing thread is left, at the end no flight.
LEMMA DtorKeeps ==
    ASSUME IInv, NEW a \in Actor,
           DtorCall(a) \/ DtorLock(a) \/ DtorJoin(a) \/ DtorFlight(a)
    PROVE  IInv'
  <1>1. Places' /\ Counted' /\ Stopped' /\ UNCHANGED InFlight
    BY CallsMove DEF DtorCall, DtorLock, DtorJoin, DtorFlight, Calls, history
  <1>2. CASE DtorCall(a)
    BY <1>1, <1>2, ThreadsAreFinite
    DEF IInv, Places, OneDestroys, Joined, Destroying, DtorCall, MayCall, Enter, threads
  <1>3. CASE DtorLock(a)
    <2>1. OneDestroys'
      BY <1>1, <1>3, ThreadsAreFinite
      DEF IInv, Places, OneDestroys, Joined, Destroying, DtorLock, Enter, threads
    <2> QED
      BY <1>1, <2>1 DEF IInv
  <1>4. CASE DtorJoin(a)
    <2>1. OneDestroys'
      BY <1>1, <1>4, ThreadsAreFinite
      DEF IInv, Places, OneDestroys, Joined, Destroying, DtorJoin, Enter, threads
    <2> QED
      BY <1>1, <2>1 DEF IInv
  <1>5. CASE DtorFlight(a)
    <2>1. InFlight = {}
      BY <1>5, FiniteCounts, FS_EmptySet DEF DtorFlight, IInv, Counted
    <2>2. OneDestroys'
      BY <1>1, <1>5, <2>1, ThreadsAreFinite
      DEF IInv, Places, OneDestroys, Joined, Destroying, DtorFlight, Enter, threads
    <2> QED
      BY <1>1, <2>2 DEF IInv
  <1> QED
    BY <1>2, <1>3, <1>4, <1>5

\* Cancel: marked first, stopped when the counter of the running callbacks is zero.
LEMMA CancelKeeps ==
    ASSUME IInv, NEW a \in Actor, CancelMark(a) \/ CancelDrain(a)
    PROVE  IInv'
  <1> DEFINE t == target[a]
  <1>1. t \in Timer
    BY DEF CancelMark, CancelDrain, IInv, Places
  <1>2. CASE CancelMark(a)
    <2>1. UNCHANGED <<pc, job, iInFlight, iRunning, stopped, m_bShutdown, m_ThreadCreationMutex>>
      BY <1>2 DEF CancelMark, threads, history
    <2>2. UNCHANGED InFlight /\ \A u \in Timer : RunningIn(u)' = RunningIn(u)
      BY <2>1 DEF InFlight, RunningIn
    <2>3. bCancelled' = [bCancelled EXCEPT ![t] = TRUE]
      BY <1>2 DEF CancelMark
    <2>4. PICK fn \in {"none", "drain"}, u \in {t, None} :
             Enter(a, fn, u) /\ (fn = "drain" => u = t)
      BY <1>2 DEF CancelMark, Return
    <2>5. Places'
      BY <1>1, <2>1, <2>3, <2>4 DEF IInv, Places, Enter, Calls
    <2>6. Counted'
      BY <2>1, <2>2 DEF IInv, Counted
    <2>7. Stopped'
      BY <1>1, <2>1, <2>2, <2>3, <2>4 DEF IInv, Places, Stopped, Enter
    <2>8. OneDestroys'
      BY <1>2, <2>1, <2>2, <2>4, ThreadsAreFinite
      DEF IInv, Places, OneDestroys, Joined, Destroying, CancelMark, Enter
    <2> QED
      BY <2>5, <2>6, <2>7, <2>8 DEF IInv
  <1>3. CASE CancelDrain(a)
    <2>1. UNCHANGED <<pc, job, iInFlight, iRunning, bCancelled, m_bShutdown, m_ThreadCreationMutex>>
      BY <1>3 DEF CancelDrain, threads, control
    <2>2. UNCHANGED InFlight /\ \A u \in Timer : RunningIn(u)' = RunningIn(u)
      BY <2>1 DEF InFlight, RunningIn
    <2>3. call' = [call EXCEPT ![a] = "none"] /\ target' = [target EXCEPT ![a] = None]
      BY <1>3 DEF CancelDrain, Return, Enter
    <2>4. Places' /\ Counted'
      BY <2>1, <2>2, <2>3 DEF IInv, Places, Counted, Calls
    <2>5. bCancelled[t] /\ RunningIn(t) = {}
      BY <1>1, <1>3, FiniteCounts, FS_EmptySet DEF CancelDrain, IInv, Stopped, Counted
    <2>6. Stopped'
      <3>1. \A u \in stopped' : u \in Timer /\ bCancelled'[u] /\ RunningIn(u)' = {}
        BY <1>1, <1>3, <2>1, <2>2, <2>5 DEF CancelDrain, IInv, Stopped
      <3>2. \A b \in Actor : call'[b] = "drain" => bCancelled'[target'[b]]
        BY <2>1, <2>3 DEF IInv, Stopped, Places
      <3> QED
        BY <3>1, <3>2 DEF Stopped
    <2>7. OneDestroys'
      BY <1>3, <2>1, <2>2, <2>3, ThreadsAreFinite
      DEF IInv, Places, OneDestroys, Joined, Destroying, CancelDrain
    <2> QED
      BY <2>4, <2>6, <2>7 DEF IInv
  <1> QED
    BY <1>2, <1>3

\* AddTimer needs the mutex, so the destructor, behind its join, sees no new thread.
LEMMA AddTimerKeeps ==
    ASSUME IInv, NEW a \in Actor, AddTimer(a)
    PROVE  IInv'
  <1>1. UNCHANGED <<job, iInFlight, bCancelled, iRunning, stopped, m_bShutdown, m_ThreadCreationMutex>>
    BY DEF AddTimer, control, history
  <1>2. call' = [call EXCEPT ![a] = "none"] /\ target' = [target EXCEPT ![a] = None]
    BY DEF AddTimer, Return, Enter
  <1>3. pc' = pc \/ (pc[timing] = "free" /\ pc' = [pc EXCEPT ![timing] = "start"])
    BY DEF AddTimer, m_TimingThread
  <1>4. Counted' /\ UNCHANGED InFlight /\ \A t \in Timer : RunningIn(t)' = RunningIn(t)
    <2>1. CASE pc' = pc
      <3>1. UNCHANGED InFlight /\ \A u \in Timer : RunningIn(u)' = RunningIn(u)
        BY <1>1, <2>1 DEF InFlight, RunningIn
      <3> QED
        BY <1>1, <3>1 DEF IInv, Counted
    <2>2. CASE pc[timing] = "free" /\ pc' = [pc EXCEPT ![timing] = "start"]
      BY <1>1, <2>2, CountsStay DEF IInv, PC
    <2> QED
      BY <1>3, <2>1, <2>2
  <1>5. Places'
    BY <1>1, <1>2, <1>3, ThreadsAreFinite DEF IInv, Places, Calls, PC
  <1>6. Stopped'
    <2>1. \A u \in stopped' : u \in Timer /\ bCancelled'[u] /\ RunningIn(u)' = {}
      BY <1>1, <1>4 DEF IInv, Stopped
    <2>2. \A b \in Actor : call'[b] = "drain" => bCancelled'[target'[b]]
      BY <1>1, <1>2 DEF IInv, Stopped, Places
    <2> QED
      BY <2>1, <2>2 DEF Stopped
  <1>7. OneDestroys'
    <2>1. \A b \in Caller : call[b] \in Destroying => call[b] = "~KTimer" /\ b # a
      BY ThreadsAreFinite DEF IInv, OneDestroys, Destroying, AddTimer
    <2> QED
      BY <1>1, <1>2, <1>4, <2>1 DEF IInv, Places, OneDestroys, Joined, Destroying
  <1> QED
    BY <1>4, <1>5, <1>6, <1>7 DEF IInv

-----------------------------------------------------------------------------
\* The steps that start and end callbacks and flights.

\* A thread moves about outside callbacks, and out of the destructor's way.
LEMMA StoppedStays ==
    ASSUME Stopped, UNCHANGED <<call, target, stopped, bCancelled>>,
           \A t \in stopped : t \in Timer => RunningIn(t)' \subseteq RunningIn(t)
    PROVE  Stopped'
  BY DEF Stopped

\* What starting a callback in thread h does, when h is not in one: the counter of the
\* timer rises with the set of those inside, unless the timer is cancelled.
LEMMA StartCounts ==
    ASSUME IInv, NEW h \in Thread, NEW t \in Timer, pc[h] # "callback", Start(h, t),
           UNCHANGED <<bCancelled, iInFlight, stopped, call, target>>,
           NEW p \in PC \ {"callback"},
           pc' = [pc EXCEPT ![h] = IF job'[h] = t THEN "callback" ELSE p]
    PROVE  /\ \A u \in Timer : iRunning'[u] = Cardinality(RunningIn(u)')
           /\ iRunning' \in [Timer -> Nat]
           /\ Stopped'
           /\ \A i \in Thread : i # h => pc'[i] = pc[i] /\ job'[i] = job[i]
           /\ pc'[h] \in {"callback", p} /\ job'[h] \in {t, None}
           /\ pc'[h] = "callback" => job'[h] = t
           /\ pc' \in [Thread -> PC] /\ job' \in [Thread -> Timer \cup {None}]
  <1>1. h \notin RunningIn(t) /\ \A u \in Timer : h \notin RunningIn(u)
    BY DEF RunningIn
  <1>2. CASE bCancelled[t]
    <2>1. job' = [job EXCEPT ![h] = None] /\ UNCHANGED iRunning
      BY <1>2 DEF Start
    <2>2. job'[h] = None /\ pc'[h] = p
      BY <2>1, ThreadsAreFinite DEF IInv, Places
    <2>3. \A i \in Thread : i # h => pc'[i] = pc[i] /\ job'[i] = job[i]
      BY <2>1 DEF IInv, Places
    <2>4. \A u \in Timer : RunningIn(u)' = RunningIn(u)
      BY <1>1, <2>2, <2>3 DEF RunningIn
    <2>5. pc' \in [Thread -> PC] /\ job' \in [Thread -> Timer \cup {None}]
      BY <2>1 DEF IInv, Places, PC
    <2>6. Stopped'
      BY <2>4, StoppedStays DEF IInv
    <2> QED
      BY <2>1, <2>2, <2>3, <2>4, <2>5, <2>6 DEF IInv, Counted, Places
  <1>3. CASE ~bCancelled[t]
    <2>1. /\ job' = [job EXCEPT ![h] = t]
          /\ iRunning' = [iRunning EXCEPT ![t] = @ + 1]
      BY <1>3 DEF Start
    <2>2. job'[h] = t /\ pc'[h] = "callback"
      BY <2>1 DEF IInv, Places
    <2>3. \A i \in Thread : i # h => pc'[i] = pc[i] /\ job'[i] = job[i]
      BY <2>1 DEF IInv, Places
    <2>4. RunningIn(t)' = RunningIn(t) \cup {h}
      BY <2>2, <2>3 DEF RunningIn
    <2>5. \A u \in Timer \ {t} : RunningIn(u)' = RunningIn(u)
      BY <1>1, <2>2, <2>3 DEF RunningIn
    <2>6. iRunning'[t] = Cardinality(RunningIn(t)')
      <3>1. iRunning'[t] = iRunning[t] + 1
        BY <2>1 DEF IInv, Places
      <3> QED
        BY <1>1, <2>4, <3>1, FiniteCounts, FS_AddElement DEF IInv, Counted
    <2>7. \A u \in Timer \ {t} : iRunning'[u] = Cardinality(RunningIn(u)')
      BY <2>1, <2>5 DEF IInv, Counted, Places
    <2>8. pc' \in [Thread -> PC] /\ job' \in [Thread -> Timer \cup {None}]
      BY <2>1 DEF IInv, Places, PC
    <2>9. iRunning' \in [Timer -> Nat]
      BY <2>1 DEF IInv, Places
    <2>10. Stopped'
      <3>1. t \notin stopped
        BY <1>3 DEF IInv, Stopped
      <3> QED
        BY <2>5, <3>1, StoppedStays DEF IInv
    <2> QED
      BY <2>2, <2>3, <2>6, <2>7, <2>8, <2>9, <2>10
  <1> QED
    BY <1>2, <1>3

LEMMA RunDueInlineKeeps ==
    ASSUME IInv, NEW t \in Timer, RunDueInline(t)
    PROVE  IInv'
  <1>1. /\ UNCHANGED <<bCancelled, iInFlight, stopped, call, target, m_bShutdown,
                       m_ThreadCreationMutex>>
        /\ pc[timing] = "run" /\ Start(timing, t)
    BY DEF RunDueInline, calls
  <1>2. pc' = [pc EXCEPT ![timing] = IF job'[timing] = t THEN "callback" ELSE "run"]
    BY <1>1, ThreadsAreFinite DEF RunDueInline, IInv, Places
  <1>3. /\ \A u \in Timer : iRunning'[u] = Cardinality(RunningIn(u)')
        /\ iRunning' \in [Timer -> Nat]
        /\ Stopped'
        /\ \A i \in Thread : i # timing => pc'[i] = pc[i] /\ job'[i] = job[i]
        /\ pc'[timing] \in {"callback", "run"}
        /\ pc'[timing] = "callback" => job'[timing] = t
        /\ pc' \in [Thread -> PC] /\ job' \in [Thread -> Timer \cup {None}]
    BY <1>1, <1>2, StartCounts, ThreadsAreFinite DEF PC
  <1>4. UNCHANGED InFlight
    BY <1>3, ThreadsAreFinite DEF InFlight
  <1>5. Counted'
    BY <1>1, <1>3, <1>4 DEF IInv, Counted
  <1>6. Places'
    BY <1>1, <1>3 DEF IInv, Places
  <1>7. OneDestroys'
    BY <1>1, <1>3, <1>4 DEF IInv, OneDestroys, Joined, Destroying
  <1> QED
    BY <1>3, <1>5, <1>6, <1>7 DEF IInv

LEMMA RunGuardedKeeps ==
    ASSUME IInv, NEW h \in Thread, RunGuarded(h)
    PROVE  IInv'
  <1>1. PICK t \in Timer : t = job[h]
    BY DEF RunGuarded, IInv, Places
  <1>2. /\ UNCHANGED <<bCancelled, iInFlight, stopped, call, target, m_bShutdown,
                       m_ThreadCreationMutex>>
        /\ pc[h] = "launched" /\ Start(h, t) /\ h \in CallbackThread /\ h # timing
    BY <1>1, ThreadsAreFinite DEF RunGuarded, calls, IInv, Places
  <1>3. job'[h] \in {t, None} /\ t # None
    BY <1>2, ThreadsAreFinite DEF Start, IInv, Places
  <1>4. pc' = [pc EXCEPT ![h] = IF job'[h] = t THEN "callback" ELSE "leave"]
    BY <1>3 DEF RunGuarded
  <1>5. /\ \A u \in Timer : iRunning'[u] = Cardinality(RunningIn(u)')
        /\ iRunning' \in [Timer -> Nat]
        /\ Stopped'
        /\ \A i \in Thread : i # h => pc'[i] = pc[i] /\ job'[i] = job[i]
        /\ pc'[h] \in {"callback", "leave"}
        /\ pc'[h] = "callback" => job'[h] = t
        /\ pc' \in [Thread -> PC] /\ job' \in [Thread -> Timer \cup {None}]
    BY <1>2, <1>4, StartCounts DEF PC
  <1>6. UNCHANGED InFlight
    BY <1>2, <1>5, ThreadsAreFinite DEF InFlight
  <1>7. Counted'
    BY <1>2, <1>5, <1>6 DEF IInv, Counted
  <1>8. Places'
    BY <1>2, <1>5 DEF IInv, Places
  <1>9. OneDestroys'
    BY <1>2, <1>5, <1>6, ThreadsAreFinite DEF IInv, OneDestroys, Joined, Destroying
  <1> QED
    BY <1>5, <1>7, <1>8, <1>9 DEF IInv

\* The flight is counted when the thread is created, and ends when the thread does.
LEMMA RunDueOwnThreadKeeps ==
    ASSUME IInv, NEW t \in Timer, NEW h \in CallbackThread, RunDueOwnThread(t, h)
    PROVE  IInv'
  <1>1. /\ UNCHANGED <<bCancelled, iRunning, stopped, call, target, m_bShutdown,
                       m_ThreadCreationMutex>>
        /\ pc[timing] = "run" /\ pc[h] = "free" /\ h # timing /\ h \in Thread
        /\ pc' = [pc EXCEPT ![h] = "launched"] /\ job' = [job EXCEPT ![h] = t]
        /\ iInFlight' = iInFlight + 1
    BY ThreadsAreFinite DEF RunDueOwnThread, calls, control, history
  <1>2. /\ \A i \in Thread : i # h => pc'[i] = pc[i] /\ job'[i] = job[i]
        /\ pc'[h] = "launched" /\ job'[h] = t
    BY <1>1 DEF IInv, Places
  <1>3. InFlight' = InFlight \cup {h} /\ h \notin InFlight
    BY <1>1, <1>2, ThreadsAreFinite DEF InFlight
  <1>4. \A u \in Timer : RunningIn(u)' = RunningIn(u)
    BY <1>1, <1>2 DEF RunningIn
  <1>5. iInFlight' = Cardinality(InFlight')
    BY <1>1, <1>3, FiniteCounts, FS_AddElement DEF IInv, Counted
  <1>6. Counted'
    BY <1>1, <1>4, <1>5 DEF IInv, Counted
  <1>7. Places'
    BY <1>1, <1>2 DEF IInv, Places, PC
  <1>8. Stopped'
    BY <1>1, <1>4, StoppedStays DEF IInv
  <1>9. OneDestroys'
    <2>1. \A a \in Caller : call[a] \in Destroying => ~Joined(a)
      BY <1>1 DEF IInv, OneDestroys
    <2> QED
      BY <1>1, <1>2, <2>1 DEF IInv, OneDestroys, Joined, Destroying
  <1> QED
    BY <1>6, <1>7, <1>8, <1>9 DEF IInv

LEMMA LeaveKeeps ==
    ASSUME IInv, NEW h \in Thread, Leave(h)
    PROVE  IInv'
  <1>1. /\ UNCHANGED <<bCancelled, iRunning, stopped, call, target, job, m_bShutdown,
                       m_ThreadCreationMutex>>
        /\ pc[h] = "leave" /\ h \in CallbackThread /\ h # timing
        /\ pc' = [pc EXCEPT ![h] = "free"] /\ iInFlight' = iInFlight - 1
    BY ThreadsAreFinite DEF Leave, calls, control, history, IInv, Places
  <1>2. /\ \A i \in Thread : i # h => pc'[i] = pc[i]
        /\ pc'[h] = "free"
    BY <1>1 DEF IInv, Places
  <1>3. InFlight' = InFlight \ {h} /\ h \in InFlight
    BY <1>1, <1>2, ThreadsAreFinite DEF InFlight
  <1>4. \A u \in Timer : RunningIn(u)' = RunningIn(u)
    BY <1>1, <1>2 DEF RunningIn
  <1>5. iInFlight' = Cardinality(InFlight') /\ iInFlight' \in Nat
    <2>1. IsFiniteSet(InFlight \ {h})
      BY FiniteCounts, FS_RemoveElement
    <2> QED
      BY <1>1, <1>3, <2>1, FiniteCounts, FS_RemoveElement, FS_CardinalityType DEF IInv, Counted
  <1>6. Counted'
    BY <1>1, <1>4, <1>5 DEF IInv, Counted
  <1>7. Places'
    BY <1>1, <1>2, <1>5 DEF IInv, Places, PC
  <1>8. Stopped'
    BY <1>1, <1>4, StoppedStays DEF IInv
  <1>9. OneDestroys'
    BY <1>1, <1>2, <1>3, ThreadsAreFinite DEF IInv, OneDestroys, Joined, Destroying
  <1> QED
    BY <1>6, <1>7, <1>8, <1>9 DEF IInv

\* A callback ends: the counter falls with the set of those inside.
LEMMA CallbackEndsKeeps ==
    ASSUME IInv, NEW h \in Thread, CallbackEnds(h)
    PROVE  IInv'
  <1>1. PICK t \in Timer : t = job[h]
    BY DEF CallbackEnds, IInv, Places
  <1>2. /\ UNCHANGED <<bCancelled, iInFlight, stopped, call, target, m_bShutdown,
                       m_ThreadCreationMutex>>
        /\ pc[h] = "callback"
        /\ iRunning' = [iRunning EXCEPT ![t] = @ - 1]
        /\ pc' = [pc EXCEPT ![h] = IF h = timing THEN "run" ELSE "leave"]
        /\ job' = [job EXCEPT ![h] = None]
    BY <1>1 DEF CallbackEnds, calls, history
  <1>3. /\ \A i \in Thread : i # h => pc'[i] = pc[i] /\ job'[i] = job[i]
        /\ pc'[h] = IF h = timing THEN "run" ELSE "leave"
    BY <1>2 DEF IInv, Places
  <1>4. RunningIn(t)' = RunningIn(t) \ {h} /\ h \in RunningIn(t)
    BY <1>1, <1>2, <1>3 DEF RunningIn
  <1>5. \A u \in Timer \ {t} : RunningIn(u)' = RunningIn(u)
    BY <1>1, <1>2, <1>3 DEF RunningIn
  <1>6. iRunning'[t] = Cardinality(RunningIn(t)') /\ iRunning'[t] \in Nat
    <2>1. IsFiniteSet(RunningIn(t) \ {h}) /\ iRunning'[t] = iRunning[t] - 1
      BY <1>2, FiniteCounts, FS_RemoveElement DEF IInv, Places
    <2> QED
      BY <1>4, <2>1, FiniteCounts, FS_RemoveElement, FS_CardinalityType DEF IInv, Counted
  <1>7. iRunning' \in [Timer -> Nat]
    BY <1>2, <1>6 DEF IInv, Places
  <1>8. UNCHANGED InFlight
    BY <1>2, <1>3 DEF InFlight
  <1>9. Counted'
    <2>1. \A u \in Timer \ {t} : iRunning'[u] = Cardinality(RunningIn(u)')
      BY <1>2, <1>5 DEF IInv, Counted, Places
    <2> QED
      BY <1>2, <1>6, <1>8, <2>1 DEF IInv, Counted
  <1>10. Places'
    <2>1. pc' \in [Thread -> PC] /\ job' \in [Thread -> Timer \cup {None}]
      BY <1>2 DEF IInv, Places, PC
    <2>2. h # timing => h \in CallbackThread
      BY DEF Thread
    <2> QED
      BY <1>2, <1>3, <1>7, <2>1, <2>2 DEF IInv, Places
  <1>11. Stopped'
    <2>1. \A u \in Timer : RunningIn(u)' \subseteq RunningIn(u)
      BY <1>4, <1>5
    <2> QED
      BY <1>2, <2>1, StoppedStays DEF IInv
  <1>12. OneDestroys'
    <2>1. ASSUME NEW a \in Caller, Joined(a)
          PROVE  h # timing
      BY <1>2, <2>1 DEF IInv, OneDestroys, Joined, Destroying
    <2>2. \A a \in Caller : Joined(a) => pc'[timing] = pc[timing]
      BY <1>3, <2>1, ThreadsAreFinite
    <2> QED
      BY <1>2, <1>8, <2>2 DEF IInv, OneDestroys, Joined, Destroying
  <1> QED
    BY <1>9, <1>10, <1>11, <1>12 DEF IInv

-----------------------------------------------------------------------------
\* The timing loop, all steps, and the theorems.

LEMMA LoopKeeps ==
    ASSUME IInv, LoopStep
    PROVE  IInv'
  <1>1. CASE LoopStart
    <2>1. PICK p \in {"exited", "sleep"} : pc' = [pc EXCEPT ![timing] = p]
      BY <1>1 DEF LoopStart, To
    <2> QED
      BY <1>1, <2>1, TimingThreadMoves DEF LoopStart, To, PC, history
  <1>2. CASE LoopWake
    <2>1. PICK p \in {"exited", "paused", "scan"} : pc' = [pc EXCEPT ![timing] = p]
      BY <1>2 DEF LoopWake, To
    <2> QED
      BY <1>2, <2>1, TimingThreadMoves DEF LoopWake, To, PC, history
  <1>3. CASE LoopUnpause
    <2>1. PICK p \in {"exited", "sleep", "scan"} : pc' = [pc EXCEPT ![timing] = p]
      BY <1>3 DEF LoopUnpause, To
    <2> QED
      BY <1>3, <2>1, TimingThreadMoves DEF LoopUnpause, To, PC, history
  <1>4. CASE LoopScan
    BY <1>4, TimingThreadMoves DEF LoopScan, To, PC, history
  <1>5. CASE LoopRun
    <2>1. PICK p \in {"exited", "run"} : pc' = [pc EXCEPT ![timing] = p]
      BY <1>5 DEF LoopRun, To
    <2> QED
      BY <1>5, <2>1, TimingThreadMoves DEF LoopRun, To, PC, history
  <1>6. CASE LoopAgain
    BY <1>6, TimingThreadMoves DEF LoopAgain, To, PC, history
  <1> QED
    BY <1>1, <1>2, <1>3, <1>4, <1>5, <1>6, RunDueInlineKeeps, RunDueOwnThreadKeeps
    DEF LoopStep

LEMMA TimerStep == IInv /\ [Next]_vars => IInv'
  <1> SUFFICES ASSUME IInv, [Next]_vars PROVE IInv'
    OBVIOUS
  <1>1. ASSUME NEW a \in Actor, CallStep(a)
        PROVE  IInv'
    BY <1>1, AddTimerKeeps, CancelKeeps, PausesKeep, DtorKeeps DEF CallStep
  <1>2. ASSUME NEW h \in Thread, ThreadStep(h)
        PROVE  IInv'
    BY <1>2, RunGuardedKeeps, CallbackEndsKeeps, LeaveKeeps DEF ThreadStep
  <1>3. ASSUME NEW t \in Timer, Expire(t)
        PROVE  IInv'
    BY <1>3, NobodyMoves DEF Expire, history
  <1>4. CASE UNCHANGED vars
    BY <1>4, NobodyMoves DEF vars, history
  <1> QED
    BY <1>1, <1>2, <1>3, <1>4, CallsKeep, PausesKeep, DtorKeeps, LoopKeeps DEF Next

LEMMA TimerInvariant == Spec => []IInv
  BY TimerInit, TimerStep, PTL DEF Spec

\* After Cancel() returned true, the callback is not running and does not run again: a
\* callback that has begun is counted in iRunning, which Cancel() waits for, and one that
\* was only extracted finds its timer cancelled.
THEOREM CancelStops == Spec => []CancelIsFinal
  <1>1. IInv => CancelIsFinal
    BY DEF IInv, Stopped, RunningIn, CancelIsFinal
  <1> QED
    BY <1>1, TimerInvariant, PTL

\* When the destructor returns, no thread of the timer is left: not the timing thread,
\* which nobody can start again behind the join, nor a detached one.
THEOREM DtorIsLast == Spec => []DtorLeavesNoThread
  <1>1. IInv => DtorLeavesNoThread
    BY ThreadsAreFinite
    DEF IInv, OneDestroys, Joined, Destroying, InFlight, Thread, DtorLeavesNoThread
  <1> QED
    BY <1>1, TimerInvariant, PTL
-----------------------------------------------------------------------------
\* CallOnce.  A one-time timer is in one place at a time: in the map, in the list of the
\* timing thread, in one launched thread, or among those whose callback was started; it
\* moves on from each place and never back.  So neither Restart(), which only finds it in
\* the map, nor a second round of the timing thread can start it again.

Launched(h, t) == pc[h] = "launched" /\ job[h] = t

OnceSpent ==
    /\ m_Timers \subseteq added /\ due \subseteq m_Timers
    /\ DueTimers \subseteq added /\ begun \subseteq added
    /\ \A h \in Thread : pc[h] = "launched" => job[h] \in added
    /\ \A a \in Actor : call[a] = "AddTimer" =>
         /\ target[a] \notin added
         /\ \A b \in Actor : b # a /\ call[b] = "AddTimer" => target[b] # target[a]
    /\ \A t \in Once :
         /\ t \in m_Timers => t \notin DueTimers
         /\ t \in m_Timers \cup DueTimers =>
              t \notin begun /\ \A h \in Thread : ~Launched(h, t)
         /\ \A h \in Thread : Launched(h, t) =>
              t \notin begun /\ \A i \in Thread : i # h => ~Launched(i, t)

LEMMA OnceInit == Init => OnceSpent
  BY DEF Init, OnceSpent, Launched

\* Steps by which no timer moves on, though it may be taken out of the map or the list.
LEMMA NoTimerMovesOn ==
    ASSUME OnceSpent, UNCHANGED <<added, begun>>,
           m_Timers' \subseteq m_Timers, due' \subseteq m_Timers', DueTimers' \subseteq DueTimers,
           \A h \in Thread : pc'[h] = "launched" => pc[h] = "launched" /\ job'[h] = job[h],
           \A a \in Actor : call'[a] = "AddTimer" => call[a] = "AddTimer" /\ target'[a] = target[a]
    PROVE  OnceSpent'
  BY DEF OnceSpent, Launched

\* An actor enters another function than AddTimer, or returns.
LEMMA OnceCalls ==
    ASSUME IInv, OnceSpent, NEW a \in Actor, NEW fn, fn # "AddTimer", NEW u, Enter(a, fn, u),
           m_Timers' \subseteq m_Timers, due' \subseteq m_Timers',
           UNCHANGED <<added, begun, DueTimers, pc, job>>
    PROVE  OnceSpent'
  <1>1. \A b \in Actor : call'[b] = "AddTimer" => call[b] = "AddTimer" /\ target'[b] = target[b]
    BY DEF Enter, IInv, Places
  <1> QED
    BY <1>1, NoTimerMovesOn

LEMMA OnceAdds ==
    ASSUME IInv, OnceSpent, NEW a \in Actor,
           AddTimer(a) \/ \E t \in Timer : AddTimerCall(a, t)
    PROVE  OnceSpent'
  <1>1. CASE AddTimer(a)
    <2>1. PICK t \in Timer : t = target[a]
      BY <1>1 DEF AddTimer, IInv, Places
    <2>2. /\ added' = added \cup {t} /\ m_Timers' = m_Timers \cup {t} /\ due' = due
          /\ DueTimers' = DueTimers /\ begun' = begun /\ job' = job
          /\ pc' = IF m_TimingThread THEN pc ELSE [pc EXCEPT ![timing] = "start"]
          /\ call' = [call EXCEPT ![a] = "none"] /\ target' = [target EXCEPT ![a] = None]
      BY <1>1, <2>1 DEF AddTimer, Insert, Return, Enter, loop, history
    <2>3. t \notin added /\ \A b \in Actor : b # a /\ call[b] = "AddTimer" => target[b] # t
      BY <1>1, <2>1 DEF AddTimer, OnceSpent
    <2>4. \A h \in Thread : pc'[h] = "launched" => pc[h] = "launched" /\ job'[h] = job[h]
      BY <2>2 DEF IInv, Places
    <2>5. \A b \in Actor : call'[b] = "AddTimer" =>
             call[b] = "AddTimer" /\ target'[b] = target[b] /\ b # a
      BY <2>2 DEF IInv, Places
    <2>6. \A b \in Actor : call'[b] = "AddTimer" =>
             /\ target'[b] \notin added'
             /\ \A c \in Actor : c # b /\ call'[c] = "AddTimer" => target'[c] # target'[b]
      BY <2>2, <2>3, <2>5 DEF OnceSpent
    <2>7. \A o \in Once :
             /\ o \in m_Timers' => o \notin DueTimers'
             /\ o \in m_Timers' \cup DueTimers' =>
                  o \notin begun' /\ \A h \in Thread : ~Launched(h, o)'
             /\ \A h \in Thread : Launched(h, o)' =>
                  o \notin begun' /\ \A i \in Thread : i # h => ~Launched(i, o)'
      BY <2>2, <2>3, <2>4 DEF OnceSpent, Launched
    <2>8. /\ m_Timers' \subseteq added' /\ due' \subseteq m_Timers'
          /\ DueTimers' \subseteq added' /\ begun' \subseteq added'
          /\ \A h \in Thread : pc'[h] = "launched" => job'[h] \in added'
      BY <2>2, <2>4 DEF OnceSpent
    <2> QED
      BY <2>6, <2>7, <2>8 DEF OnceSpent
  <1>2. ASSUME NEW t \in Timer, AddTimerCall(a, t)
        PROVE  OnceSpent'
    <2>1. /\ t \notin added /\ \A b \in Actor : call[b] = "AddTimer" => target[b] # t
          /\ call' = [call EXCEPT ![a] = "AddTimer"] /\ target' = [target EXCEPT ![a] = t]
          /\ UNCHANGED <<m_Timers, due, added, DueTimers, pc, job, begun>>
      BY <1>2 DEF AddTimerCall, Enter, map, loop, threads, history
    <2>2. \A b \in Actor : /\ b # a => call'[b] = call[b] /\ target'[b] = target[b]
                           /\ b = a => target'[b] = t
      BY <2>1 DEF IInv, Places
    <2>3. \A b \in Actor : call'[b] = "AddTimer" =>
             /\ target'[b] \notin added'
             /\ \A c \in Actor : c # b /\ call'[c] = "AddTimer" => target'[c] # target'[b]
      BY <2>1, <2>2 DEF OnceSpent
    <2> QED
      BY <2>1, <2>3 DEF OnceSpent, Launched
  <1> QED
    BY <1>1, <1>2

LEMMA OnceCalled ==
    ASSUME IInv, OnceSpent, NEW a \in Actor,
           \/ \E t \in Timer : Cancel(a, t) \/ Restart(a, t)
           \/ PauseCall(a) \/ Resume(a) \/ DtorCall(a)
           \/ CancelMark(a) \/ CancelDrain(a) \/ PauseReturn(a)
           \/ DtorLock(a) \/ DtorJoin(a) \/ DtorFlight(a)
    PROVE  OnceSpent'
  <1>0. due \subseteq m_Timers
    BY DEF OnceSpent
  <1>1. ASSUME NEW t \in Timer, Cancel(a, t)
        PROVE  OnceSpent'
    BY <1>0, <1>1, OnceCalls DEF Cancel, loop, threads, history
  <1>2. ASSUME NEW t \in Timer, Restart(a, t)
        PROVE  OnceSpent'
    BY <1>0, <1>2, NoTimerMovesOn DEF Restart, loop, threads, calls, history
  <1>3. CASE PauseCall(a) /\ m_TimingThread
    BY <1>0, <1>3, OnceCalls DEF PauseCall, map, loop, threads, history
  <1>4. CASE PauseCall(a) /\ ~m_TimingThread
    BY <1>0, <1>4, NoTimerMovesOn DEF PauseCall, map, loop, threads, calls, history
  <1>5. CASE Resume(a)
    BY <1>0, <1>5, NoTimerMovesOn DEF Resume, map, loop, threads, calls, history
  <1>6. CASE DtorCall(a) \/ DtorLock(a) \/ DtorJoin(a) \/ DtorFlight(a)
    BY <1>0, <1>6, OnceCalls
    DEF DtorCall, DtorLock, DtorJoin, DtorFlight, map, loop, threads, history
  <1>7. CASE CancelMark(a)
    BY <1>0, <1>7, OnceCalls DEF CancelMark, Return, map, loop, threads, history
  <1>8. CASE CancelDrain(a) \/ PauseReturn(a)
    BY <1>0, <1>8, OnceCalls DEF CancelDrain, PauseReturn, Return, map, loop, threads, history
  <1> QED
    BY <1>1, <1>2, <1>3, <1>4, <1>5, <1>6, <1>7, <1>8

\* The timers in the list move into a thread or begin, those in a thread begin.
LEMMA OnceRuns ==
    ASSUME IInv, OnceSpent,
           \/ \E t \in Timer : RunDueInline(t) \/ \E h \in CallbackThread : RunDueOwnThread(t, h)
           \/ \E h \in Thread : RunGuarded(h)
    PROVE  OnceSpent'
  <1>1. ASSUME NEW t \in Timer, RunDueInline(t)
        PROVE  OnceSpent'
    <2>1. /\ t \in DueTimers /\ DueTimers' = DueTimers \ {t} /\ begun' \subseteq begun \cup {t}
          /\ UNCHANGED <<m_Timers, due, added, call, target>>
      BY <1>1 DEF RunDueInline, Start, map, calls
    <2>2. \A h \in Thread : pc'[h] = "launched" => pc[h] = "launched" /\ job'[h] = job[h]
      BY <1>1, ThreadsAreFinite DEF RunDueInline, Start, IInv, Places
    <2> QED
      BY <2>1, <2>2 DEF OnceSpent, Launched
  <1>2. ASSUME NEW t \in Timer, NEW h \in CallbackThread, RunDueOwnThread(t, h)
        PROVE  OnceSpent'
    <2>1. /\ t \in DueTimers /\ DueTimers' = DueTimers \ {t} /\ pc[h] = "free"
          /\ pc' = [pc EXCEPT ![h] = "launched"] /\ job' = [job EXCEPT ![h] = t]
          /\ UNCHANGED <<m_Timers, due, added, begun, call, target>>
      BY <1>2 DEF RunDueOwnThread, map, calls, history
    <2>2. /\ pc'[h] = "launched" /\ job'[h] = t /\ h \in Thread
          /\ \A i \in Thread : i # h => pc'[i] = pc[i] /\ job'[i] = job[i]
      BY <2>1, ThreadsAreFinite DEF IInv, Places
    <2>3. \A o \in Once :
             /\ o \in m_Timers' => o \notin DueTimers'
             /\ o \in m_Timers' \cup DueTimers' =>
                  o \notin begun' /\ \A i \in Thread : ~Launched(i, o)'
             /\ \A i \in Thread : Launched(i, o)' =>
                  o \notin begun' /\ \A j \in Thread : j # i => ~Launched(j, o)'
      BY <2>1, <2>2 DEF OnceSpent, Launched
    <2> QED
      BY <2>1, <2>2, <2>3 DEF OnceSpent
  <1>3. ASSUME NEW h \in Thread, RunGuarded(h)
        PROVE  OnceSpent'
    <2>1. PICK t \in Timer : t = job[h]
      BY <1>3 DEF RunGuarded, IInv, Places
    <2>2. /\ pc[h] = "launched" /\ begun' \subseteq begun \cup {t}
          /\ UNCHANGED <<m_Timers, due, added, DueTimers, call, target>>
      BY <1>3, <2>1 DEF RunGuarded, Start, map, loop, calls
    <2>3. /\ pc'[h] # "launched"
          /\ \A i \in Thread : pc'[i] = "launched" => pc[i] = "launched" /\ job'[i] = job[i]
      BY <1>3 DEF RunGuarded, Start, IInv, Places
    <2>4. Launched(h, t) /\ t \in added
      BY <2>1, <2>2 DEF Launched, OnceSpent
    <2> QED
      BY <2>2, <2>3, <2>4 DEF OnceSpent, Launched
  <1> QED
    BY <1>1, <1>2, <1>3

LEMMA OnceScans ==
    ASSUME OnceSpent, LoopScan, Places
    PROVE  OnceSpent'
  <1>1. /\ m_Timers' = m_Timers \ (due \cap Once) /\ DueTimers' = due /\ due' = {}
        /\ UNCHANGED <<added, begun, call, target, job>>
        /\ pc' = [pc EXCEPT ![timing] = "scanned"]
    BY DEF LoopScan, Extract, To, calls, history
  <1>2. \A h \in Thread : pc'[h] = "launched" => pc[h] = "launched" /\ job'[h] = job[h]
    BY <1>1 DEF Places
  <1> QED
    BY <1>1, <1>2 DEF OnceSpent, Launched

LEMMA OnceStep == IInv /\ OnceSpent /\ [Next]_vars => OnceSpent'
  <1> SUFFICES ASSUME IInv, OnceSpent, [Next]_vars PROVE OnceSpent'
    OBVIOUS
  <1>0. due \subseteq m_Timers
    BY DEF OnceSpent
  <1>1. ASSUME NEW h \in Thread, CallbackEnds(h) \/ Leave(h)
        PROVE  OnceSpent'
    <2>1. \A i \in Thread : pc'[i] = "launched" => pc[i] = "launched" /\ job'[i] = job[i]
      BY <1>1 DEF CallbackEnds, Leave, IInv, Places
    <2> QED
      BY <1>0, <1>1, <2>1, NoTimerMovesOn DEF CallbackEnds, Leave, map, loop, calls, history
  <1>2. CASE LoopStart \/ LoopWake \/ LoopUnpause \/ LoopRun \/ LoopAgain
    <2>1. PICK p \in {"exited", "sleep", "paused", "scan", "run"} :
             pc' = [pc EXCEPT ![timing] = p] /\ job' = job
      BY <1>2 DEF LoopStart, LoopWake, LoopUnpause, LoopRun, LoopAgain, To
    <2>2. \A i \in Thread : pc'[i] = "launched" => pc[i] = "launched" /\ job'[i] = job[i]
      BY <2>1 DEF IInv, Places
    <2>3. UNCHANGED <<map, DueTimers, calls, history>>
      BY <1>2 DEF LoopStart, LoopWake, LoopUnpause, LoopRun, LoopAgain, loop
    <2> QED
      BY <1>0, <2>2, <2>3, NoTimerMovesOn DEF map, calls, history
  <1>3. ASSUME NEW t \in Timer, Expire(t)
        PROVE  OnceSpent'
    BY <1>0, <1>3, NoTimerMovesOn DEF Expire, loop, threads, calls, history
  <1>4. CASE UNCHANGED vars
    BY <1>0, <1>4, NoTimerMovesOn DEF vars, map, loop, threads, calls, history
  <1>5. CASE LoopScan
    BY <1>5, OnceScans DEF IInv
  <1> QED
    BY <1>1, <1>2, <1>3, <1>4, <1>5, OnceRuns, OnceAdds, OnceCalled
    DEF Next, CallStep, ThreadStep, LoopStep

\* Only the start of a callback raises the counter of its timer.
LEMMA OnlyStartsRaise ==
    ASSUME IInv, [Next]_vars, NEW t \in Timer, iRunning'[t] > iRunning[t]
    PROVE  RunDueInline(t) \/ \E h \in Thread : RunGuarded(h) /\ job[h] = t
  <1>1. iRunning \in [Timer -> Nat]
    BY DEF IInv, Places
  <1>2. iRunning' # iRunning
    BY <1>1
  <1>3. ASSUME NEW u \in Timer, RunDueInline(u)
        PROVE  u = t
    BY <1>1, <1>3 DEF RunDueInline, Start
  <1>4. ASSUME NEW h \in Thread, RunGuarded(h)
        PROVE  job[h] = t
    <2>1. PICK u \in Timer : u = job[h]
      BY <1>4 DEF RunGuarded, IInv, Places
    <2> QED
      BY <1>1, <1>4, <2>1 DEF RunGuarded, Start
  <1>5. ASSUME NEW h \in Thread, CallbackEnds(h)
        PROVE  FALSE
    <2>1. PICK u \in Timer : u = job[h]
      BY <1>5 DEF CallbackEnds, IInv, Places
    <2>2. iRunning' = [iRunning EXCEPT ![u] = @ - 1]
      BY <1>5, <2>1 DEF CallbackEnds
    <2> QED
      BY <1>1, <2>2
  <1>6. ASSUME NEW a \in Actor, CallStep(a)
        PROVE  FALSE
    BY <1>2, <1>6 DEF CallStep, AddTimer, CancelMark, CancelDrain, PauseReturn, DtorLock,
                      DtorJoin, DtorFlight, control
  <1>7. ASSUME NEW a \in Actor,
               \/ \E u \in Timer : AddTimerCall(a, u) \/ Cancel(a, u) \/ Restart(a, u)
               \/ PauseCall(a) \/ Resume(a) \/ DtorCall(a)
        PROVE  FALSE
    BY <1>2, <1>7 DEF AddTimerCall, Cancel, Restart, PauseCall, Resume, DtorCall, control
  <1>8. ASSUME \/ LoopStart \/ LoopWake \/ LoopUnpause \/ LoopScan \/ LoopRun \/ LoopAgain
               \/ \E u \in Timer, h \in CallbackThread : RunDueOwnThread(u, h)
               \/ \E u \in Timer : Expire(u)
               \/ \E h \in Thread : Leave(h)
               \/ UNCHANGED vars
        PROVE  FALSE
    BY <1>2, <1>8 DEF LoopStart, LoopWake, LoopUnpause, LoopScan, LoopRun, LoopAgain,
                      RunDueOwnThread, Expire, Leave, vars, control
  <1> QED
    BY <1>3, <1>4, <1>5, <1>6, <1>7, <1>8 DEF Next, ThreadStep, LoopStep

\* The callback of CallOnce is started at most once, by the timing thread or in a thread
\* of its own, whatever is cancelled, restarted and added meanwhile.
THEOREM OnceRunsOnce == Spec => OnceAtMostOnce
  <1>1. ASSUME IInv, OnceSpent, [Next]_vars, NEW t \in Once, iRunning'[t] > iRunning[t]
        PROVE  t \notin begun
    <2>1. t \in Timer
      BY KTimerAssumption
    <2>2. CASE RunDueInline(t)
      BY <1>1, <2>2 DEF RunDueInline, OnceSpent
    <2>3. CASE \E h \in Thread : RunGuarded(h) /\ job[h] = t
      BY <1>1, <2>3 DEF RunGuarded, OnceSpent, Launched
    <2> QED
      BY <1>1, <2>1, <2>2, <2>3, OnlyStartsRaise
  <1>2. IInv /\ OnceSpent /\ [Next]_vars =>
          [\A t \in Once : iRunning'[t] > iRunning[t] => t \notin begun]_vars
    BY <1>1
  <1> QED
    BY <1>2, TimerInit, TimerStep, OnceInit, OnceStep, PTL DEF Spec, OnceAtMostOnce
=============================================================================
