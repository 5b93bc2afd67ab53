--------------------------------- MODULE Kron -------------------------------
(***************************************************************************)
(* Kron with a LocalScheduler: the launcher thread that starts due jobs as *)
(* child processes and collects them, against users that add, delete and   *)
(* kill jobs, the children themselves, and the destructor.                 *)
(*                                                                         *)
(* Time is abstract: a job's next time comes (Expire), a child runs longer *)
(* than its MaxExecutionTime (Overdue).  A child's output goes to a pipe   *)
(* that is read when the child has ended: a command that writes more than  *)
(* the pipe holds cannot end by itself, and a process that a command left  *)
(* behind keeps the pipe open.                                             *)
(***************************************************************************)
EXTENDS Naturals, Sequences, SequencesExt, FiniteSets

CONSTANTS Job,
          Once,            \* jobs with a single execution time
          Limited,         \* jobs with a MaxExecutionTime
          Verbose,         \* commands that write more than a pipe holds
          Lingering,       \* commands that leave a process behind
          iFactor,         \* rounds of a launcher with running jobs to one check for due ones
          MaxDescriptors   \* file descriptors left for pipes

ASSUME KronAssumption ==
    /\ IsFiniteSet(Job) /\ Job # {} /\ Once \subseteq Job /\ Limited \subseteq Job
    /\ Verbose \subseteq Job /\ Lingering \subseteq Job
    /\ iFactor \in Nat \ {0} /\ MaxDescriptors \in Nat

VARIABLES m_Jobs,          \* the listed jobs
          due,             \* those whose execution time has come
          pass,            \* those that were due when StartNewJobs() read the clock
          m_Shell,         \* none, failed to open, running, or its child reaped
          ProcessID,       \* the jobs with a ProcessID > 0
          child,           \* the child process of a job
          behind,          \* jobs of which a process left behind holds the pipe
          overdue,
          descriptors,     \* open file descriptors of pipes
          m_RunningJobs,
          pc, job, at,     \* the launcher, the job it starts, the one it looks at
          iRunning, iCountDown,
          m_bStop,
          stray            \* history: a SIGKILL went to a process that is not the job's

scheduler == <<m_Jobs, due, pass>>
process   == <<child, behind, overdue, descriptors>>
control   == <<m_Shell, ProcessID, stray>>
launcher  == <<m_RunningJobs, pc, job, at, iRunning, iCountDown>>
vars      == <<scheduler, process, control, launcher, m_bStop>>

Init ==
    /\ m_Jobs = {} /\ due = {} /\ pass = {}
    /\ m_Shell = [j \in Job |-> "none"] /\ ProcessID = {} /\ stray = FALSE
    /\ child = [j \in Job |-> "none"] /\ behind = {} /\ overdue = {} /\ descriptors = 0
    /\ m_RunningJobs = <<>>
    /\ pc = "round" /\ at = 1 /\ job = CHOOSE j \in Job : TRUE
    /\ iRunning = 0 /\ iCountDown = iFactor
    /\ m_bStop = FALSE

Running(j) == \E i \in DOMAIN m_RunningJobs : m_RunningJobs[i] = j

\* FinishWaitingJobs() holds the lock of m_RunningJobs from begin to end
Locked == pc \in {"look", "ask", "read"}

-----------------------------------------------------------------------------
\* The scheduler, each call in one critical section; ModifyJob() is a
\* DeleteJob() and an AddJob().

\* a single execution time may have come already
AddJob(j) == /\ j \notin m_Jobs
             /\ m_Jobs' = m_Jobs \cup {j}
             /\ due' \in {due} \cup {due \cup ({j} \cap Once)}
             /\ UNCHANGED <<pass, process, control, launcher, m_bStop>>

DeleteJob(j) == /\ j \in m_Jobs
                /\ m_Jobs' = m_Jobs \ {j} /\ due' = due \ {j} /\ pass' = pass \ {j}
                /\ UNCHANGED <<process, control, launcher, m_bStop>>

Expire(j) == /\ j \in m_Jobs \ due
             /\ due' = due \cup {j}
             /\ UNCHANGED <<m_Jobs, pass, process, control, launcher, m_bStop>>

\* a job with a single time leaves the list
GetJob(j) == /\ m_Jobs' = m_Jobs \ ({j} \cap Once)
             /\ due' = due \ {j} /\ pass' = pass \ {j}

-----------------------------------------------------------------------------
\* Child processes.

\* kill() of whatever has the ProcessID now
Kill(j) == /\ child' = IF j \in ProcessID /\ child[j] = "alive"
                       THEN [child EXCEPT ![j] = "zombie"] ELSE child
           /\ stray' = (stray \/ (j \in ProcessID /\ child[j] = "none"))

\* KBaseProcess::IsRunning() reaps
Reap(j) == /\ child' = [child EXCEPT ![j] = "none"]
           /\ m_Shell' = [m_Shell EXCEPT ![j] = "reaped"]

End(j) == /\ child[j] = "alive" /\ j \notin Verbose
          /\ child' = [child EXCEPT ![j] = "zombie"]
          /\ UNCHANGED <<behind, overdue, descriptors, scheduler, control, launcher, m_bStop>>

LeftBehindEnds(j) == /\ j \in behind /\ behind' = behind \ {j}
                     /\ UNCHANGED <<child, overdue, descriptors, scheduler, control, launcher, m_bStop>>

Overdue(j) == /\ j \in Limited \ overdue /\ child[j] = "alive"
              /\ overdue' = overdue \cup {j}
              /\ UNCHANGED <<child, behind, descriptors, scheduler, control, launcher, m_bStop>>

-----------------------------------------------------------------------------
\* The launcher.

Goto(where) == pc' = where

\* the next round, after the sleep: check for due jobs, or for ended ones only
Round ==
    LET count == IF iRunning = 0 THEN iCountDown
                 ELSE IF iCountDown = 1 THEN iFactor ELSE iCountDown - 1
    IN  /\ pc = "round"
        /\ iCountDown' = count
        /\ \/ /\ iRunning = 0 \/ count = iFactor
              /\ Goto("start") /\ pass' = due /\ UNCHANGED at
           \/ /\ iRunning # 0 /\ count # iFactor
              /\ Goto("look") /\ at' = 1 /\ UNCHANGED pass
        /\ UNCHANGED <<m_Jobs, due, process, control, m_RunningJobs, job, iRunning, m_bStop>>

\* StartNewJobs(): the next due job
TakeJob(j) ==
    /\ pc = "start" /\ ~m_bStop /\ j \in pass
    /\ GetJob(j)
    /\ job' = j /\ Goto("open")
    /\ UNCHANGED <<process, control, m_RunningJobs, at, iRunning, iCountDown, m_bStop>>

\* Job::Start(): still running, or so it seems
StartSkipped ==
    /\ pc = "open" /\ m_Shell[job] # "none"
    /\ Goto("start")
    /\ UNCHANGED <<scheduler, process, control, m_RunningJobs, job, at, iRunning, iCountDown, m_bStop>>

\* ... no descriptor, or no process: m_Shell stays behind
StartFails ==
    /\ pc = "open" /\ m_Shell[job] = "none"
    /\ m_Shell' = [m_Shell EXCEPT ![job] = "failed"]
    /\ Goto("start")
    /\ UNCHANGED <<scheduler, process, ProcessID, stray, m_RunningJobs, job, at, iRunning, iCountDown, m_bStop>>

\* ... fork and exec
StartOpens ==
    /\ pc = "open" /\ m_Shell[job] = "none" /\ descriptors < MaxDescriptors
    /\ m_Shell' = [m_Shell EXCEPT ![job] = "running"]
    /\ ProcessID' = ProcessID \cup {job}
    /\ child' = [child EXCEPT ![job] = "alive"] /\ behind' = behind \cup ({job} \cap Lingering)
    /\ overdue' = overdue \ {job} /\ descriptors' = descriptors + 1
    /\ Goto("opened")
    /\ UNCHANGED <<scheduler, stray, m_RunningJobs, job, at, iRunning, iCountDown, m_bStop>>

\* ... is it running?  If it has ended already the job counts as failed.
StartAsks ==
    /\ pc = "opened"
    /\ \/ child[job] = "alive" /\ Goto("push") /\ UNCHANGED <<child, m_Shell>>
       \/ child[job] = "zombie" /\ Reap(job) /\ Goto("start")
    /\ UNCHANGED <<scheduler, behind, overdue, descriptors, ProcessID, stray,
                   m_RunningJobs, job, at, iRunning, iCountDown, m_bStop>>

Push ==
    /\ pc = "push"
    /\ m_RunningJobs' = Append(m_RunningJobs, job)
    /\ iRunning' = iRunning + 1
    /\ Goto("start")
    /\ UNCHANGED <<scheduler, process, control, job, at, iCountDown, m_bStop>>

\* mutant: a stop does not wait for the running jobs
RoundEnds_AtStop(running) == Goto(IF m_bStop THEN "home" ELSE "round")

\* the end of a round
RoundEnds(running) == Goto(IF m_bStop /\ running = 0 THEN "home" ELSE "round")

StartedAll ==
    /\ pc = "start" /\ (m_bStop \/ pass = {})
    /\ pass' = {}
    /\ IF iRunning = 0 THEN RoundEnds(0) /\ UNCHANGED at
                       ELSE Goto("look") /\ at' = 1
    /\ UNCHANGED <<m_Jobs, due, process, control, m_RunningJobs, job, iRunning, iCountDown, m_bStop>>

\* FinishWaitingJobs()
Current == m_RunningJobs[at]

\* mutant: an overdue job is left alone
KillIfOverdue_Never ==
    /\ pc = "look" /\ at <= Len(m_RunningJobs) /\ Goto("ask")
    /\ UNCHANGED <<scheduler, process, control, m_RunningJobs, job, at, iRunning, iCountDown, m_bStop>>

KillIfOverdue ==
    /\ pc = "look" /\ at <= Len(m_RunningJobs)
    /\ IF m_Shell[Current] # "none" /\ Current \in overdue
       THEN Kill(Current) ELSE UNCHANGED <<child, stray>>
    /\ Goto("ask")
    /\ UNCHANGED <<scheduler, behind, overdue, descriptors, m_Shell, ProcessID,
                   m_RunningJobs, job, at, iRunning, iCountDown, m_bStop>>

IsWaiting ==
    /\ pc = "ask"
    /\ \/ child[Current] = "alive" /\ at' = at + 1 /\ Goto("look") /\ UNCHANGED <<child, m_Shell>>
       \/ child[Current] # "alive" /\ Reap(Current) /\ Goto("read") /\ UNCHANGED at
    /\ UNCHANGED <<scheduler, behind, overdue, descriptors, ProcessID, stray,
                   m_RunningJobs, job, iRunning, iCountDown, m_bStop>>

\* KBasePipe::Close() closes the descriptor of a child that was not reaped
Close(j) == descriptors' = IF m_Shell[j] = "running" THEN descriptors - 1 ELSE descriptors

\* mutant: the output is not read to its end
Wait_Unread ==
    /\ pc = "read"
    /\ Close(Current)
    /\ m_Shell' = [m_Shell EXCEPT ![Current] = "none"]
    /\ ProcessID' = ProcessID \ {Current} /\ overdue' = overdue \ {Current}
    /\ m_RunningJobs' = RemoveAt(m_RunningJobs, at)
    /\ Goto("look")
    /\ UNCHANGED <<scheduler, child, behind, stray, job, at, iRunning, iCountDown, m_bStop>>

\* Job::Wait() reads until the pipe's end, and the job is erased
Wait ==
    /\ pc = "read" /\ Current \notin behind
    /\ Close(Current)
    /\ m_Shell' = [m_Shell EXCEPT ![Current] = "none"]
    /\ ProcessID' = ProcessID \ {Current} /\ overdue' = overdue \ {Current}
    /\ m_RunningJobs' = RemoveAt(m_RunningJobs, at)
    /\ Goto("look")
    /\ UNCHANGED <<scheduler, child, behind, stray, job, at, iRunning, iCountDown, m_bStop>>

\* mutant: the number of jobs that are left is not taken over
FinishedAll_Keep ==
    /\ pc = "look" /\ at > Len(m_RunningJobs)
    /\ RoundEnds(iRunning)
    /\ UNCHANGED <<scheduler, process, control, m_RunningJobs, job, at, iRunning, iCountDown, m_bStop>>

FinishedAll ==
    /\ pc = "look" /\ at > Len(m_RunningJobs)
    /\ iRunning' = Len(m_RunningJobs)
    /\ RoundEnds(iRunning')
    /\ UNCHANGED <<scheduler, process, control, m_RunningJobs, job, at, iCountDown, m_bStop>>

Launcher == \/ Round \/ StartSkipped \/ StartFails \/ StartOpens \/ StartAsks \/ Push
            \/ StartedAll \/ KillIfOverdue \/ IsWaiting \/ Wait \/ FinishedAll
            \/ \E j \in Job : TakeJob(j)

-----------------------------------------------------------------------------
\* Users.

\* mutant: without the lock of m_RunningJobs
KillJob_Unlocked(j) ==
    /\ Running(j) /\ Kill(j)
    /\ UNCHANGED <<scheduler, behind, overdue, descriptors, m_Shell, ProcessID, launcher, m_bStop>>

KillJob(j) ==
    /\ ~Locked /\ Running(j)
    /\ Kill(j)
    /\ UNCHANGED <<scheduler, behind, overdue, descriptors, m_Shell, ProcessID, launcher, m_bStop>>

\* the destructor, which then joins the launcher
Stop == /\ ~m_bStop /\ m_bStop' = TRUE
        /\ UNCHANGED <<scheduler, process, control, launcher>>

Next == \/ Launcher \/ Stop
        \/ \E j \in Job : \/ AddJob(j) \/ DeleteJob(j) \/ KillJob(j) \/ Expire(j)
                          \/ End(j) \/ LeftBehindEnds(j) \/ Overdue(j)

\* The launcher's thread goes on.  A command without a limit ends by itself if it
\* can, one with a limit runs into it; what was left behind ends.
Fairness == /\ WF_vars(Launcher)
            /\ \A j \in Job \ Limited : WF_vars(End(j))
            /\ \A j \in Limited : WF_vars(Overdue(j))
            /\ \A j \in Lingering : WF_vars(LeftBehindEnds(j))

Spec == Init /\ [][Next]_vars /\ Fairness

-----------------------------------------------------------------------------
\* Properties.

TypeOK ==
    /\ due \subseteq m_Jobs /\ m_Jobs \subseteq Job /\ pass \subseteq due
    /\ m_Shell \in [Job -> {"none", "failed", "running", "reaped"}]
    /\ child \in [Job -> {"none", "alive", "zombie"}]
    /\ ProcessID \subseteq Job /\ behind \subseteq Lingering /\ overdue \subseteq Limited
    /\ descriptors \in 0 .. MaxDescriptors
    /\ m_RunningJobs \in Seq(Job) /\ Len(m_RunningJobs) <= Cardinality(Job)
    /\ pc \in {"round", "start", "open", "opened", "push", "look", "ask", "read", "home"}
    /\ job \in Job /\ at \in 1 .. Cardinality(Job) + 1
    /\ iRunning \in 0 .. Cardinality(Job) /\ iCountDown \in 1 .. iFactor
    /\ m_bStop \in BOOLEAN /\ stray \in BOOLEAN

\* No child is lost: it is in m_RunningJobs, once, where KillJob() finds it and the
\* launcher collects it, or its Start() has not returned yet (kron.cpp:727-731); and
\* the destructor leaves none running or unreaped (kron.cpp:828-832).
NoChildLost ==
    /\ \A j \in Job :
        /\ child[j] # "none" => Running(j) \/ (job = j /\ pc \in {"opened", "push"})
        /\ Cardinality({i \in DOMAIN m_RunningJobs : m_RunningJobs[i] = j}) <= 1
    /\ pc = "home" => m_RunningJobs = <<>>

\* KillJob() and the kill of overdue jobs never signal a process ID that was reaped
\* and may belong to another process by now (kron.cpp:381-383, 360).
KillHitsOwnChild == ~stray

\* A job is not started while an earlier execution of it, or what that has left
\* behind, is running.
OneRunAtATime ==
    [][\A j \in Job : (child[j] # "alive" /\ child'[j] = "alive") =>
          child[j] = "none" /\ j \notin behind /\ ~Running(j)]_vars

\* Every child ends and is collected: by itself, or killed when it is overdue.
EveryRunEnds ==
    \A j \in Job : child[j] # "none" ~> (child[j] = "none" /\ ~Running(j))

\* The destructor returns.
StopReturns == m_bStop ~> pc = "home"

\* The pipe of a job is closed when the job is done: KInPipe::Close() leaves it to
\* KBasePipe::Close() (kinpipe.cpp:68).
PipesClosed == descriptors = Cardinality({j \in Job : m_Shell[j] \in {"running", "reaped"}})

\* IsRunning() means that the job is currently executed (kron.h:138-140): it is being
\* started, or the launcher will collect it.
RunningMeansExecuted ==
    \A j \in Job : m_Shell[j] # "none" =>
        Running(j) \/ (job = j /\ pc \in {"opened", "push"})
=============================================================================
