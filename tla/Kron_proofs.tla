------------------------------ MODULE Kron_proofs ---------------------------
(***************************************************************************)
(* Theorems about Kron, for any jobs, limits and numbers of descriptors.   *)
(***************************************************************************)
EXTENDS Kron, SequenceTheorems, FiniteSetTheorems, TLAPS

-----------------------------------------------------------------------------
\* Lists of jobs without repetition.

In(j, s) == \E i \in DOMAIN s : s[i] = j

NoRepeat(s) == \A i, k \in DOMAIN s : s[i] = s[k] => i = k

\* A list without one of its positions.
LEMMA RemoveAtElements ==
    ASSUME NEW s \in Seq(Job), NEW n \in DOMAIN s
    PROVE  /\ RemoveAt(s, n) \in Seq(Job)
           /\ Len(RemoveAt(s, n)) = Len(s) - 1
           /\ \A i \in 1 .. Len(s) - 1 :
                 RemoveAt(s, n)[i] = IF i < n THEN s[i] ELSE s[i + 1]
  <1> DEFINE front == SubSeq(s, 1, n - 1)
             rest  == SubSeq(s, n + 1, Len(s))
  <1>1. n \in 1 .. Len(s) /\ Len(s) \in Nat /\ \A i \in 1 .. Len(s) : s[i] \in Job
    OBVIOUS
  <1>2. /\ front \in Seq(Job) /\ Len(front) = n - 1
        /\ \A i \in 1 .. n - 1 : front[i] = s[i]
    <2>1. \A i \in 1 .. n - 1 : s[i] \in Job
      BY <1>1
    <2> QED
      BY <1>1, <2>1, SubSeqProperties
  <1>3. /\ rest \in Seq(Job) /\ Len(rest) = Len(s) - n
        /\ \A i \in 1 .. Len(s) - n : rest[i] = s[n + i]
    <2>1. \A i \in n + 1 .. Len(s) : s[i] \in Job
      BY <1>1
    <2>2. /\ rest \in Seq(Job)
          /\ Len(rest) = IF n + 1 <= Len(s) THEN Len(s) - (n + 1) + 1 ELSE 0
          /\ \A i \in 1 .. Len(s) - (n + 1) + 1 : rest[i] = s[(n + 1) + i - 1]
      BY <1>1, <2>1, SubSeqProperties
    <2> QED
      BY <1>1, <2>2
  <1> HIDE DEF front, rest
  <1>4. /\ front \o rest \in Seq(Job)
        /\ Len(front \o rest) = Len(s) - 1
        /\ \A i \in 1 .. Len(s) - 1 :
              (front \o rest)[i] = IF i <= n - 1 THEN front[i] ELSE rest[i - (n - 1)]
    <2>1. /\ front \o rest \in Seq(Job)
          /\ Len(front \o rest) = Len(front) + Len(rest)
          /\ \A i \in 1 .. Len(front) + Len(rest) :
                (front \o rest)[i] = IF i <= Len(front) THEN front[i] ELSE rest[i - Len(front)]
      BY <1>2, <1>3, ConcatProperties
    <2>2. Len(front) = n - 1 /\ Len(front) + Len(rest) = Len(s) - 1
      BY <1>1, <1>2, <1>3
    <2> QED
      BY <2>1, <2>2
  <1>5. ASSUME NEW i \in 1 .. Len(s) - 1
        PROVE  (front \o rest)[i] = IF i < n THEN s[i] ELSE s[i + 1]
    <2>1. CASE i < n
      BY <1>1, <1>2, <1>4, <2>1
    <2>2. CASE ~(i < n)
      <3> DEFINE k == i - (n - 1)
      <3>1. k \in 1 .. Len(s) - n /\ n + k = i + 1 /\ ~(i <= n - 1)
        BY <1>1, <2>2
      <3>2. rest[k] = s[n + k]
        BY <1>3, <3>1
      <3>3. (front \o rest)[i] = rest[k]
        BY <1>4, <3>1
      <3> QED
        BY <2>2, <3>1, <3>2, <3>3
    <2> QED
      BY <2>1, <2>2
  <1>6. RemoveAt(s, n) = front \o rest
    BY DEF RemoveAt, front, rest
  <1> QED
    BY <1>4, <1>5, <1>6

\* Removing a position of a list without repetition removes its job, and only that.
LEMMA RemoveAtJobs ==
    ASSUME NEW s \in Seq(Job), NEW n \in DOMAIN s, NoRepeat(s)
    PROVE  /\ NoRepeat(RemoveAt(s, n))
           /\ \A j \in Job : In(j, RemoveAt(s, n)) <=> In(j, s) /\ j # s[n]
  <1> DEFINE r == RemoveAt(s, n)
  <1>1. /\ r \in Seq(Job) /\ Len(r) = Len(s) - 1
        /\ \A i \in 1 .. Len(s) - 1 : r[i] = IF i < n THEN s[i] ELSE s[i + 1]
    BY RemoveAtElements
  <1>2. /\ n \in 1 .. Len(s) /\ Len(s) \in Nat /\ DOMAIN s = 1 .. Len(s)
        /\ DOMAIN r = 1 .. Len(s) - 1
    BY <1>1
  <1> HIDE DEF r
  <1>3. NoRepeat(r)
    <2> SUFFICES ASSUME NEW i \in DOMAIN r, NEW k \in DOMAIN r, r[i] = r[k] PROVE i = k
      BY DEF NoRepeat
    <2> DEFINE p == IF i < n THEN i ELSE i + 1
               q == IF k < n THEN k ELSE k + 1
    <2>1. p \in DOMAIN s /\ q \in DOMAIN s /\ s[p] = s[q]
      BY <1>1, <1>2
    <2>2. p = q
      BY <2>1 DEF NoRepeat
    <2> QED
      BY <1>2, <2>2
  <1>4. ASSUME NEW j \in Job, In(j, r) PROVE In(j, s) /\ j # s[n]
    <2>1. PICK i \in DOMAIN r : r[i] = j
      BY <1>4 DEF In
    <2> DEFINE p == IF i < n THEN i ELSE i + 1
    <2>2. p \in DOMAIN s /\ s[p] = j /\ p # n
      BY <1>1, <1>2, <2>1
    <2> HIDE DEF p
    <2> QED
      BY <2>2 DEF In, NoRepeat
  <1>5. ASSUME NEW j \in Job, In(j, s), j # s[n] PROVE In(j, r)
    <2>1. PICK i \in DOMAIN s : s[i] = j
      BY <1>5 DEF In
    <2>2. i # n
      BY <1>5, <2>1
    <2> DEFINE p == IF i < n THEN i ELSE i - 1
    <2>3. p \in DOMAIN r /\ r[p] = j
      BY <1>1, <1>2, <2>1, <2>2
    <2> HIDE DEF p
    <2> QED
      BY <2>3 DEF In
  <1> QED
    BY <1>3, <1>4, <1>5 DEF r

\* Appending a job that is not listed.
LEMMA AppendJobs ==
    ASSUME NEW s \in Seq(Job), NEW e \in Job, NoRepeat(s), ~In(e, s)
    PROVE  /\ Append(s, e) \in Seq(Job) /\ Len(Append(s, e)) = Len(s) + 1
           /\ NoRepeat(Append(s, e))
           /\ \A j \in Job : In(j, Append(s, e)) <=> In(j, s) \/ j = e
  <1> DEFINE a == Append(s, e)
  <1>1. /\ a \in Seq(Job) /\ Len(a) = Len(s) + 1
        /\ \A i \in 1 .. Len(s) : a[i] = s[i]
        /\ a[Len(s) + 1] = e
    BY AppendProperties
  <1>2. /\ Len(s) \in Nat /\ DOMAIN s = 1 .. Len(s) /\ DOMAIN a = 1 .. Len(s) + 1
    BY <1>1
  <1> HIDE DEF a
  <1>3. NoRepeat(a)
    BY <1>1, <1>2 DEF NoRepeat, In
  <1>4. \A j \in Job : In(j, a) <=> In(j, s) \/ j = e
    <2>1. ASSUME NEW j \in Job, In(j, a) PROVE In(j, s) \/ j = e
      BY <1>1, <1>2, <2>1 DEF In
    <2>2. ASSUME NEW j \in Job, In(j, s) PROVE In(j, a)
      <3>1. PICK i \in DOMAIN s : s[i] = j
        BY <2>2 DEF In
      <3>2. i \in DOMAIN a /\ a[i] = j
        BY <1>1, <1>2, <3>1
      <3> QED
        BY <3>2 DEF In
    <2>3. In(e, a)
      <3>1. Len(s) + 1 \in DOMAIN a
        BY <1>2
      <3> QED
        BY <1>1, <3>1 DEF In
    <2> QED
      BY <2>1, <2>2, <2>3
  <1> QED
    BY <1>1, <1>3, <1>4 DEF a

\* A position that holds a job, in a list without repetition, is the only one.
LEMMA OncePerJob ==
    ASSUME NEW s \in Seq(Job), NoRepeat(s), NEW j
    PROVE  Cardinality({i \in DOMAIN s : s[i] = j}) <= 1
  <1> DEFINE P == {i \in DOMAIN s : s[i] = j}
  <1> SUFFICES Cardinality(P) <= 1
    OBVIOUS
  <1>1. CASE P = {}
    <2> HIDE DEF P
    <2> QED
      BY <1>1, FS_EmptySet
  <1>2. CASE P # {}
    <2>1. PICK i : i \in P
      BY <1>2
    <2>2. P = {i}
      BY <2>1 DEF NoRepeat
    <2> HIDE DEF P
    <2>3. Cardinality({i}) = 1
      BY FS_Singleton, Zenon
    <2> QED
      BY <2>2, <2>3
  <1> QED
    BY <1>1, <1>2

-----------------------------------------------------------------------------
\* The invariant.

Typed ==
    /\ m_RunningJobs \in Seq(Job) /\ job \in Job /\ at \in Nat \ {0} /\ iRunning \in Nat
    /\ m_Shell \in [Job -> {"none", "failed", "running", "reaped"}]
    /\ child \in [Job -> {"none", "alive", "zombie"}]

\* Start() has forked the job and not returned; Wait() reads what the reaped child wrote
Starting(j)   == pc \in {"opened", "push"} /\ j = job
Collecting(j) == pc = "read" /\ j = Current

\* Whose child is where: the child of a listed job, or of one being started, has not
\* been reaped, but for the one that is collected, under the lock.
Children ==
    /\ NoRepeat(m_RunningJobs)
    /\ pc \in {"ask", "read"} => at \in DOMAIN m_RunningJobs
    /\ \A j \in Job :
         /\ Starting(j) => ~In(j, m_RunningJobs)
         /\ In(j, m_RunningJobs) \/ Starting(j) =>
               IF Collecting(j) THEN child[j] = "none" /\ m_Shell[j] = "reaped"
                                ELSE child[j] # "none" /\ m_Shell[j] = "running"
         /\ child[j] # "none" => In(j, m_RunningJobs) \/ Starting(j)

\* m_Shell is there as long as something of the run is.
BehindHasShell == \A j \in Job : j \in behind => m_Shell[j] # "none"

\* iRunning is what m_RunningJobs holds whenever a round may end by it.
RunningCounted ==
    /\ pc \in {"round", "start", "open", "opened", "push"} => iRunning = Len(m_RunningJobs)
    /\ pc = "home" => m_RunningJobs = <<>>

IInv == Typed /\ Children /\ BehindHasShell /\ RunningCounted /\ KillHitsOwnChild

LEMMA KronInit == Init => IInv
  <1> SUFFICES ASSUME Init PROVE IInv
    OBVIOUS
  <1>1. Typed
    <2>1. job \in Job
      BY KronAssumption DEF Init
    <2>2. m_RunningJobs \in Seq(Job)
      BY EmptySeq DEF Init
    <2> QED
      BY <2>1, <2>2 DEF Init, Typed
  <1>2. Children
    BY DEF Init, Children, NoRepeat, In, Starting, Collecting
  <1> QED
    BY <1>1, <1>2 DEF Init, IInv, BehindHasShell, RunningCounted, KillHitsOwnChild

\* Kill() of a listed job while nobody holds the lock, or by its holder: the process is
\* the job's.
LEMMA KillKeeps ==
    ASSUME IInv, NEW j \in Job, In(j, m_RunningJobs), pc # "read", Kill(j),
           UNCHANGED <<behind, m_Shell, m_RunningJobs, job, at, iRunning>>,
           pc' = pc \/ (pc = "look" /\ at <= Len(m_RunningJobs) /\ pc' = "ask")
    PROVE  IInv'
  <1> USE DEF IInv
  <1>1. child[j] # "none" /\ ~Collecting(j)
    BY DEF Children, Collecting
  <1>2. ~stray'
    BY <1>1 DEF Kill, KillHitsOwnChild
  <1>3. /\ child' \in [Job -> {"none", "alive", "zombie"}]
        /\ \A k \in Job : child'[k] = "none" <=> child[k] = "none"
    BY <1>1 DEF Kill, Typed
  <1>4. \A k \in Job : /\ Starting(k)' <=> Starting(k)
                       /\ ~Collecting(k) /\ ~Collecting(k)'
    BY DEF Starting, Collecting
  <1>5. Children'
    <2>1. pc' \in {"ask", "read"} => at' \in DOMAIN m_RunningJobs'
      BY DEF Children, Typed
    <2> QED
      BY <1>3, <1>4, <2>1 DEF Children
  <1>6. RunningCounted'
    BY DEF RunningCounted
  <1> QED
    BY <1>2, <1>3, <1>5, <1>6 DEF Typed, BehindHasShell, KillHitsOwnChild

\* A step that keeps the children, the shells and the list keeps the invariant.
LEMMA LauncherMoves ==
    ASSUME IInv, UNCHANGED <<child, behind, m_Shell, stray, m_RunningJobs, iRunning>>,
           \/ UNCHANGED <<pc, at, job>>
           \/ /\ pc \in {"round", "start", "open", "look"}
              /\ pc' \in {"round", "start", "open", "look", "home"}
              /\ pc' \in {"round", "start", "open"} => iRunning = Len(m_RunningJobs)
              /\ pc' = "home" => m_RunningJobs = <<>>,
           job' \in Job, at' \in Nat \ {0}
    PROVE  IInv'
  <1> USE DEF IInv
  <1>1. \A k \in Job : /\ Starting(k)' <=> Starting(k)
                       /\ Collecting(k)' <=> Collecting(k)
    BY DEF Starting, Collecting, Current
  <1>2. Children'
    BY <1>1 DEF Children
  <1>3. RunningCounted'
    BY DEF RunningCounted
  <1> QED
    BY <1>2, <1>3 DEF Typed, BehindHasShell, KillHitsOwnChild

LEMMA KronStep == IInv /\ [Next]_vars => IInv'
  <1> SUFFICES ASSUME IInv, [Next]_vars PROVE IInv'
    OBVIOUS
  <1>0. /\ job \in Job /\ at \in Nat \ {0} /\ Len(m_RunningJobs) \in Nat
        /\ m_RunningJobs \in Seq(Job)
    BY DEF IInv, Typed
  <1>1. CASE Round
    <2>1. /\ pc = "round" /\ pc' \in {"start", "look"} /\ at' \in {at, 1}
          /\ UNCHANGED <<child, behind, m_Shell, stray, m_RunningJobs, iRunning, job>>
      BY <1>1 DEF Round, Goto, process, control
    <2> QED
      BY <1>0, <2>1, LauncherMoves DEF IInv, RunningCounted
  <1>2. ASSUME NEW j \in Job, TakeJob(j) PROVE IInv'
    <2>1. /\ pc = "start" /\ pc' = "open" /\ job' = j
          /\ UNCHANGED <<child, behind, m_Shell, stray, m_RunningJobs, iRunning, at>>
      BY <1>2 DEF TakeJob, Goto, process, control
    <2> QED
      BY <1>0, <2>1, LauncherMoves DEF IInv, RunningCounted
  <1>3. CASE StartSkipped
    <2>1. /\ pc = "open" /\ pc' = "start"
          /\ UNCHANGED <<child, behind, m_Shell, stray, m_RunningJobs, iRunning, at, job>>
      BY <1>3 DEF StartSkipped, Goto, process, control
    <2> QED
      BY <1>0, <2>1, LauncherMoves DEF IInv, RunningCounted
  <1>4. CASE StartFails
    <2>1. /\ pc = "open" /\ pc' = "start" /\ m_Shell[job] = "none"
          /\ m_Shell' = [m_Shell EXCEPT ![job] = "failed"]
          /\ UNCHANGED <<child, behind, stray, m_RunningJobs, iRunning, at, job>>
      BY <1>4 DEF StartFails, Goto, process
    <2>2. ~In(job, m_RunningJobs)
      BY <1>0, <2>1 DEF IInv, Children, Collecting
    <2>3. \A k \in Job : /\ ~Starting(k) /\ ~Starting(k)'
                         /\ ~Collecting(k) /\ ~Collecting(k)'
      BY <2>1 DEF Starting, Collecting
    <2>4. Children'
      BY <2>1, <2>2, <2>3 DEF IInv, Children, Typed
    <2> QED
      BY <1>0, <2>1, <2>4
      DEF IInv, Typed, BehindHasShell, RunningCounted, KillHitsOwnChild
  <1>5. CASE StartOpens
    <2>1. /\ pc = "open" /\ pc' = "opened" /\ m_Shell[job] = "none"
          /\ m_Shell' = [m_Shell EXCEPT ![job] = "running"]
          /\ child' = [child EXCEPT ![job] = "alive"]
          /\ behind' \subseteq behind \cup {job}
          /\ UNCHANGED <<stray, m_RunningJobs, iRunning, at, job>>
      BY <1>5 DEF StartOpens, Goto
    <2>2. ~In(job, m_RunningJobs)
      BY <1>0, <2>1 DEF IInv, Children, Collecting
    <2>3. \A k \in Job : /\ ~Starting(k) /\ (Starting(k)' <=> k = job)
                         /\ ~Collecting(k) /\ ~Collecting(k)'
      BY <2>1 DEF Starting, Collecting
    <2>4. Children'
      BY <1>0, <2>1, <2>2, <2>3 DEF IInv, Children, Typed
    <2>5. BehindHasShell'
      BY <2>1 DEF IInv, BehindHasShell, Typed
    <2> QED
      BY <1>0, <2>1, <2>4, <2>5 DEF IInv, Typed, RunningCounted, KillHitsOwnChild
  <1>6. CASE StartAsks
    <2>1. /\ pc = "opened"
          /\ UNCHANGED <<behind, stray, m_RunningJobs, iRunning, at, job>>
      BY <1>6 DEF StartAsks
    <2>2. CASE pc' = "push" /\ UNCHANGED <<child, m_Shell>>
      <3>1. \A k \in Job : /\ Starting(k)' <=> Starting(k)
                           /\ ~Collecting(k) /\ ~Collecting(k)'
        BY <2>1, <2>2 DEF Starting, Collecting
      <3> QED
        BY <2>1, <2>2, <3>1
        DEF IInv, Typed, Children, BehindHasShell, RunningCounted, KillHitsOwnChild
    <2>3. CASE pc' = "start" /\ Reap(job)
      <3>1. /\ child' = [child EXCEPT ![job] = "none"]
            /\ m_Shell' = [m_Shell EXCEPT ![job] = "reaped"]
        BY <2>3 DEF Reap
      <3>2. \A k \in Job : /\ ~Starting(k)' /\ (Starting(k) <=> k = job)
                           /\ ~Collecting(k) /\ ~Collecting(k)'
        BY <2>1, <2>3 DEF Starting, Collecting
      <3>3. Children'
        BY <1>0, <2>1, <2>3, <3>1, <3>2 DEF IInv, Children, Typed
      <3> QED
        BY <2>1, <2>3, <3>1, <3>3
        DEF IInv, Typed, BehindHasShell, RunningCounted, KillHitsOwnChild
    <2> QED
      BY <1>6, <2>2, <2>3 DEF StartAsks, Goto
  <1>7. CASE Push
    <2>1. /\ pc = "push" /\ pc' = "start" /\ iRunning' = iRunning + 1
          /\ m_RunningJobs' = Append(m_RunningJobs, job)
          /\ UNCHANGED <<child, behind, m_Shell, stray, job, at>>
      BY <1>7 DEF Push, Goto, process, control
    <2>2. /\ NoRepeat(m_RunningJobs) /\ ~In(job, m_RunningJobs)
      BY <1>0, <2>1 DEF IInv, Children, Starting
    <2>3. /\ m_RunningJobs' \in Seq(Job) /\ Len(m_RunningJobs') = Len(m_RunningJobs) + 1
          /\ NoRepeat(m_RunningJobs')
          /\ \A k \in Job : In(k, m_RunningJobs') <=> In(k, m_RunningJobs) \/ k = job
      BY <1>0, <2>1, <2>2, AppendJobs
    <2>4. \A k \in Job : /\ ~Starting(k)' /\ (Starting(k) <=> k = job)
                         /\ ~Collecting(k) /\ ~Collecting(k)'
      BY <2>1 DEF Starting, Collecting
    <2>5. Children'
      <3>1. \A k \in Job : In(k, m_RunningJobs)' <=> In(k, m_RunningJobs')
        BY DEF In
      <3>2. NoRepeat(m_RunningJobs)'
        BY <2>3 DEF NoRepeat
      <3> QED
        BY <2>1, <2>3, <2>4, <3>1, <3>2 DEF IInv, Children
    <2> QED
      BY <1>0, <2>1, <2>3, <2>5
      DEF IInv, Typed, BehindHasShell, RunningCounted, KillHitsOwnChild
  <1>8. CASE StartedAll
    <2>1. /\ pc = "start" /\ pc' \in {"home", "round", "look"} /\ at' \in {at, 1}
          /\ pc' = "home" => iRunning = 0
          /\ UNCHANGED <<child, behind, m_Shell, stray, m_RunningJobs, iRunning, job>>
      BY <1>8 DEF StartedAll, RoundEnds, Goto, process, control
    <2>2. iRunning = 0 => m_RunningJobs = <<>>
      BY <1>0, <2>1, EmptySeq DEF IInv, RunningCounted
    <2> QED
      BY <1>0, <2>1, <2>2, LauncherMoves DEF IInv, RunningCounted
  <1>9. CASE KillIfOverdue
    <2>1. /\ pc = "look" /\ pc' = "ask" /\ at <= Len(m_RunningJobs)
          /\ UNCHANGED <<behind, m_Shell, m_RunningJobs, iRunning, job, at>>
          /\ Kill(Current) \/ UNCHANGED <<child, stray>>
      BY <1>9 DEF KillIfOverdue, Goto
    <2>2. Current \in Job /\ In(Current, m_RunningJobs)
      BY <1>0, <2>1 DEF Current, In
    <2>3. CASE Kill(Current)
      BY <2>1, <2>2, <2>3, KillKeeps
    <2>4. CASE UNCHANGED <<child, stray>>
      <3>1. \A k \in Job : /\ ~Starting(k) /\ ~Starting(k)'
                           /\ ~Collecting(k) /\ ~Collecting(k)'
        BY <2>1 DEF Starting, Collecting
      <3>2. at \in DOMAIN m_RunningJobs
        BY <1>0, <2>1
      <3>3. Children'
        BY <2>1, <2>4, <3>1, <3>2 DEF IInv, Children
      <3> QED
        BY <2>1, <2>4, <3>3
        DEF IInv, Typed, BehindHasShell, RunningCounted, KillHitsOwnChild
    <2> QED
      BY <2>1, <2>3, <2>4
  <1>10. CASE IsWaiting
    <2>1. /\ pc = "ask" /\ at \in DOMAIN m_RunningJobs
          /\ UNCHANGED <<behind, stray, m_RunningJobs, iRunning, job>>
      BY <1>10 DEF IsWaiting, IInv, Children
    <2>2. CASE at' = at + 1 /\ pc' = "look" /\ UNCHANGED <<child, m_Shell>>
      <3>1. \A k \in Job : /\ ~Starting(k) /\ ~Starting(k)'
                           /\ ~Collecting(k) /\ ~Collecting(k)'
        BY <2>1, <2>2 DEF Starting, Collecting
      <3> QED
        BY <1>0, <2>1, <2>2, <3>1
        DEF IInv, Typed, Children, BehindHasShell, RunningCounted, KillHitsOwnChild
    <2>3. CASE at' = at /\ pc' = "read" /\ Reap(Current)
      <3>1. Current \in Job /\ In(Current, m_RunningJobs) /\ Current' = Current
        BY <1>0, <2>1, <2>3 DEF Current, In
      <3>2. /\ child' = [child EXCEPT ![Current] = "none"]
            /\ m_Shell' = [m_Shell EXCEPT ![Current] = "reaped"]
        BY <2>3 DEF Reap
      <3>3. \A k \in Job : /\ ~Starting(k) /\ ~Starting(k)'
                           /\ ~Collecting(k) /\ (Collecting(k)' <=> k = Current)
        BY <2>1, <2>3, <3>1 DEF Starting, Collecting
      <3>4. Children'
        BY <2>1, <2>3, <3>1, <3>2, <3>3 DEF IInv, Children, Typed
      <3> QED
        BY <2>1, <2>3, <3>1, <3>2, <3>4
        DEF IInv, Typed, BehindHasShell, RunningCounted, KillHitsOwnChild
    <2> QED
      BY <1>10, <2>2, <2>3 DEF IsWaiting, Goto
  <1>11. CASE Wait
    <2>1. /\ pc = "read" /\ pc' = "look" /\ Current \notin behind
          /\ m_Shell' = [m_Shell EXCEPT ![Current] = "none"]
          /\ m_RunningJobs' = RemoveAt(m_RunningJobs, at)
          /\ UNCHANGED <<child, behind, stray, job, at, iRunning>>
      BY <1>11 DEF Wait, Goto
    <2>2. /\ at \in DOMAIN m_RunningJobs /\ NoRepeat(m_RunningJobs)
      BY <2>1 DEF IInv, Children
    <2>3. /\ m_RunningJobs' \in Seq(Job) /\ NoRepeat(m_RunningJobs')
          /\ \A k \in Job : In(k, m_RunningJobs') <=> In(k, m_RunningJobs) /\ k # Current
      BY <1>0, <2>1, <2>2, RemoveAtElements, RemoveAtJobs DEF Current
    <2>4. \A k \in Job : /\ ~Starting(k) /\ ~Starting(k)'
                         /\ (Collecting(k) <=> k = Current) /\ ~Collecting(k)'
      BY <2>1 DEF Starting, Collecting
    <2>5. Children'
      <3>1. \A k \in Job : In(k, m_RunningJobs)' <=> In(k, m_RunningJobs')
        BY DEF In
      <3>2. NoRepeat(m_RunningJobs)'
        BY <2>3 DEF NoRepeat
      <3>3. Current \in Job /\ In(Current, m_RunningJobs)
        BY <1>0, <2>2 DEF Current, In
      <3> QED
        BY <2>1, <2>3, <2>4, <3>1, <3>2, <3>3 DEF IInv, Children, Typed
    <2>6. BehindHasShell'
      BY <2>1 DEF IInv, BehindHasShell, Typed
    <2> QED
      BY <1>0, <2>1, <2>3, <2>5, <2>6 DEF IInv, Typed, RunningCounted, KillHitsOwnChild
  <1>12. CASE FinishedAll
    <2>1. /\ pc = "look" /\ pc' \in {"home", "round"} /\ iRunning' = Len(m_RunningJobs)
          /\ pc' = "home" => Len(m_RunningJobs) = 0
          /\ UNCHANGED <<child, behind, m_Shell, stray, m_RunningJobs, job, at>>
      BY <1>12 DEF FinishedAll, RoundEnds, Goto, process, control
    <2>2. Len(m_RunningJobs) = 0 => m_RunningJobs = <<>>
      BY <1>0, EmptySeq
    <2>3. \A k \in Job : /\ ~Starting(k) /\ ~Starting(k)'
                         /\ ~Collecting(k) /\ ~Collecting(k)'
      BY <2>1 DEF Starting, Collecting
    <2> QED
      BY <1>0, <2>1, <2>2, <2>3
      DEF IInv, Typed, Children, BehindHasShell, RunningCounted, KillHitsOwnChild
  <1>13. ASSUME NEW j \in Job, KillJob(j) PROVE IInv'
    <2>1. /\ pc # "read" /\ In(j, m_RunningJobs) /\ Kill(j)
          /\ UNCHANGED <<behind, m_Shell, m_RunningJobs, job, at, iRunning, pc>>
      BY <1>13 DEF KillJob, Locked, Running, In, launcher
    <2> QED
      BY <2>1, KillKeeps
  <1>14. ASSUME NEW j \in Job, End(j) PROVE IInv'
    <2>1. /\ child[j] = "alive" /\ child' = [child EXCEPT ![j] = "zombie"]
          /\ UNCHANGED <<behind, m_Shell, stray, m_RunningJobs, pc, job, at, iRunning>>
      BY <1>14 DEF End, control, launcher
    <2>2. \A k \in Job : /\ Starting(k)' <=> Starting(k)
                         /\ Collecting(k)' <=> Collecting(k)
                         /\ child'[k] = "none" <=> child[k] = "none"
      BY <2>1 DEF Starting, Collecting, Current, IInv, Typed
    <2> QED
      BY <2>1, <2>2
      DEF IInv, Typed, Children, BehindHasShell, RunningCounted, KillHitsOwnChild
  <1>15. ASSUME NEW j \in Job, LeftBehindEnds(j) PROVE IInv'
    <2>1. /\ behind' \subseteq behind
          /\ UNCHANGED <<child, m_Shell, stray, m_RunningJobs, pc, job, at, iRunning>>
      BY <1>15 DEF LeftBehindEnds, control, launcher
    <2>2. \A k \in Job : /\ Starting(k)' <=> Starting(k)
                         /\ Collecting(k)' <=> Collecting(k)
      BY <2>1 DEF Starting, Collecting, Current
    <2> QED
      BY <2>1, <2>2
      DEF IInv, Typed, Children, BehindHasShell, RunningCounted, KillHitsOwnChild
  <1>16. ASSUME UNCHANGED <<child, behind, control, launcher>> PROVE IInv'
    BY <1>0, <1>16, LauncherMoves DEF control, launcher
  <1>17. ASSUME NEW j \in Job, AddJob(j) \/ DeleteJob(j) \/ Expire(j) \/ Overdue(j)
         PROVE  IInv'
    BY <1>16, <1>17 DEF AddJob, DeleteJob, Expire, Overdue, process
  <1>18. CASE Stop \/ UNCHANGED vars
    BY <1>16, <1>18 DEF Stop, vars, process
  <1> QED
    BY <1>1, <1>2, <1>3, <1>4, <1>5, <1>6, <1>7, <1>8, <1>9, <1>10, <1>11, <1>12,
       <1>13, <1>14, <1>15, <1>17, <1>18 DEF Next, Launcher

\* No child is lost, for any number of jobs: it is listed, where KillJob() finds it and the
\* launcher collects it, or its Start() has not returned (kron.cpp:727-731); and the
\* destructor leaves none behind (kron.cpp:828-832).
THEOREM NoChildIsLost == Spec => []NoChildLost
  <1>1. IInv => NoChildLost
    <2> SUFFICES ASSUME IInv PROVE NoChildLost
      OBVIOUS
    <2>1. ASSUME NEW j \in Job, child[j] # "none"
          PROVE  Running(j) \/ (job = j /\ pc \in {"opened", "push"})
      BY <2>1 DEF IInv, Children, Starting, In, Running
    <2>2. ASSUME NEW j \in Job
          PROVE  Cardinality({i \in DOMAIN m_RunningJobs : m_RunningJobs[i] = j}) <= 1
      BY OncePerJob DEF IInv, Children, Typed
    <2> QED
      BY <2>1, <2>2 DEF NoChildLost, IInv, RunningCounted
  <1> QED
    BY KronInit, KronStep, <1>1, PTL DEF Spec

\* Neither KillJob() nor the launcher ever signals a process ID that was reaped and may be
\* another's by now: the lock of m_RunningJobs is held from the reaping to the removal of
\* the job (kron.cpp:381-383, 360).
THEOREM KillsAreOwn == Spec => []KillHitsOwnChild
  <1>1. IInv => KillHitsOwnChild
    BY DEF IInv
  <1> QED
    BY KronInit, KronStep, <1>1, PTL DEF Spec

\* A job is started only when its last execution was collected and the pipe of it was read
\* to the end, also by what the command left behind (Start() and Wait()).
THEOREM OneRun == Spec => OneRunAtATime
  <1>1. IInv /\ [Next]_vars =>
            [\A j \in Job : (child[j] # "alive" /\ child'[j] = "alive") =>
                child[j] = "none" /\ j \notin behind /\ ~Running(j)]_vars
    <2> SUFFICES ASSUME IInv, [Next]_vars, NEW j \in Job,
                        child[j] # "alive", child'[j] = "alive"
                 PROVE  child[j] = "none" /\ j \notin behind /\ ~Running(j)
      BY DEF vars
    <2>1. StartOpens /\ job = j
      <3>1. ASSUME NEW k \in Job, Reap(k) \/ Kill(k) PROVE FALSE
        BY <3>1 DEF Reap, Kill, IInv, Typed
      <3>2. ~UNCHANGED child
        OBVIOUS
      <3>3. ~StartAsks /\ ~IsWaiting /\ ~KillIfOverdue
        <4>1. StartAsks => UNCHANGED child \/ Reap(job)
          BY DEF StartAsks
        <4>2. IsWaiting => UNCHANGED child \/ Reap(Current)
          BY DEF IsWaiting
        <4>3. KillIfOverdue => UNCHANGED child \/ Kill(Current)
          BY DEF KillIfOverdue
        <4>4. job \in Job /\ (IsWaiting \/ KillIfOverdue => Current \in Job)
          BY DEF IInv, Typed, Children, Current, IsWaiting, KillIfOverdue
        <4> QED
          BY <3>1, <3>2, <4>1, <4>2, <4>3, <4>4
      <3>4. ASSUME NEW k \in Job, KillJob(k) \/ End(k) PROVE FALSE
        BY <3>1, <3>4 DEF KillJob, End, IInv, Typed
      <3>5. ~Round /\ ~StartSkipped /\ ~StartFails /\ ~Push /\ ~StartedAll /\ ~Wait /\ ~FinishedAll
        BY <3>2
        DEF Round, StartSkipped, StartFails, Push, StartedAll, Wait, FinishedAll, process
      <3>6. ASSUME NEW k \in Job, TakeJob(k) \/ AddJob(k) \/ DeleteJob(k) \/ Expire(k)
                                   \/ LeftBehindEnds(k) \/ Overdue(k)
            PROVE  FALSE
        BY <3>2, <3>6 DEF TakeJob, AddJob, DeleteJob, Expire, LeftBehindEnds, Overdue, process
      <3>7. ~Stop /\ ~UNCHANGED vars
        BY <3>2 DEF Stop, vars, process
      <3>8. StartOpens
        BY <3>3, <3>4, <3>5, <3>6, <3>7 DEF Next, Launcher
      <3> QED
        BY <3>8 DEF StartOpens, IInv, Typed
    <2>2. m_Shell[j] = "none" /\ pc = "open"
      BY <2>1 DEF StartOpens
    <2>3. ~Starting(j) /\ ~Collecting(j)
      BY <2>2 DEF Starting, Collecting
    <2> QED
      BY <2>2, <2>3 DEF IInv, Children, BehindHasShell, In, Running
  <1> QED
    BY KronInit, KronStep, <1>1, PTL DEF Spec, OneRunAtATime
=============================================================================
