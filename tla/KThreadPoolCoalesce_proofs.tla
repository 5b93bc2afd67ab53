--------------------- MODULE KThreadPoolCoalesce_proofs ---------------------
(***************************************************************************)
(* Theorems about PushCoalesced, for any workers, keys, plain tasks,       *)
(* queue bounds, submissions and calls of clear(): the run that settles a  *)
(* submission uses a callable at least as new as it, and until the first   *)
(* clear() a key never has two runs.                                       *)
(***************************************************************************)
EXTENDS KThreadPoolCoalesce, SequenceTheorems, FiniteSetTheorems, TLAPS

-----------------------------------------------------------------------------
\* What the scheduler's functions do to the queue: as much of the lemmas of
\* KThreadPool_proofs as is needed here.

Positions(q, k) == {i \in 1 .. Len(q) : q[i] = k}

LEMMA SchedFields ==
    ASSUME NEW S \in Sched
    PROVE  /\ S.Config \in [Tag -> TagConfig]
           /\ S.Queue \in [Tag -> Seq(Task)]
           /\ S.iDeficit \in [Tag -> Int]
           /\ S.iRunning \in [Tag -> Nat]
           /\ S.m_TagOrder \in Seq(Tag)
           /\ S.m_iTagCursor \in Nat
           /\ S.m_iTotalQueued \in Nat
           /\ S.m_bQueuePaused \in BOOLEAN
BY DEF Sched

LEMMA TagType ==
    ASSUME NEW S \in Sched, NEW t \in Tag
    PROVE  /\ sched_tag(S, t) \in Sched
           /\ sched_tag(S, t).Config = S.Config
           /\ sched_tag(S, t).Queue = S.Queue
           /\ sched_tag(S, t).iRunning = S.iRunning
           /\ sched_tag(S, t).m_iTotalQueued = S.m_iTotalQueued
           /\ sched_tag(S, t).m_bQueuePaused = S.m_bQueuePaused
<1>1. Append(S.m_TagOrder, t) \in Seq(Tag)
  BY SchedFields, AppendProperties
<1>2. [S EXCEPT !.m_TagOrder = Append(@, t)] \in Sched
  BY <1>1 DEF Sched
<1> QED BY <1>2 DEF sched_tag, Sched

LEMMA EnqueueType ==
    ASSUME NEW S \in Sched, NEW t \in Tag, NEW task \in Task,
           NEW r, r = sched_enqueue(S, t, task)
    PROVE  /\ r.sched \in Sched
           /\ r.bAccepted \in BOOLEAN
           /\ r.sched.iRunning = S.iRunning
           /\ r.sched.Config = S.Config
<1> DEFINE R == sched_tag(S, t)
           c == R.Config[t]
           full == c.iMaxQueue # 0 /\ Len(R.Queue[t]) >= c.iMaxQueue
<1>1. /\ R \in Sched /\ R.iRunning = S.iRunning /\ R.Config = S.Config
      /\ R.Queue[t] \in Seq(Task)
      /\ c \in TagConfig
  <2>1. R \in Sched /\ R.iRunning = S.iRunning /\ R.Config = S.Config
    BY TagType
  <2> QED BY <2>1, SchedFields
<1> HIDE DEF R
<1>2. CASE full /\ c.OverflowPolicy = "Reject"
  <2>1. r = [sched |-> R, bAccepted |-> FALSE, dropped |-> <<>>]
    BY <1>2 DEF sched_enqueue, R
  <2> QED BY <2>1, <1>1
<1>3. CASE full /\ c.OverflowPolicy # "Reject"
  <2> DEFINE X == [R EXCEPT !.Queue[t] = Append(Tail(@), task)]
  <2>1. r = [sched |-> X, bAccepted |-> TRUE, dropped |-> <<Head(R.Queue[t])>>]
    BY <1>3 DEF sched_enqueue, R
  <2>2. R.Queue[t] # <<>>
    BY <1>1, <1>3, EmptySeq DEF TagConfig
  <2>3. Append(Tail(R.Queue[t]), task) \in Seq(Task)
    BY <1>1, <2>2, HeadTailProperties, AppendProperties
  <2>4. X \in Sched /\ X.iRunning = R.iRunning /\ X.Config = R.Config
    BY <2>3, <1>1 DEF Sched
  <2> HIDE DEF X
  <2> QED BY <2>1, <2>4, <1>1
<1>4. CASE ~full
  <2> DEFINE X == [R EXCEPT !.Queue[t] = Append(@, task), !.m_iTotalQueued = @ + 1]
  <2>1. r = [sched |-> X, bAccepted |-> TRUE, dropped |-> <<>>]
    BY <1>4 DEF sched_enqueue, R
  <2>2. Append(R.Queue[t], task) \in Seq(Task) /\ R.m_iTotalQueued + 1 \in Nat
    BY <1>1, AppendProperties, SchedFields
  <2>3. X \in Sched /\ X.iRunning = R.iRunning /\ X.Config = R.Config
    BY <2>2, <1>1 DEF Sched
  <2> HIDE DEF X
  <2> QED BY <2>1, <2>3, <1>1
<1> QED BY <1>2, <1>3, <1>4

LEMMA PopType ==
    ASSUME NEW S \in Sched, NEW t \in Tag, S.Queue[t] # <<>>, S.m_iTotalQueued # 0,
           NEW r, r = Pop(S, t)
    PROVE  /\ r.sched \in Sched /\ r.bFound /\ r.tag = t /\ r.task \in Task
           /\ r.sched.iRunning = [S.iRunning EXCEPT ![t] = @ + 1]
           /\ r.sched.Config = S.Config
           /\ r.sched.m_TagOrder = S.m_TagOrder
<1> DEFINE X == [S EXCEPT !.Queue[t]      = Tail(@),
                          !.m_iTotalQueued  = @ - 1,
                          !.iRunning[t]   = @ + 1]
<1>1. S.Queue[t] \in Seq(Task) /\ S.iRunning[t] + 1 \in Nat /\ S.m_iTotalQueued - 1 \in Nat
  BY SchedFields
<1>2. Head(S.Queue[t]) \in Task /\ Tail(S.Queue[t]) \in Seq(Task)
  BY <1>1, HeadTailProperties
<1>3. X \in Sched
  BY <1>1, <1>2 DEF Sched
<1>4. /\ X.iRunning = [S.iRunning EXCEPT ![t] = @ + 1] /\ X.Config = S.Config
      /\ X.m_TagOrder = S.m_TagOrder /\ X.m_iTagCursor = S.m_iTagCursor
      /\ X.iDeficit = S.iDeficit
  BY DEF Sched
<1>5. r = [bFound |-> TRUE, tag |-> t, task |-> Head(S.Queue[t]), sched |-> X]
  BY DEF Pop
<1> HIDE DEF X
<1> QED BY <1>2, <1>3, <1>4, <1>5

LEMMA TaskDoneType ==
    ASSUME NEW S \in Sched, NEW t \in Tag,
           NEW r, r = sched_task_done(S, t)
    PROVE  /\ r.sched \in Sched
           /\ r.bWake \in BOOLEAN
           /\ r.sched.Config = S.Config
           /\ S.iRunning[t] > 0 =>
                r.sched.iRunning = [S.iRunning EXCEPT ![t] = @ - 1]
<1> DEFINE R == [S EXCEPT !.iRunning[t] = IF @ > 0 THEN @ - 1 ELSE @]
<1>1. S.iRunning \in [Tag -> Nat] /\ S.iRunning[t] \in Nat
  BY SchedFields
<1>2. (IF S.iRunning[t] > 0 THEN S.iRunning[t] - 1 ELSE S.iRunning[t]) \in Nat
  BY <1>1
<1>3. /\ R \in Sched /\ R.Config = S.Config
      /\ S.iRunning[t] > 0 => R.iRunning = [S.iRunning EXCEPT ![t] = @ - 1]
  BY <1>2 DEF Sched
<1>4. r.sched = R /\ r.bWake \in BOOLEAN
  <2> HIDE DEF R
  <2> DEFINE wake == /\ R.Config[t].iMaxConcurrency # 0
                     /\ ~R.m_bQueuePaused
                     /\ Serviceable(R, t)
  <2>1. r = [sched |-> R, bWake |-> wake]
    BY DEF sched_task_done, R
  <2>2. wake \in BOOLEAN
    OBVIOUS
  <2> HIDE DEF wake
  <2> QED BY <2>1, <2>2
<1> HIDE DEF R
<1> QED BY <1>3, <1>4

LEMMA ClearedType ==
    ASSUME NEW S \in Sched
    PROVE  /\ Cleared(S) \in Sched
           /\ Cleared(S).iRunning = S.iRunning
           /\ Cleared(S).Config = S.Config
<1> DEFINE q == [u \in Tag |-> <<>>]
           d == [u \in Tag |-> 0]
           R == [S EXCEPT !.Queue = q, !.iDeficit = d, !.m_iTotalQueued = 0]
<1>1. q \in [Tag -> Seq(Task)] /\ d \in [Tag -> Int]
  BY EmptySeq
<1>2. Cleared(S) = R
  BY DEF Cleared
<1> HIDE DEF q, d
<1>3. R \in Sched /\ R.iRunning = S.iRunning /\ R.Config = S.Config
  BY <1>1 DEF Sched
<1> QED BY <1>2, <1>3

LEMMA EmptyType ==
    ASSUME NEW config \in [Tag -> TagConfig], NEW order \in Seq(Tag)
    PROVE  /\ EmptySched(config, order) \in Sched
           /\ EmptySched(config, order).iRunning = [u \in Tag |-> 0]
           /\ EmptySched(config, order).Config = config
           /\ EmptySched(config, order).m_iTotalQueued = 0
BY EmptySeq DEF EmptySched, Sched

LEMMA EnqueueQueue ==
    ASSUME NEW S \in Sched, NEW t \in Tag, NEW task \in Task
    PROVE  LET r == sched_enqueue(S, t, task) IN
           /\ r.sched.m_TagOrder = sched_tag(S, t).m_TagOrder
           /\ r.sched.m_bQueuePaused = S.m_bQueuePaused
           /\ ~r.bAccepted => /\ r.dropped = <<>> /\ r.sched.Queue = S.Queue
                              /\ r.sched.m_iTotalQueued = S.m_iTotalQueued
           /\ r.bAccepted /\ r.dropped = <<>> =>
                /\ r.sched.Queue = [S.Queue EXCEPT ![t] = Append(@, task)]
                /\ r.sched.m_iTotalQueued = S.m_iTotalQueued + 1
           /\ r.bAccepted /\ r.dropped # <<>> =>
                /\ r.sched.m_iTotalQueued = S.m_iTotalQueued
                /\ S.Queue[t] # <<>> /\ r.dropped = <<Head(S.Queue[t])>>
                /\ S.Config[t].OverflowPolicy = "DropOldest"
                /\ r.sched.Queue = [S.Queue EXCEPT ![t] = Append(Tail(@), task)]
<1> PICK r : r = sched_enqueue(S, t, task) OBVIOUS
<1> DEFINE R == sched_tag(S, t)
           c == R.Config[t]
           full == c.iMaxQueue # 0 /\ Len(R.Queue[t]) >= c.iMaxQueue
<1>1. /\ R \in Sched /\ R.Config = S.Config /\ R.Queue = S.Queue
      /\ R.m_bQueuePaused = S.m_bQueuePaused /\ R.m_iTotalQueued = S.m_iTotalQueued
      /\ R.Queue[t] \in Seq(Task)
      /\ c \in TagConfig
  <2>1. R \in Sched /\ R.Config = S.Config /\ R.Queue = S.Queue
        /\ R.m_bQueuePaused = S.m_bQueuePaused /\ R.m_iTotalQueued = S.m_iTotalQueued
    BY TagType
  <2> QED BY <2>1, SchedFields
<1>2. PICK order : order = R.m_TagOrder OBVIOUS
<1> HIDE DEF R
<1>3. CASE full /\ c.OverflowPolicy = "Reject"
  <2>1. r = [sched |-> R, bAccepted |-> FALSE, dropped |-> <<>>]
    BY <1>3 DEF sched_enqueue, R
  <2> QED BY <2>1, <1>1 DEF R
<1>4. CASE full /\ c.OverflowPolicy # "Reject"
  <2> DEFINE X == [R EXCEPT !.Queue[t] = Append(Tail(@), task)]
  <2>1. r = [sched |-> X, bAccepted |-> TRUE, dropped |-> <<Head(R.Queue[t])>>]
    BY <1>4 DEF sched_enqueue, R
  <2>2. R.Queue[t] # <<>>
    BY <1>1, <1>4, EmptySeq DEF TagConfig
  <2>3. X.Queue = [R.Queue EXCEPT ![t] = Append(Tail(@), task)]
        /\ X.m_TagOrder = R.m_TagOrder /\ X.m_bQueuePaused = R.m_bQueuePaused
        /\ X.m_iTotalQueued = R.m_iTotalQueued
    BY <1>1 DEF Sched
  <2>4. c.OverflowPolicy = "DropOldest" BY <1>1, <1>4 DEF TagConfig
  <2>5. <<Head(R.Queue[t])>> # <<>> OBVIOUS
  <2> HIDE DEF X
  <2>6. /\ r.sched = X /\ r.bAccepted /\ r.dropped = <<Head(R.Queue[t])>>
    BY <2>1
  <2> QED BY <2>2, <2>3, <2>4, <2>5, <2>6, <1>1 DEF R
<1>5. CASE ~full
  <2> DEFINE X == [R EXCEPT !.Queue[t] = Append(@, task), !.m_iTotalQueued = @ + 1]
  <2>1. r = [sched |-> X, bAccepted |-> TRUE, dropped |-> <<>>]
    BY <1>5 DEF sched_enqueue, R
  <2>2. X.Queue = [R.Queue EXCEPT ![t] = Append(@, task)]
        /\ X.m_TagOrder = R.m_TagOrder /\ X.m_bQueuePaused = R.m_bQueuePaused
        /\ X.m_iTotalQueued = R.m_iTotalQueued + 1
    BY <1>1 DEF Sched
  <2> HIDE DEF X
  <2>3. r.sched = X /\ r.bAccepted /\ r.dropped = <<>> BY <2>1
  <2> QED BY <2>2, <2>3, <1>1 DEF R
<1> QED BY <1>3, <1>4, <1>5

LEMMA PopQueue ==
    ASSUME NEW S \in Sched, NEW t \in Tag
    PROVE  LET r == Pop(S, t) IN
           /\ r.task = Head(S.Queue[t])
           /\ r.sched.Queue = [S.Queue EXCEPT ![t] = Tail(@)]
           /\ r.sched.m_bQueuePaused = S.m_bQueuePaused
           /\ r.sched.m_TagOrder = S.m_TagOrder
           /\ r.sched.m_iTotalQueued = S.m_iTotalQueued - 1
<1> PICK r : r = Pop(S, t) OBVIOUS
<1> DEFINE X == [S EXCEPT !.Queue[t]      = Tail(@),
                          !.m_iTotalQueued  = @ - 1,
                          !.iRunning[t]   = @ + 1]
<1>1. X.Queue = [S.Queue EXCEPT ![t] = Tail(@)] /\ X.m_bQueuePaused = S.m_bQueuePaused
      /\ X.m_TagOrder = S.m_TagOrder /\ X.m_iTotalQueued = S.m_iTotalQueued - 1
  BY DEF Sched
<1>2. r = [bFound |-> TRUE, tag |-> t, task |-> Head(S.Queue[t]), sched |-> X]
  BY DEF Pop
<1> HIDE DEF X
<1> QED BY <1>1, <1>2

LEMMA FIFODequeue ==
    ASSUME NEW S \in Sched, NEW t \in Tag, S.m_TagOrder = <<t>>,
           NEW r, r = sched_dequeue(S), r.bFound
    PROVE  /\ S.Queue[t] # <<>> /\ r.task = Head(S.Queue[t])
           /\ r.sched \in Sched /\ r.sched.m_TagOrder = S.m_TagOrder
           /\ r.sched.Config = S.Config
           /\ r.sched.Queue = [S.Queue EXCEPT ![t] = Tail(@)]
<1>1. Len(S.m_TagOrder) = 1 /\ S.m_TagOrder[1] = t OBVIOUS
<1>2. ~Nothing(S).bFound BY DEF Nothing
<1>3. r = Pop(S, t) /\ Serviceable(S, t) /\ S.m_iTotalQueued # 0
  BY <1>1, <1>2 DEF sched_dequeue
<1>4. S.Queue[t] # <<>> BY <1>3 DEF Serviceable
<1>5. /\ r.sched \in Sched /\ r.sched.Config = S.Config
      /\ r.sched.m_TagOrder = S.m_TagOrder
  <2>1. S \in Sched /\ t \in Tag /\ S.Queue[t] # <<>> /\ S.m_iTotalQueued # 0
        /\ r = Pop(S, t)
    BY <1>3, <1>4
  <2>2. /\ Pop(S, t).sched \in Sched /\ Pop(S, t).sched.Config = S.Config
        /\ Pop(S, t).sched.m_TagOrder = S.m_TagOrder
        /\ Pop(S, t).sched.iRunning = [S.iRunning EXCEPT ![t] = @ + 1]
    BY <2>1, PopType
  <2> QED BY <2>1, <2>2
<1>6. /\ r.task = Head(S.Queue[t])
      /\ r.sched.Queue = [S.Queue EXCEPT ![t] = Tail(@)]
  BY <1>3, PopQueue
<1> QED BY <1>4, <1>5, <1>6

LEMMA ClearedQueue ==
    ASSUME NEW S \in Sched
    PROVE  /\ Cleared(S).Queue = [u \in Tag |-> <<>>]
           /\ Cleared(S).m_TagOrder = S.m_TagOrder
           /\ Cleared(S).m_bQueuePaused = S.m_bQueuePaused
           /\ Cleared(S).m_iTotalQueued = 0
BY DEF Cleared, Sched

LEMMA TaskDoneQueue ==
    ASSUME NEW S \in Sched, NEW t \in Tag
    PROVE  LET r == sched_task_done(S, t) IN
           /\ r.sched.Queue = S.Queue /\ r.sched.m_TagOrder = S.m_TagOrder
           /\ r.sched.m_bQueuePaused = S.m_bQueuePaused
           /\ r.sched.m_iTotalQueued = S.m_iTotalQueued
           /\ r.sched.iRunning = [S.iRunning EXCEPT ![t] = IF @ > 0 THEN @ - 1 ELSE @]
           /\ r.bWake <=> /\ r.sched.Config[t].iMaxConcurrency # 0
                          /\ ~S.m_bQueuePaused /\ Serviceable(r.sched, t)
<1> PICK r : r = sched_task_done(S, t) OBVIOUS
<1> DEFINE R == [S EXCEPT !.iRunning[t] = IF @ > 0 THEN @ - 1 ELSE @]
<1>1. R.Queue = S.Queue /\ R.m_TagOrder = S.m_TagOrder
      /\ R.m_bQueuePaused = S.m_bQueuePaused /\ R.m_iTotalQueued = S.m_iTotalQueued
      /\ R.iRunning = [S.iRunning EXCEPT ![t] = IF @ > 0 THEN @ - 1 ELSE @]
  BY DEF Sched
<1>2. r.sched = R /\ (r.bWake <=> /\ R.Config[t].iMaxConcurrency # 0
                                 /\ ~R.m_bQueuePaused /\ Serviceable(R, t))
  BY DEF sched_task_done
<1> HIDE DEF R
<1> QED BY <1>1, <1>2

LEMMA AppendPositions ==
    ASSUME NEW A, NEW q \in Seq(A), NEW x \in A, NEW k
    PROVE  /\ Append(q, x) \in Seq(A)
           /\ k # x => Positions(Append(q, x), k) = Positions(q, k)
           /\ Positions(Append(q, x), x) = Positions(q, x) \cup {Len(q) + 1}
<1>1. PICK n \in Nat : n = Len(q) OBVIOUS
<1>2. /\ Append(q, x) \in Seq(A) /\ Len(Append(q, x)) = n + 1 /\ Append(q, x)[n + 1] = x
      /\ \A i \in 1 .. n : Append(q, x)[i] = q[i]
  BY <1>1
<1>3. PICK more : more = Append(q, x) OBVIOUS
<1>4. Len(more) = n + 1 /\ more[n + 1] = x /\ \A i \in 1 .. n : more[i] = q[i]
  BY <1>2, <1>3
<1>5. 1 .. n + 1 = (1 .. n) \cup {n + 1} OBVIOUS
<1>6. k # x => Positions(more, k) = Positions(q, k)
  BY <1>1, <1>4, <1>5 DEF Positions
<1>7. Positions(more, x) = Positions(q, x) \cup {n + 1}
  BY <1>1, <1>4, <1>5 DEF Positions
<1> QED BY <1>1, <1>2, <1>3, <1>6, <1>7

LEMMA TailPositions ==
    ASSUME NEW A, NEW q \in Seq(A), q # <<>>, NEW k
    PROVE  /\ Tail(q) \in Seq(A) /\ Head(q) \in A /\ 1 \in Positions(q, Head(q))
           /\ Positions(q, k) \subseteq Nat
           /\ \A i \in Nat : i \in Positions(Tail(q), k) <=> i # 0 /\ i + 1 \in Positions(q, k)
<1>1. PICK n \in Nat \ {0} : n = Len(q) OBVIOUS
<1>2. /\ Tail(q) \in Seq(A) /\ Len(Tail(q)) = n - 1 /\ Head(q) = q[1] /\ q[1] \in A
      /\ \A i \in 1 .. n - 1 : Tail(q)[i] = q[i + 1]
  BY <1>1
<1>3. PICK rest : rest = Tail(q) OBVIOUS
<1>4. Len(rest) = n - 1 /\ \A i \in 1 .. n - 1 : rest[i] = q[i + 1] BY <1>2, <1>3
<1>5. \A i \in Nat : i \in 1 .. n - 1 <=> i # 0 /\ i + 1 \in 1 .. n OBVIOUS
<1>6. \A i \in Nat : i \in Positions(rest, k) <=> i # 0 /\ i + 1 \in Positions(q, k)
  BY <1>1, <1>4, <1>5 DEF Positions
<1> QED BY <1>1, <1>2, <1>3, <1>6 DEF Positions

-----------------------------------------------------------------------------
\* The parts of the inductive invariant.

\* One tag is in use, with the policy it was given: the queue is a plain FIFO.
SchedOK == /\ sched \in Sched
           /\ sched.m_TagOrder = <<tag>>
           /\ sched.Config = InitConfig

Types == /\ Coalesce \in [Key -> CoalesceState]
         /\ pc \in [Worker -> PC]
         /\ job \in [Worker -> {<<>>} \cup {<<k>> : k \in Task}]
         /\ claim \in [Worker -> [Callable : Submission \cup {0},
                                  Promise  : SUBSET Submission]]
         /\ outcome \in [Submission -> {"new", "pending", "served", "broken"}]
         /\ clears \in 0 .. Clears

\* Who is inside run_coalesce has a trampoline in hand.
Jobs == \A w \in Worker : /\ pc[w] \in {"claim", "run", "settled"} =>
                               \E k \in Key : job[w] = <<k>>

\* Submissions come in the order of their numbers, so what shares a promise is older than
\* the next submission, and the callable is as new as the newest of them.
Covers(c) == \A s \in c.Promise : outcome[s] # "new" /\ c.Callable >= s

Ordered == /\ \A r, s \in Submission : r < s /\ outcome[r] = "new" => outcome[s] = "new"
           /\ \A k \in Key : Covers(Coalesce[k])
           /\ \A w \in Worker : Covers(claim[w])

\* The flags of a key say where its one run is.
AtMostOne(S) == \A x, y \in S : x = y

KeyOnce(k) ==
    /\ AtMostOne(Queued(k)) /\ AtMostOne(Entering(k)) /\ AtMostOne(Running(k))
    /\ Queued(k) = {} \/ Entering(k) = {}
    /\ Coalesce[k].bQueued <=> Queued(k) # {} \/ Entering(k) # {}
    /\ Coalesce[k].bRunning <=> Running(k) # {}
    /\ ~(Coalesce[k].bQueued /\ Coalesce[k].bRunning)
    /\ Coalesce[k].Promise # {} => Scheduled(Coalesce[k])

RunsOnce == clears = 0 => \A k \in Key : KeyOnce(k)

IInv == SchedOK /\ Types /\ Jobs /\ Ordered /\ RunsOnce

-----------------------------------------------------------------------------
\* The constants and small facts

LEMMA TheTag == tag \in Tag /\ Tag = {tag}
BY CoalesceAssumption DEF tag

LEMMA SubmissionsAreNumbers == Submission \subseteq Nat /\ 0 \notin Submission
BY CoalesceAssumption DEF Submission

LEMMA NoStateType == /\ NoState \in CoalesceState /\ Covers(NoState)
                     /\ NoClaim \in [Callable : Submission \cup {0},
                                     Promise  : SUBSET Submission]
                     /\ Covers(NoClaim)
BY DEF NoState, NoClaim, CoalesceState, Covers

\* What queueing a trampoline or a plain task does to the one queue
LEMMA EnqueueOne ==
    ASSUME SchedOK, NEW x \in Task
    PROVE  LET r == sched_enqueue(sched, tag, x) IN
           /\ r.sched \in Sched /\ r.sched.m_TagOrder = <<tag>>
           /\ r.sched.Config = InitConfig
           /\ r.bAccepted \in BOOLEAN
           /\ ~r.bAccepted => r.sched.Queue[tag] = sched.Queue[tag]
           /\ r.bAccepted => r.sched.Queue[tag] = Append(sched.Queue[tag], x)
<1> PICK r : r = sched_enqueue(sched, tag, x) OBVIOUS
<1>1. sched \in Sched /\ tag \in Tag BY TheTag DEF SchedOK
<1>2. sched_tag(sched, tag).m_TagOrder = <<tag>>
  BY DEF SchedOK, sched_tag, Registered
<1>3. sched.Config[tag].OverflowPolicy # "DropOldest"
  BY CoalesceAssumption DEF SchedOK
<1>4. sched.Queue \in [Tag -> Seq(Task)] BY <1>1, SchedFields
<1>5. /\ r.sched \in Sched /\ r.sched.Config = InitConfig /\ r.bAccepted \in BOOLEAN
  BY <1>1, EnqueueType DEF SchedOK
<1>6. /\ r.sched.m_TagOrder = <<tag>>
      /\ ~r.bAccepted => r.sched.Queue = sched.Queue
      /\ r.bAccepted => r.sched.Queue = [sched.Queue EXCEPT ![tag] = Append(@, x)]
  <2>1. /\ r.sched.m_TagOrder = sched_tag(sched, tag).m_TagOrder
        /\ ~r.bAccepted => r.sched.Queue = sched.Queue
        /\ r.bAccepted /\ r.dropped = <<>> =>
             r.sched.Queue = [sched.Queue EXCEPT ![tag] = Append(@, x)]
        /\ r.bAccepted /\ r.dropped # <<>> =>
             sched.Config[tag].OverflowPolicy = "DropOldest"
    BY <1>1, EnqueueQueue
  <2> QED BY <1>2, <1>3, <2>1
<1> QED BY <1>1, <1>4, <1>5, <1>6

LEMMA QueueType == ASSUME SchedOK PROVE sched.Queue[tag] \in Seq(Task)
BY TheTag, SchedFields DEF SchedOK

LEMMA QueuedPositions == \A k : Queued(k) = Positions(sched.Queue[tag], k)
BY DEF Queued, Positions

\* Steps that leave the queue and the run of every key alone
LEMMA SameRuns ==
    ASSUME RunsOnce, UNCHANGED <<Coalesce, clears>>, sched'.Queue[tag] = sched.Queue[tag],
           \A k \in Key : Entering(k)' = Entering(k) /\ Running(k)' = Running(k)
    PROVE  RunsOnce'
<1> SUFFICES ASSUME clears = 0, NEW k \in Key PROVE KeyOnce(k)'
  BY DEF RunsOnce
<1>1. KeyOnce(k) BY DEF RunsOnce
<1>2. Queued(k)' = Queued(k) BY DEF Queued
<1> QED BY <1>1, <1>2 DEF KeyOnce

\* Queueing the trampoline of a key that has no run gives it one, or forgets the key.
LEMMA ScheduleKeeps ==
    ASSUME IInv, NEW k \in Key, NEW CS \in CoalesceState, Schedule(k, CS), Covers(CS)',
           clears' = clears,
           \A j \in Key : Entering(j)' = Entering(j),
           \A j \in Key : j # k => Running(j)' = Running(j),
           clears = 0 => Queued(k) = {} /\ Entering(k) = {} /\ Running(k)' = {}
    PROVE  /\ SchedOK' /\ RunsOnce'
           /\ Coalesce' \in [Key -> CoalesceState]
           /\ \A j \in Key : Covers(Coalesce[j])' \/ Coalesce'[j] = Coalesce[j]
<1> PICK r : r = sched_enqueue(sched, tag, k) OBVIOUS
<1>1. k \in Task /\ SchedOK /\ sched.Queue[tag] \in Seq(Task)
  BY CoalesceAssumption, QueueType DEF IInv
<1>2. /\ r.sched \in Sched /\ r.sched.m_TagOrder = <<tag>>
      /\ r.sched.Config = InitConfig
      /\ r.bAccepted \in BOOLEAN
      /\ ~r.bAccepted => r.sched.Queue[tag] = sched.Queue[tag]
      /\ r.bAccepted => r.sched.Queue[tag] = Append(sched.Queue[tag], k)
  BY <1>1, EnqueueOne
<1>3. sched' = r.sched BY DEF Schedule
<1>4. SchedOK' BY <1>2, <1>3 DEF SchedOK
<1> DEFINE new == IF r.bAccepted THEN [CS EXCEPT !.bRunning = FALSE, !.bQueued = TRUE]
                                 ELSE NoState
<1>5. Coalesce' = [Coalesce EXCEPT ![k] = new] BY DEF Schedule
<1>6. /\ new \in CoalesceState
      /\ r.bAccepted => /\ new.bQueued = TRUE /\ new.bRunning = FALSE
                        /\ new.Promise = CS.Promise /\ new.Callable = CS.Callable
      /\ ~r.bAccepted => new = NoState
  BY NoStateType DEF CoalesceState
<1> HIDE DEF new
<1>7. Coalesce \in [Key -> CoalesceState] BY DEF IInv, Types
<1>8. Coalesce' \in [Key -> CoalesceState] BY <1>5, <1>6, <1>7
<1>9. Coalesce'[k] = new /\ \A j \in Key : j # k => Coalesce'[j] = Coalesce[j]
  BY <1>5, <1>7
<1>10. Covers(Coalesce[k])'
  <2>1. CASE r.bAccepted BY <1>6, <1>9, <2>1 DEF Covers
  <2>2. CASE ~r.bAccepted BY <1>6, <1>9, <2>2 DEF Covers, NoState
  <2> QED BY <2>1, <2>2
<1>11. RunsOnce'
  <2> SUFFICES ASSUME clears = 0, NEW j \in Key PROVE KeyOnce(j)'
    BY DEF RunsOnce
  <2>1. /\ j # k \/ ~r.bAccepted => Queued(j)' = Queued(j)
        /\ r.bAccepted => Queued(k)' = Queued(k) \cup {Len(sched.Queue[tag]) + 1}
    <3>1. /\ j # k => Positions(Append(sched.Queue[tag], k), j) = Positions(sched.Queue[tag], j)
          /\ Positions(Append(sched.Queue[tag], k), k)
               = Positions(sched.Queue[tag], k) \cup {Len(sched.Queue[tag]) + 1}
      BY <1>1, AppendPositions
    <3>2. r.bAccepted => /\ Queued(j)' = Positions(Append(sched.Queue[tag], k), j)
                         /\ Queued(k)' = Positions(Append(sched.Queue[tag], k), k)
      BY <1>2, <1>3 DEF Queued, Positions
    <3>3. ~r.bAccepted => Queued(j)' = Queued(j)
      BY <1>2, <1>3 DEF Queued
    <3> QED BY <3>1, <3>2, <3>3, QueuedPositions
  <2>2. CASE j # k
    <3>1. KeyOnce(j) BY DEF IInv, RunsOnce
    <3> QED BY <1>9, <2>1, <2>2, <3>1 DEF KeyOnce
  <2>3. CASE j = k /\ r.bAccepted
    <3>1. /\ Queued(k)' = {Len(sched.Queue[tag]) + 1} /\ Entering(k)' = {} /\ Running(k)' = {}
          /\ Coalesce'[k].bQueued = TRUE /\ Coalesce'[k].bRunning = FALSE
      BY <1>6, <1>9, <2>1, <2>3
    <3> QED BY <2>3, <3>1 DEF KeyOnce, AtMostOne, Scheduled
  <2>4. CASE j = k /\ ~r.bAccepted
    <3>1. /\ Queued(k)' = {} /\ Entering(k)' = {} /\ Running(k)' = {}
          /\ Coalesce'[k] = NoState
      BY <1>6, <1>9, <2>1, <2>4
    <3> QED BY <2>4, <3>1 DEF KeyOnce, AtMostOne, NoState
  <2> QED BY <2>2, <2>3, <2>4
<1> QED BY <1>4, <1>8, <1>9, <1>10, <1>11

\* Settling submissions that are not new, or the next one, keeps the order.
LEMMA SettleKeeps ==
    ASSUME Types, Ordered, NEW subs \in SUBSET Submission,
           NEW how \in {"pending", "served", "broken"}, outcome' = Settle(subs, how),
           \A s \in subs : outcome[s] # "new" \/ s \in NextSubmission
    PROVE  /\ outcome' \in [Submission -> {"new", "pending", "served", "broken"}]
           /\ \A s \in subs : outcome'[s] # "new"
           /\ \A r, s \in Submission : r < s /\ outcome'[r] = "new" => outcome'[s] = "new"
           /\ \A c : c.Promise \subseteq Submission /\ Covers(c) =>
                 \A s \in c.Promise : outcome'[s] # "new" /\ c.Callable >= s
<1>1. outcome' \in [Submission -> {"new", "pending", "served", "broken"}]
  BY DEF Types, Settle
<1>2. \A s \in Submission : outcome'[s] = "new" <=> outcome[s] = "new" /\ s \notin subs
  BY DEF Settle
<1>3. ASSUME NEW r \in Submission, NEW s \in Submission, r < s, outcome'[r] = "new"
      PROVE  outcome'[s] = "new"
  <2>1. outcome[r] = "new" /\ outcome[s] = "new" BY <1>2, <1>3 DEF Ordered
  <2>2. r \in 1 .. s - 1 BY <1>3, SubmissionsAreNumbers DEF Submission
  <2>3. s \notin NextSubmission BY <2>1, <2>2 DEF NextSubmission
  <2> QED BY <1>2, <2>1, <2>3
<1>4. \A c : c.Promise \subseteq Submission /\ Covers(c) =>
         \A s \in c.Promise : outcome'[s] # "new" /\ c.Callable >= s
  BY <1>2 DEF Covers
<1> QED BY <1>1, <1>2, <1>3, <1>4

LEMMA PromisesTyped ==
    ASSUME Types
    PROVE  /\ \A k \in Key : Coalesce[k].Promise \subseteq Submission
           /\ \A w \in Worker : claim[w].Promise \subseteq Submission
BY DEF Types, CoalesceState

LEMMA PushCoalescedKeeps ==
    ASSUME IInv, NEW k \in Key, NEW s \in Submission, push_coalesced_task(k, s)
    PROVE  IInv'
<1> PICK CS : CS = Submitted(Coalesce[k], s) OBVIOUS
<1>1. /\ Coalesce[k] \in CoalesceState /\ s \in NextSubmission /\ outcome[s] = "new"
      /\ UNCHANGED <<pc, job, claim, clears>>
  BY DEF push_coalesced_task, IInv, Types, NextSubmission
<1>2. /\ CS \in CoalesceState /\ CS.Callable = s /\ CS.Promise = Coalesce[k].Promise \cup {s}
      /\ CS.bRunning = Coalesce[k].bRunning /\ CS.bQueued = Coalesce[k].bQueued
  BY <1>1 DEF Submitted, CoalesceState
<1>3. \A r \in CS.Promise : s >= r
  <2>1. \A r \in Coalesce[k].Promise : r \in Submission /\ outcome[r] # "new"
    BY PromisesTyped DEF IInv, Ordered, Covers
  <2>2. \A r \in Coalesce[k].Promise : ~(s < r) BY <1>1, <2>1 DEF IInv, Ordered
  <2>3. s \in Nat /\ \A r \in CS.Promise : r \in Nat
    BY <1>2, <2>1, SubmissionsAreNumbers
  <2> QED BY <1>2, <2>2, <2>3
<1>4. /\ \A j \in Key : Entering(j)' = Entering(j) /\ Running(j)' = Running(j)
  BY <1>1 DEF Entering, Running
<1>5. Jobs' BY <1>1 DEF IInv, Jobs
<1>6. CASE Scheduled(CS) /\ Coalesce' = [Coalesce EXCEPT ![k] = CS]
           /\ outcome' = Settle({s}, "pending") /\ UNCHANGED sched
  <2>1. /\ outcome' \in [Submission -> {"new", "pending", "served", "broken"}]
        /\ outcome'[s] # "new"
        /\ \A r, q \in Submission : r < q /\ outcome'[r] = "new" => outcome'[q] = "new"
        /\ \A c : c.Promise \subseteq Submission /\ Covers(c) =>
             \A q \in c.Promise : outcome'[q] # "new" /\ c.Callable >= q
    <3>1. PICK subs \in SUBSET Submission : subs = {s} OBVIOUS
    <3>2. PICK how \in {"pending", "served", "broken"} : how = "pending" OBVIOUS
    <3>3. /\ outcome' = Settle(subs, how)
          /\ \A q \in subs : outcome[q] # "new" \/ q \in NextSubmission
      BY <1>1, <1>6, <3>1, <3>2
    <3>4. s \in subs BY <3>1
    <3> QED BY <3>3, <3>4, SettleKeeps DEF IInv
  <2>2. Coalesce'[k] = CS /\ \A j \in Key : j # k => Coalesce'[j] = Coalesce[j]
    BY <1>6 DEF IInv, Types
  <2>3. SchedOK' BY <1>6 DEF IInv, SchedOK
  <2>4. Types' BY <1>1, <1>2, <1>6, <2>1 DEF IInv, Types
  <2>5. \A q \in CS.Promise : outcome'[q] # "new"
    BY <1>2, <2>1, PromisesTyped DEF IInv, Ordered
  <2>6. Covers(Coalesce[k])' BY <1>2, <1>3, <2>2, <2>5 DEF Covers
  <2>7. \A j \in Key : Covers(Coalesce[j])'
    <3> SUFFICES ASSUME NEW j \in Key, j # k PROVE Covers(Coalesce[j])' BY <2>6
    <3> QED BY <2>1, <2>2, PromisesTyped DEF IInv, Ordered, Covers
  <2>8. \A w \in Worker : Covers(claim[w])'
    BY <1>1, <2>1, PromisesTyped DEF IInv, Ordered, Covers
  <2>9. Ordered' BY <2>1, <2>7, <2>8 DEF Ordered
  <2>10. RunsOnce'
    <3> SUFFICES ASSUME clears = 0, NEW j \in Key PROVE KeyOnce(j)'
      BY <1>1 DEF RunsOnce
    <3>1. KeyOnce(j) BY DEF IInv, RunsOnce
    <3>2. Queued(j)' = Queued(j) BY <1>6 DEF Queued
    <3>3. /\ Coalesce'[j].bQueued = Coalesce[j].bQueued
          /\ Coalesce'[j].bRunning = Coalesce[j].bRunning
          /\ Coalesce'[j].Promise # {} => Scheduled(Coalesce'[j])
      BY <1>2, <1>6, <2>2, <3>1 DEF KeyOnce
    <3> QED BY <1>4, <3>1, <3>2, <3>3 DEF KeyOnce
  <2> QED BY <1>5, <2>3, <2>4, <2>9, <2>10 DEF IInv
<1>7. CASE ~Scheduled(CS) /\ Schedule(k, CS)
  <2>1. PICK how \in {"pending", "broken"} : outcome' = Settle(CS.Promise, how)
    BY <1>7 DEF Schedule
  <2>2. \A q \in CS.Promise : outcome[q] # "new" \/ q \in NextSubmission
    BY <1>1, <1>2 DEF IInv, Ordered, Covers
  <2>3. CS.Promise \in SUBSET Submission BY <1>2 DEF CoalesceState
  <2>4. /\ outcome' \in [Submission -> {"new", "pending", "served", "broken"}]
        /\ \A q \in CS.Promise : outcome'[q] # "new"
        /\ \A r, q \in Submission : r < q /\ outcome'[r] = "new" => outcome'[q] = "new"
        /\ \A c : c.Promise \subseteq Submission /\ Covers(c) =>
             \A q \in c.Promise : outcome'[q] # "new" /\ c.Callable >= q
    BY <2>1, <2>2, <2>3, SettleKeeps DEF IInv
  <2>5. Covers(CS)' BY <1>2, <1>3, <2>4 DEF Covers
  <2>6. clears = 0 => Queued(k) = {} /\ Entering(k) = {} /\ Running(k)' = {}
    BY <1>2, <1>4, <1>7 DEF IInv, RunsOnce, KeyOnce, Scheduled
  <2>7. /\ SchedOK' /\ RunsOnce'
        /\ Coalesce' \in [Key -> CoalesceState]
        /\ \A j \in Key : Covers(Coalesce[j])' \/ Coalesce'[j] = Coalesce[j]
    BY <1>1, <1>2, <1>4, <1>7, <2>5, <2>6, ScheduleKeeps
  <2>8. Types' BY <1>1, <2>4, <2>7 DEF IInv, Types
  <2>9. \A j \in Key : Covers(Coalesce[j])'
    BY <2>4, <2>7, PromisesTyped DEF IInv, Ordered, Covers
  <2>10. \A w \in Worker : Covers(claim[w])'
    BY <1>1, <2>4, PromisesTyped DEF IInv, Ordered, Covers
  <2>11. Ordered' BY <2>4, <2>9, <2>10 DEF Ordered
  <2> QED BY <1>5, <2>7, <2>8, <2>11 DEF IInv
<1> QED BY <1>6, <1>7 DEF push_coalesced_task

LEMMA PushTaggedKeeps ==
    ASSUME IInv, NEW p \in Plain, PushTagged(p)
    PROVE  IInv'
<1> PICK r : r = sched_enqueue(sched, tag, p) OBVIOUS
<1>1. p \in Task /\ p \notin Key /\ SchedOK /\ sched.Queue[tag] \in Seq(Task)
  BY CoalesceAssumption, QueueType DEF IInv
<1>2. /\ r.sched \in Sched /\ r.sched.m_TagOrder = <<tag>>
      /\ r.sched.Config = InitConfig
      /\ r.bAccepted \in BOOLEAN
      /\ ~r.bAccepted => r.sched.Queue[tag] = sched.Queue[tag]
      /\ r.bAccepted => r.sched.Queue[tag] = Append(sched.Queue[tag], p)
  BY <1>1, EnqueueOne
<1>3. sched' = r.sched /\ UNCHANGED <<Coalesce, pc, job, claim, outcome, clears>>
  BY DEF PushTagged
<1>4. SchedOK' BY <1>2, <1>3 DEF SchedOK
<1>5. Types' /\ Jobs' BY <1>3 DEF IInv, Types, Jobs
<1>6. Ordered' BY <1>3 DEF IInv, Ordered, Covers
<1>7. RunsOnce'
  <2> SUFFICES ASSUME clears = 0, NEW j \in Key PROVE KeyOnce(j)'
    BY <1>3 DEF RunsOnce
  <2>1. KeyOnce(j) BY DEF IInv, RunsOnce
  <2>2. Queued(j)' = Queued(j)
    <3>1. Positions(Append(sched.Queue[tag], p), j) = Positions(sched.Queue[tag], j)
      BY <1>1, AppendPositions
    <3>2. r.bAccepted => Queued(j)' = Positions(Append(sched.Queue[tag], p), j)
      BY <1>2, <1>3 DEF Queued, Positions
    <3>3. ~r.bAccepted => Queued(j)' = Queued(j) BY <1>2, <1>3 DEF Queued
    <3> QED BY <3>1, <3>2, <3>3, QueuedPositions
  <2>3. Entering(j)' = Entering(j) /\ Running(j)' = Running(j)
    BY <1>3 DEF Entering, Running
  <2> QED BY <1>3, <2>1, <2>2, <2>3 DEF KeyOnce
<1> QED BY <1>4, <1>5, <1>6, <1>7 DEF IInv

LEMMA DequeueKeeps ==
    ASSUME IInv, NEW w \in Worker, Dequeue(w)
    PROVE  IInv'
<1> PICK r : r = sched_dequeue(sched) OBVIOUS
<1>1. /\ pc[w] = "idle" /\ r.bFound /\ sched' = r.sched
      /\ job' = [job EXCEPT ![w] = <<r.task>>]
      /\ pc'  = [pc EXCEPT ![w] = IF r.task \in Key THEN "claim" ELSE "task"]
      /\ UNCHANGED <<Coalesce, claim, outcome, clears>>
  BY DEF Dequeue
<1>2. PICK q \in Seq(Task) : q = sched.Queue[tag] BY QueueType DEF IInv
<1>3. /\ q # <<>> /\ r.task = Head(q) /\ r.sched \in Sched
      /\ r.sched.m_TagOrder = <<tag>> /\ r.sched.Config = InitConfig
      /\ r.sched.Queue[tag] = Tail(q)
  <2>1. /\ sched \in Sched /\ tag \in Tag /\ sched.m_TagOrder = <<tag>>
        /\ sched.Config = InitConfig /\ sched.Queue \in [Tag -> Seq(Task)]
    BY TheTag, SchedFields DEF IInv, SchedOK
  <2>2. /\ sched.Queue[tag] # <<>> /\ r.task = Head(sched.Queue[tag])
        /\ r.sched \in Sched /\ r.sched.m_TagOrder = sched.m_TagOrder
        /\ r.sched.Config = sched.Config
        /\ r.sched.Queue = [sched.Queue EXCEPT ![tag] = Tail(@)]
    BY <1>1, <2>1, FIFODequeue
  <2> QED BY <1>2, <2>1, <2>2
<1>4. PICK x \in Task : x = r.task BY <1>3, TailPositions
<1>5. SchedOK' BY <1>1, <1>3 DEF SchedOK
<1>6. pc \in [Worker -> PC] /\ job \in [Worker -> {<<>>} \cup {<<k>> : k \in Task}]
  BY DEF IInv, Types
<1>7. /\ pc'[w] = (IF x \in Key THEN "claim" ELSE "task") /\ job'[w] = <<x>>
      /\ \A v \in Worker : v # w => pc'[v] = pc[v] /\ job'[v] = job[v]
  BY <1>1, <1>4, <1>6
<1>8. Types'
  <2>1. pc' \in [Worker -> PC] BY <1>1, <1>6 DEF PC
  <2>2. job' \in [Worker -> {<<>>} \cup {<<k>> : k \in Task}] BY <1>1, <1>4, <1>6
  <2> QED BY <1>1, <2>1, <2>2 DEF IInv, Types
<1>9. Jobs' BY <1>7 DEF IInv, Jobs
<1>10. Ordered' BY <1>1 DEF IInv, Ordered, Covers
<1>11. RunsOnce'
  <2> SUFFICES ASSUME clears = 0, NEW j \in Key PROVE KeyOnce(j)'
    BY <1>1 DEF RunsOnce
  <2>1. KeyOnce(j) BY DEF IInv, RunsOnce
  <2>2. /\ Queued(j) = Positions(q, j) /\ Queued(j)' = Positions(Tail(q), j)
    BY <1>1, <1>2, <1>3 DEF Queued, Positions
  <2>3. /\ 1 \in Positions(q, x) /\ Positions(q, j) \subseteq Nat
        /\ \A i \in Nat : i \in Positions(Tail(q), j) <=> i # 0 /\ i + 1 \in Positions(q, j)
        /\ Positions(Tail(q), j) \subseteq Nat
    <3>1. Positions(Tail(q), j) \subseteq Nat BY DEF Positions
    <3> QED BY <1>3, <1>4, <3>1, TailPositions
  <2>4. Running(j)' = Running(j) BY <1>1, <1>7 DEF Running
  <2>5. CASE x = j
    <3>1. 1 \in Queued(j) BY <2>2, <2>3, <2>5
    <3>2. Queued(j)' = {}
      <4>1. \A i \in Nat : i + 1 \in Queued(j) => i = 0 BY <2>1, <3>1 DEF KeyOnce, AtMostOne
      <4> QED BY <2>2, <2>3, <4>1
    <3>3. Entering(j) = {} /\ Coalesce[j].bQueued BY <2>1, <3>1 DEF KeyOnce
    <3>4. Entering(j)' = {w} BY <1>7, <2>5, <3>3 DEF Entering
    <3> QED BY <1>1, <2>1, <2>4, <3>1, <3>2, <3>3, <3>4 DEF KeyOnce, AtMostOne
  <2>6. CASE x # j
    <3>1. Entering(j)' = Entering(j) BY <1>1, <1>7, <2>6 DEF Entering
    <3>2. 1 \notin Positions(q, j) BY <2>3, <2>6 DEF Positions
    <3>3. \A i \in Queued(j) : i - 1 \in Queued(j)'
      <4> SUFFICES ASSUME NEW i \in Queued(j) PROVE i - 1 \in Queued(j)' OBVIOUS
      <4>1. i \in 1 .. Len(q) /\ i # 1 BY <1>2, <2>2, <3>2 DEF Positions
      <4>2. i - 1 \in Nat /\ i - 1 # 0 /\ (i - 1) + 1 = i BY <4>1
      <4> QED BY <2>2, <2>3, <4>2
    <3>4. \A i \in Queued(j)' : i \in Nat /\ i + 1 \in Queued(j) BY <2>2, <2>3
    <3>5. AtMostOne(Queued(j)')
      <4> SUFFICES ASSUME NEW a \in Queued(j)', NEW b \in Queued(j)' PROVE a = b
        BY DEF AtMostOne
      <4>1. a + 1 = b + 1 BY <2>1, <3>4 DEF KeyOnce, AtMostOne
      <4> QED BY <3>4, <4>1
    <3>6. Queued(j)' = {} <=> Queued(j) = {} BY <3>3, <3>4
    <3> QED BY <1>1, <2>1, <2>4, <3>1, <3>5, <3>6 DEF KeyOnce, AtMostOne
  <2> QED BY <2>5, <2>6
<1> QED BY <1>5, <1>8, <1>9, <1>10, <1>11 DEF IInv

\* The run that claims a generation takes it from the queue; later submissions start a
\* new one.
LEMMA ClaimKeeps ==
    ASSUME IInv, NEW w \in Worker, Claim(w)
    PROVE  IInv'
<1>1. PICK k \in Key : job[w] = <<k>> BY DEF Claim, IInv, Jobs
<1>2. /\ pc[w] = "claim" /\ UNCHANGED <<sched, job, outcome, clears>> /\ job[w][1] = k
  BY <1>1 DEF Claim
<1>3. SchedOK' BY <1>2 DEF IInv, SchedOK
<1>4. /\ pc \in [Worker -> PC] /\ Coalesce \in [Key -> CoalesceState]
      /\ claim \in [Worker -> [Callable : Submission \cup {0}, Promise : SUBSET Submission]]
  BY DEF IInv, Types
<1>5. \A j : Queued(j)' = Queued(j) BY <1>2 DEF Queued
<1>6. w \in Entering(k) BY <1>1, <1>2 DEF Entering
<1>7. CASE Coalesce[k] = NoState /\ pc' = [pc EXCEPT ![w] = "done"]
           /\ UNCHANGED <<Coalesce, claim>>
  <2>1. Types' BY <1>2, <1>4, <1>7 DEF IInv, Types, PC
  <2>2. Jobs' BY <1>2, <1>4, <1>7 DEF IInv, Jobs
  <2>3. Ordered' BY <1>2, <1>7 DEF IInv, Ordered, Covers
  <2>4. clears # 0 BY <1>6, <1>7 DEF IInv, RunsOnce, KeyOnce, NoState
  <2> QED BY <1>2, <1>3, <2>1, <2>2, <2>3, <2>4 DEF IInv, RunsOnce
<1> PICK taken : taken = [Callable |-> Coalesce[k].Callable, Promise |-> Coalesce[k].Promise]
  OBVIOUS
<1> PICK fresh : fresh = [Callable |-> 0, Promise |-> {}, bRunning |-> TRUE, bQueued |-> FALSE]
  OBVIOUS
<1>8. CASE /\ claim' = [claim EXCEPT ![w] = taken] /\ Coalesce' = [Coalesce EXCEPT ![k] = fresh]
           /\ pc' = [pc EXCEPT ![w] = "run"]
  <2>1. /\ taken \in [Callable : Submission \cup {0}, Promise : SUBSET Submission]
        /\ fresh \in CoalesceState
    BY <1>4 DEF CoalesceState
  <2>2. /\ claim'[w] = taken /\ Coalesce'[k] = fresh /\ pc'[w] = "run"
        /\ \A v \in Worker : v # w => claim'[v] = claim[v] /\ pc'[v] = pc[v]
        /\ \A j \in Key : j # k => Coalesce'[j] = Coalesce[j]
    BY <1>4, <1>8
  <2>3. Types'
    <3>1. /\ Coalesce' \in [Key -> CoalesceState] /\ pc' \in [Worker -> PC]
          /\ claim' \in [Worker -> [Callable : Submission \cup {0},
                                    Promise  : SUBSET Submission]]
      BY <1>4, <1>8, <2>1 DEF PC
    <3> QED BY <1>2, <3>1 DEF IInv, Types
  <2>4. Jobs' BY <1>1, <1>2, <2>2 DEF IInv, Jobs
  <2>5. Ordered'
    <3>1. \A j \in Key : Covers(Coalesce[j])' BY <1>2, <2>2 DEF IInv, Ordered, Covers
    <3>2. Covers(Coalesce[k]) BY DEF IInv, Ordered
    <3>3. Covers(claim[w])' BY <1>2, <2>2, <3>2 DEF Covers
    <3>4. \A v \in Worker : Covers(claim[v])'
      BY <1>2, <2>2, <3>3 DEF IInv, Ordered, Covers
    <3> QED BY <1>2, <3>1, <3>4 DEF IInv, Ordered
  <2>6. RunsOnce'
    <3> SUFFICES ASSUME clears = 0, NEW j \in Key PROVE KeyOnce(j)'
      BY <1>2 DEF RunsOnce
    <3>1. KeyOnce(j) BY DEF IInv, RunsOnce
    <3>2. CASE j # k
      <4>1. Entering(j)' = Entering(j) /\ Running(j)' = Running(j)
        <5>1. job'[w] # <<j>> /\ job[w] # <<j>> /\ job' = job BY <1>1, <1>2, <3>2
        <5> QED BY <2>2, <5>1 DEF Entering, Running
      <4> QED BY <1>5, <2>2, <3>1, <3>2, <4>1 DEF KeyOnce
    <3>3. CASE j = k
      <4>1. /\ Entering(k) = {w} /\ Queued(k) = {} /\ Running(k) = {}
        BY <1>6, <3>1, <3>3 DEF KeyOnce, AtMostOne
      <4>2. Entering(k)' = {} /\ Running(k)' = {w}
        BY <1>1, <1>2, <2>2, <4>1 DEF Entering, Running
      <4>3. fresh.bRunning = TRUE /\ fresh.bQueued = FALSE /\ fresh.Promise = {} OBVIOUS
      <4> QED BY <1>5, <2>2, <3>3, <4>1, <4>2, <4>3 DEF KeyOnce, AtMostOne
    <3> QED BY <3>2, <3>3
  <2> QED BY <1>3, <2>3, <2>4, <2>5, <2>6 DEF IInv
<1> QED BY <1>2, <1>7, <1>8 DEF Claim

LEMMA SettlePromiseKeeps ==
    ASSUME IInv, NEW w \in Worker, SettlePromise(w)
    PROVE  IInv'
<1>1. /\ pc[w] = "run" /\ outcome' = Settle(claim[w].Promise, "served")
      /\ claim' = [claim EXCEPT ![w] = NoClaim] /\ pc' = [pc EXCEPT ![w] = "settled"]
      /\ UNCHANGED <<sched, Coalesce, job, clears>>
  BY DEF SettlePromise
<1>2. PICK subs \in SUBSET Submission : subs = claim[w].Promise BY PromisesTyped DEF IInv
<1>3. PICK how \in {"pending", "served", "broken"} : how = "served" OBVIOUS
<1>4. /\ outcome' = Settle(subs, how)
      /\ \A q \in subs : outcome[q] # "new" \/ q \in NextSubmission
  BY <1>1, <1>2, <1>3 DEF IInv, Ordered, Covers
<1>5. /\ outcome' \in [Submission -> {"new", "pending", "served", "broken"}]
      /\ \A r, q \in Submission : r < q /\ outcome'[r] = "new" => outcome'[q] = "new"
      /\ \A c : c.Promise \subseteq Submission /\ Covers(c) =>
           \A q \in c.Promise : outcome'[q] # "new" /\ c.Callable >= q
  BY <1>4, SettleKeeps DEF IInv
<1>6. /\ pc \in [Worker -> PC]
      /\ claim \in [Worker -> [Callable : Submission \cup {0}, Promise : SUBSET Submission]]
  BY DEF IInv, Types
<1>7. /\ pc'[w] = "settled" /\ claim'[w] = NoClaim
      /\ \A v \in Worker : v # w => claim'[v] = claim[v] /\ pc'[v] = pc[v]
  BY <1>1, <1>6
<1>8. SchedOK' BY <1>1 DEF IInv, SchedOK
<1>9. Types'
  <2>1. /\ pc' \in [Worker -> PC]
        /\ claim' \in [Worker -> [Callable : Submission \cup {0}, Promise : SUBSET Submission]]
    BY <1>1, <1>6, NoStateType DEF PC
  <2> QED BY <1>1, <1>5, <2>1 DEF IInv, Types
<1>10. Jobs' BY <1>1, <1>7 DEF IInv, Jobs
<1>11. Ordered'
  <2>1. \A j \in Key : Covers(Coalesce[j])'
    BY <1>1, <1>5, PromisesTyped DEF IInv, Ordered, Covers
  <2>2. \A v \in Worker : v # w => Covers(claim[v])'
    BY <1>5, <1>7, PromisesTyped DEF IInv, Ordered, Covers
  <2>3. Covers(claim[w])' BY <1>7 DEF Covers, NoClaim
  <2> QED BY <1>5, <2>1, <2>2, <2>3 DEF Ordered
<1>12. RunsOnce'
  <2>1. \A j \in Key : Entering(j)' = Entering(j) /\ Running(j)' = Running(j)
    BY <1>1, <1>7 DEF Entering, Running
  <2> QED BY <1>1, <2>1, SameRuns DEF IInv
<1> QED BY <1>8, <1>9, <1>10, <1>11, <1>12 DEF IInv

\* The run that completes either forgets its key or queues the one rerun.
LEMMA CompleteKeeps ==
    ASSUME IInv, NEW w \in Worker, Complete(w)
    PROVE  IInv'
<1>1. /\ pc[w] = "settled" /\ pc' = [pc EXCEPT ![w] = "done"]
      /\ UNCHANGED <<job, claim, clears>>
  BY DEF Complete
<1>2. PICK k \in Key : job[w] = <<k>> BY <1>1 DEF IInv, Jobs
<1>3. PICK CS : CS = Coalesce[k] OBVIOUS
<1>4. /\ pc \in [Worker -> PC] /\ Coalesce \in [Key -> CoalesceState] /\ CS \in CoalesceState
  BY <1>3 DEF IInv, Types
<1>5. pc'[w] = "done" /\ \A v \in Worker : v # w => pc'[v] = pc[v] BY <1>1, <1>4
<1>6. pc' \in [Worker -> PC] BY <1>1, <1>4 DEF PC
<1>7. Jobs' BY <1>1, <1>5 DEF IInv, Jobs
<1>8. \A j \in Key : Entering(j)' = Entering(j) BY <1>1, <1>5 DEF Entering
<1>9. \A j \in Key : j # k => Running(j)' = Running(j)
  <2> SUFFICES ASSUME NEW j \in Key, j # k PROVE Running(j)' = Running(j) OBVIOUS
  <2>1. job[w] # <<j>> /\ job' = job BY <1>1, <1>2
  <2> QED BY <1>5, <2>1 DEF Running
<1>10. clears = 0 => /\ Queued(k) = {} /\ Entering(k) = {} /\ Running(k)' = {}
                     /\ KeyOnce(k)
  <2> SUFFICES ASSUME clears = 0
               PROVE  Queued(k) = {} /\ Entering(k) = {} /\ Running(k)' = {} /\ KeyOnce(k)
    OBVIOUS
  <2>1. KeyOnce(k) BY DEF IInv, RunsOnce
  <2>2. w \in Running(k) BY <1>1, <1>2 DEF Running
  <2>3. Running(k) = {w} BY <2>1, <2>2 DEF KeyOnce, AtMostOne
  <2>4. Running(k)' = {} BY <1>1, <1>5, <2>3 DEF Running
  <2> QED BY <2>1, <2>2, <2>4 DEF KeyOnce
<1>11. CASE /\ Coalesce' = [Coalesce EXCEPT ![k] = NoState] /\ UNCHANGED <<sched, outcome>>
  <2>1. /\ Coalesce'[k] = NoState
        /\ \A j \in Key : j # k => Coalesce'[j] = Coalesce[j]
    BY <1>4, <1>11
  <2>2. SchedOK' BY <1>11 DEF IInv, SchedOK
  <2>3. Types'
    <3>1. Coalesce' \in [Key -> CoalesceState] BY <1>4, <1>11, NoStateType
    <3> QED BY <1>1, <1>6, <1>11, <3>1 DEF IInv, Types
  <2>4. Ordered'
    <3>1. \A j \in Key : Covers(Coalesce[j])'
      BY <1>11, <2>1 DEF IInv, Ordered, Covers, NoState
    <3> QED BY <1>1, <1>11, <3>1 DEF IInv, Ordered, Covers
  <2>5. RunsOnce'
    <3> SUFFICES ASSUME clears = 0, NEW j \in Key PROVE KeyOnce(j)'
      BY <1>1 DEF RunsOnce
    <3>1. Queued(j)' = Queued(j) BY <1>11 DEF Queued
    <3>2. CASE j # k
      <4>1. KeyOnce(j) BY DEF IInv, RunsOnce
      <4> QED BY <1>8, <1>9, <2>1, <3>1, <3>2, <4>1 DEF KeyOnce
    <3>3. CASE j = k
      <4>1. Queued(k)' = {} /\ Entering(k)' = {} /\ Running(k)' = {}
        BY <1>8, <1>10, <3>1, <3>3
      <4> QED BY <2>1, <3>3, <4>1 DEF KeyOnce, AtMostOne, NoState
    <3> QED BY <3>2, <3>3
  <2> QED BY <1>7, <2>2, <2>3, <2>4, <2>5 DEF IInv
<1>12. CASE Schedule(k, CS)
  <2>1. PICK how \in {"pending", "broken"} : outcome' = Settle(CS.Promise, how)
    BY <1>12 DEF Schedule
  <2>2. \A q \in CS.Promise : outcome[q] # "new" \/ q \in NextSubmission
    BY <1>3 DEF IInv, Ordered, Covers
  <2>3. CS.Promise \in SUBSET Submission BY <1>4 DEF CoalesceState
  <2>4. /\ outcome' \in [Submission -> {"new", "pending", "served", "broken"}]
        /\ \A r, q \in Submission : r < q /\ outcome'[r] = "new" => outcome'[q] = "new"
        /\ \A c : c.Promise \subseteq Submission /\ Covers(c) =>
             \A q \in c.Promise : outcome'[q] # "new" /\ c.Callable >= q
    BY <2>1, <2>2, <2>3, SettleKeeps DEF IInv
  <2>5. Covers(CS)' BY <1>3, <2>3, <2>4 DEF IInv, Ordered, Covers
  <2>6. /\ SchedOK' /\ RunsOnce'
        /\ Coalesce' \in [Key -> CoalesceState]
        /\ \A j \in Key : Covers(Coalesce[j])' \/ Coalesce'[j] = Coalesce[j]
    BY <1>1, <1>4, <1>8, <1>9, <1>10, <1>12, <2>5, ScheduleKeeps
  <2>7. Types' BY <1>1, <1>6, <2>4, <2>6 DEF IInv, Types
  <2>8. \A j \in Key : Covers(Coalesce[j])'
    BY <2>4, <2>6, PromisesTyped DEF IInv, Ordered, Covers
  <2>9. \A v \in Worker : Covers(claim[v])'
    BY <1>1, <2>4, PromisesTyped DEF IInv, Ordered, Covers
  <2>10. Ordered' BY <2>4, <2>8, <2>9 DEF Ordered
  <2> QED BY <1>7, <2>6, <2>7, <2>10 DEF IInv
<1> QED BY <1>2, <1>3, <1>11, <1>12 DEF Complete

LEMMA TaskDoneKeeps ==
    ASSUME IInv, NEW w \in Worker, TaskDone(w)
    PROVE  IInv'
<1>1. /\ pc[w] \in {"task", "done"} /\ sched' = sched_task_done(sched, tag).sched
      /\ pc' = [pc EXCEPT ![w] = "idle"] /\ job' = [job EXCEPT ![w] = <<>>]
      /\ UNCHANGED <<Coalesce, claim, outcome, clears>>
  BY DEF TaskDone
<1>2. PICK r : r = sched_task_done(sched, tag) OBVIOUS
<1>3. sched \in Sched /\ tag \in Tag BY TheTag DEF IInv, SchedOK
<1>4. /\ r.sched \in Sched /\ r.sched.Config = sched.Config
      /\ r.sched.Queue = sched.Queue /\ r.sched.m_TagOrder = sched.m_TagOrder
  <2>1. r.sched \in Sched /\ r.sched.Config = sched.Config BY <1>2, <1>3, TaskDoneType
  <2>2. r.sched.Queue = sched.Queue /\ r.sched.m_TagOrder = sched.m_TagOrder
    BY <1>2, <1>3, TaskDoneQueue
  <2> QED BY <2>1, <2>2
<1>5. SchedOK' BY <1>1, <1>2, <1>4 DEF IInv, SchedOK
<1>6. pc \in [Worker -> PC] /\ job \in [Worker -> {<<>>} \cup {<<k>> : k \in Task}]
  BY DEF IInv, Types
<1>7. /\ pc'[w] = "idle"
      /\ \A v \in Worker : v # w => pc'[v] = pc[v] /\ job'[v] = job[v]
  BY <1>1, <1>6
<1>8. Types'
  <2>1. pc' \in [Worker -> PC] BY <1>1, <1>6 DEF PC
  <2>2. job' \in [Worker -> {<<>>} \cup {<<k>> : k \in Task}] BY <1>1, <1>6
  <2> QED BY <1>1, <2>1, <2>2 DEF IInv, Types
<1>9. Jobs' BY <1>7 DEF IInv, Jobs
<1>10. Ordered' BY <1>1 DEF IInv, Ordered, Covers
<1>11. RunsOnce'
  <2>1. \A j \in Key : Entering(j)' = Entering(j) /\ Running(j)' = Running(j)
    BY <1>1, <1>7 DEF Entering, Running
  <2>2. sched'.Queue[tag] = sched.Queue[tag] BY <1>1, <1>2, <1>4
  <2> QED BY <1>1, <2>1, <2>2, SameRuns DEF IInv
<1> QED BY <1>5, <1>8, <1>9, <1>10, <1>11 DEF IInv

\* clear() forgets every key and gives up the count of runs, not the order.
LEMMA ClearKeeps == ASSUME IInv, clear PROVE IInv'
<1>1. /\ clears < Clears /\ clears' = clears + 1 /\ sched' = Cleared(sched)
      /\ Coalesce' = [k \in Key |-> NoState]
      /\ outcome' = Settle(UNION {Coalesce[k].Promise : k \in Key}, "broken")
      /\ UNCHANGED <<pc, job, claim>>
  BY DEF clear
<1>2. SchedOK'
  <2>1. sched \in Sched BY DEF IInv, SchedOK
  <2>2. /\ Cleared(sched) \in Sched /\ Cleared(sched).Config = sched.Config
        /\ Cleared(sched).m_TagOrder = sched.m_TagOrder
    BY <2>1, ClearedType, ClearedQueue
  <2> QED BY <1>1, <2>2 DEF IInv, SchedOK
<1>3. PICK subs : subs = UNION {Coalesce[k].Promise : k \in Key} OBVIOUS
<1>4. subs \in SUBSET Submission BY <1>3, PromisesTyped DEF IInv
<1>5. \A q \in subs : outcome[q] # "new" \/ q \in NextSubmission
  BY <1>3 DEF IInv, Ordered, Covers
<1>6. PICK how \in {"pending", "served", "broken"} : how = "broken" OBVIOUS
<1>7. outcome' = Settle(subs, how) BY <1>1, <1>3, <1>6
<1>8. /\ outcome' \in [Submission -> {"new", "pending", "served", "broken"}]
      /\ \A r, q \in Submission : r < q /\ outcome'[r] = "new" => outcome'[q] = "new"
      /\ \A c : c.Promise \subseteq Submission /\ Covers(c) =>
           \A q \in c.Promise : outcome'[q] # "new" /\ c.Callable >= q
  BY <1>4, <1>5, <1>7, SettleKeeps DEF IInv
<1>9. clears' \in 0 .. Clears /\ clears' # 0
  BY <1>1, CoalesceAssumption DEF IInv, Types
<1>10. Types' BY <1>1, <1>8, <1>9, NoStateType DEF IInv, Types
<1>11. Jobs' BY <1>1 DEF IInv, Jobs
<1>12. Ordered'
  <2>1. \A j \in Key : Covers(Coalesce[j])' BY <1>1 DEF Covers, NoState
  <2>2. \A v \in Worker : Covers(claim[v])'
    BY <1>1, <1>8, PromisesTyped DEF IInv, Ordered, Covers
  <2> QED BY <1>8, <2>1, <2>2 DEF Ordered
<1>13. RunsOnce' BY <1>9 DEF RunsOnce
<1> QED BY <1>2, <1>10, <1>11, <1>12, <1>13 DEF IInv

LEMMA StutterKeeps == ASSUME IInv, UNCHANGED vars PROVE IInv'
<1> USE DEF vars
<1>1. SchedOK' /\ Types' /\ Jobs' BY DEF IInv, SchedOK, Types, Jobs
<1>2. Ordered' BY DEF IInv, Ordered, Covers
<1>3. RunsOnce'
  <2>1. \A j \in Key : Entering(j)' = Entering(j) /\ Running(j)' = Running(j)
    BY DEF Entering, Running
  <2> QED BY <2>1, SameRuns DEF IInv
<1> QED BY <1>1, <1>2, <1>3 DEF IInv

LEMMA InitInv == Init => IInv
<1> SUFFICES ASSUME Init PROVE IInv OBVIOUS
<1>1. SchedOK
  <2>1. <<tag>> \in Seq(Tag) /\ InitConfig \in [Tag -> TagConfig]
    BY TheTag, CoalesceAssumption
  <2>2. /\ sched \in Sched /\ sched.Config = InitConfig
    BY <2>1, EmptyType DEF Init
  <2>3. sched.m_TagOrder = <<tag>> BY DEF Init, EmptySched
  <2> QED BY <2>2, <2>3 DEF SchedOK
<1>2. Types BY NoStateType, CoalesceAssumption DEF Init, Types, PC
<1>3. Jobs BY DEF Init, Jobs
<1>4. Ordered BY DEF Init, Ordered, Covers, NoState, NoClaim
<1>5. RunsOnce
  <2> SUFFICES ASSUME NEW k \in Key PROVE KeyOnce(k) BY DEF RunsOnce
  <2>1. sched.Queue[tag] = <<>> BY TheTag DEF Init, EmptySched
  <2>2. Queued(k) = {} BY <2>1 DEF Queued
  <2>3. Entering(k) = {} /\ Running(k) = {} BY DEF Init, Entering, Running
  <2>4. Coalesce[k] = NoState BY DEF Init
  <2> QED BY <2>2, <2>3, <2>4 DEF KeyOnce, AtMostOne, NoState
<1> QED BY <1>1, <1>2, <1>3, <1>4, <1>5 DEF IInv

LEMMA NextInv == IInv /\ [Next]_vars => IInv'
<1> SUFFICES ASSUME IInv, [Next]_vars PROVE IInv' OBVIOUS
<1>1. CASE \E k \in Key, s \in Submission : push_coalesced_task(k, s)
  BY <1>1, PushCoalescedKeeps
<1>2. CASE \E p \in Plain : PushTagged(p) BY <1>2, PushTaggedKeeps
<1>3. ASSUME NEW w \in Worker, WorkerStep(w) PROVE IInv'
  <2>1. CASE Dequeue(w) BY <2>1, DequeueKeeps
  <2>2. CASE Claim(w) BY <2>2, ClaimKeeps
  <2>3. CASE SettlePromise(w) BY <2>3, SettlePromiseKeeps
  <2>4. CASE Complete(w) BY <2>4, CompleteKeeps
  <2>5. CASE TaskDone(w) BY <2>5, TaskDoneKeeps
  <2> QED BY <1>3, <2>1, <2>2, <2>3, <2>4, <2>5 DEF WorkerStep
<1>4. CASE clear BY <1>4, ClearKeeps
<1>5. CASE UNCHANGED vars BY <1>5, StutterKeeps
<1> QED BY <1>1, <1>2, <1>3, <1>4, <1>5 DEF Next

\* The invariant holds in every state of every behaviour.
THEOREM IInvHolds == Spec => []IInv
BY InitInv, NextInv, PTL DEF Spec

-----------------------------------------------------------------------------
\* What follows from it.

\* Type correctness: whatever submissions, runs, plain tasks and clear() do, every
\* variable keeps its type.
THEOREM TypeCorrect == Spec => []TypeOK
<1>1. IInv => TypeOK BY DEF IInv, SchedOK, Types, TypeOK
<1> QED BY <1>1, IInvHolds, PTL

\* "the latest callable wins": the run that will settle a submission's future executes a
\* callable submitted with it or after it, also when clear() and a trampoline that
\* outlived it mix generations.
THEOREM LatestCallableWins == Spec => []LatestWins
<1>1. IInv => LatestWins BY DEF IInv, Ordered, Covers, LatestWins
<1> QED BY <1>1, IInvHolds, PTL

\* A set of at most one element has the cardinality its emptiness says.
LEMMA AtMostOneCard ==
    ASSUME NEW S, AtMostOne(S)
    PROVE  Cardinality(S) = (IF S = {} THEN 0 ELSE 1)
<1>1. CASE S = {} BY <1>1, FS_EmptySet
<1>2. CASE S # {}
  <2>1. PICK x : S = {x} BY <1>2 DEF AtMostOne
  <2>2. Cardinality({x}) = 1
    <3>1. IsFiniteSet({}) /\ Cardinality({}) = 0 BY FS_EmptySet
    <3>2. Cardinality({} \cup {x}) = Cardinality({}) + 1 BY <3>1, FS_AddElement
    <3>3. {} \cup {x} = {x} OBVIOUS
    <3> QED BY <3>1, <3>2, <3>3
  <2> QED BY <1>2, <2>1, <2>2
<1> QED BY <1>1, <1>2

\* Until the first clear() a key has one run queued, entered or executing if its flags say
\* so, never a second one, and always one when submissions wait for it.
THEOREM KeysRunOnce == Spec => []OneRunPerKey
<1>1. IInv => OneRunPerKey
  <2> SUFFICES ASSUME IInv, clears = 0, NEW k \in Key
               PROVE  /\ Cardinality(Queued(k)) + Cardinality(Entering(k))
                           = (IF Coalesce[k].bQueued THEN 1 ELSE 0)
                      /\ Cardinality(Running(k)) = (IF Coalesce[k].bRunning THEN 1 ELSE 0)
                      /\ ~(Coalesce[k].bQueued /\ Coalesce[k].bRunning)
                      /\ Coalesce[k].Promise # {} => Scheduled(Coalesce[k])
    BY DEF OneRunPerKey
  <2>1. KeyOnce(k) BY DEF IInv, RunsOnce
  <2>2. /\ Cardinality(Queued(k)) = (IF Queued(k) = {} THEN 0 ELSE 1)
        /\ Cardinality(Entering(k)) = (IF Entering(k) = {} THEN 0 ELSE 1)
        /\ Cardinality(Running(k)) = (IF Running(k) = {} THEN 0 ELSE 1)
    BY <2>1, AtMostOneCard DEF KeyOnce
  <2> QED BY <2>1, <2>2 DEF KeyOnce
<1> QED BY <1>1, IInvHolds, PTL

=============================================================================
