------------------------- MODULE KThreadPool_proofs --------------------------
(***************************************************************************)
(* KThreadPool, for any threads, tasks, tags, policies and calls: the      *)
(* counters it relies on are exact, its thread table forgets no thread,    *)
(* and stop() returns only when no thread is left.                         *)
(*                                                                         *)
(* The counters are not inductive by themselves.  That a detached thread   *)
(* is counted once needs the slot table to be a bijection and its live     *)
(* threads to be neither aborted nor on their way out; that a returning    *)
(* stop() may zero the idle count needs its two joins to have left no      *)
(* thread, which the phase of stop() remembers.  IInv adds these facts.    *)
(*                                                                         *)
(* On top of IInv, each in a section of its own: no tag runs above its     *)
(* cap (CapsHold), no deficit leaves its quantum (QuantumHolds), wakeups   *)
(* suffice for the tasks that could start (WInv), every task is in one     *)
(* place (TasksPlaced) and so the pool implements KTaskPool, and stop()    *)
(* leaves a worker to look for the tasks it is to drain (Draining).        *)
(*                                                                         *)
(* Before that comes the scheduler: what its functions return, and the     *)
(* theorems about it driven alone (KThreadPoolDRR).  That a tag is passed  *)
(* over at most one quantum of each other tag is not inductive: what       *)
(* counts is what the tags ahead of it in the scan are still owed, and     *)
(* every step that passes it over serves one of those tasks (BypassHolds,  *)
(* with Owed).  Shares are compared by visits: the number of visits to the *)
(* tags grows by at most one along the scan, and only the tag at the       *)
(* cursor has begun a visit it has not ended (Rotation).                   *)
(***************************************************************************)
EXTENDS KThreadPool, KThreadPoolDRR, SequenceTheorems, FiniteSetTheorems, FunctionTheorems,
        WellFoundedInduction, TLAPS

\* The fields of a scheduler state, one by one.
LEMMA SchedFields ==
    ASSUME NEW S \in Sched
    PROVE  /\ S.Config \in [Tag -> TagConfig]
           /\ S.Queue \in [Tag -> Seq(Task)]
           /\ S.iDeficit \in [Tag -> Int]
           /\ S.iRunning \in [Tag -> Nat]
           /\ S.m_TagOrder \in Seq(Tag)
           /\ S.m_iTagCursor \in Nat
           /\ S.m_iTotalQueued \in Nat
           /\ S.m_bQueuePaused \in BOOLEAN
BY DEF Sched

\* sched_tag registers a tag and touches nothing else.
LEMMA TagType ==
    ASSUME NEW S \in Sched, NEW tag \in Tag
    PROVE  /\ sched_tag(S, tag) \in Sched
           /\ sched_tag(S, tag).Config = S.Config
           /\ sched_tag(S, tag).Queue = S.Queue
           /\ sched_tag(S, tag).iRunning = S.iRunning
           /\ sched_tag(S, tag).m_iTotalQueued = S.m_iTotalQueued
           /\ sched_tag(S, tag).m_bQueuePaused = S.m_bQueuePaused
<1>1. Append(S.m_TagOrder, tag) \in Seq(Tag)
  BY SchedFields, AppendProperties
<1>2. [S EXCEPT !.m_TagOrder = Append(@, tag)] \in Sched
  BY <1>1 DEF Sched
<1> QED BY <1>2 DEF sched_tag, Sched

\* sched_enqueue keeps the configurations and the counts of running tasks.
LEMMA EnqueueType ==
    ASSUME NEW S \in Sched, NEW tag \in Tag, NEW task \in Task,
           NEW r, r = sched_enqueue(S, tag, task)
    PROVE  /\ r.sched \in Sched
           /\ r.bAccepted \in BOOLEAN
           /\ r.sched.iRunning = S.iRunning
           /\ r.sched.Config = S.Config
<1> DEFINE R == sched_tag(S, tag)
           c == R.Config[tag]
           full == c.iMaxQueue # 0 /\ Len(R.Queue[tag]) >= c.iMaxQueue
<1>1. /\ R \in Sched /\ R.iRunning = S.iRunning /\ R.Config = S.Config
      /\ R.Queue[tag] \in Seq(Task)
      /\ c \in TagConfig
  <2>1. R \in Sched /\ R.iRunning = S.iRunning /\ R.Config = S.Config
    BY TagType
  <2> QED BY <2>1, SchedFields
<1> HIDE DEF R
<1>2. CASE full /\ c.OverflowPolicy = "Reject"
  <2>1. r = [sched |-> R, bAccepted |-> FALSE, dropped |-> <<>>]
    BY <1>2 DEF sched_enqueue, R
  <2> QED BY <2>1, <1>1
<1>3. CASE full /\ c.OverflowPolicy # "Reject"
  <2> DEFINE X == [R EXCEPT !.Queue[tag] = Append(Tail(@), task)]
  <2>1. r = [sched |-> X, bAccepted |-> TRUE, dropped |-> <<Head(R.Queue[tag])>>]
    BY <1>3 DEF sched_enqueue, R
  <2>2. R.Queue[tag] # <<>>
    BY <1>1, <1>3, EmptySeq DEF TagConfig
  <2>3. Append(Tail(R.Queue[tag]), task) \in Seq(Task)
    BY <1>1, <2>2, HeadTailProperties, AppendProperties
  <2>4. X \in Sched /\ X.iRunning = R.iRunning /\ X.Config = R.Config
    BY <2>3, <1>1 DEF Sched
  <2> HIDE DEF X
  <2> QED BY <2>1, <2>4, <1>1
<1>4. CASE ~full
  <2> DEFINE X == [R EXCEPT !.Queue[tag] = Append(@, task), !.m_iTotalQueued = @ + 1]
  <2>1. r = [sched |-> X, bAccepted |-> TRUE, dropped |-> <<>>]
    BY <1>4 DEF sched_enqueue, R
  <2>2. Append(R.Queue[tag], task) \in Seq(Task) /\ R.m_iTotalQueued + 1 \in Nat
    BY <1>1, AppendProperties, SchedFields
  <2>3. X \in Sched /\ X.iRunning = R.iRunning /\ X.Config = R.Config
    BY <2>2, <1>1 DEF Sched
  <2> HIDE DEF X
  <2> QED BY <2>1, <2>3, <1>1
<1> QED BY <1>2, <1>3, <1>4

\* Pop takes a task of the tag and counts it as running.
LEMMA PopType ==
    ASSUME NEW S \in Sched, NEW tag \in Tag, S.Queue[tag] # <<>>, S.m_iTotalQueued # 0,
           NEW r, r = Pop(S, tag)
    PROVE  /\ r.sched \in Sched /\ r.bFound /\ r.tag = tag /\ r.task \in Task
           /\ r.sched.iRunning = [S.iRunning EXCEPT ![tag] = @ + 1]
           /\ r.sched.Config = S.Config
           /\ r.sched.m_TagOrder = S.m_TagOrder
<1> DEFINE X == [S EXCEPT !.Queue[tag]      = Tail(@),
                          !.m_iTotalQueued  = @ - 1,
                          !.iRunning[tag]   = @ + 1]
<1>1. S.Queue[tag] \in Seq(Task) /\ S.iRunning[tag] + 1 \in Nat /\ S.m_iTotalQueued - 1 \in Nat
  BY SchedFields
<1>2. Head(S.Queue[tag]) \in Task /\ Tail(S.Queue[tag]) \in Seq(Task)
  BY <1>1, HeadTailProperties
<1>3. X \in Sched
  BY <1>1, <1>2 DEF Sched
<1>4. /\ X.iRunning = [S.iRunning EXCEPT ![tag] = @ + 1] /\ X.Config = S.Config
      /\ X.m_TagOrder = S.m_TagOrder /\ X.m_iTagCursor = S.m_iTagCursor
      /\ X.iDeficit = S.iDeficit
  BY DEF Sched
<1>5. r = [bFound |-> TRUE, tag |-> tag, task |-> Head(S.Queue[tag]), sched |-> X]
  BY DEF Pop
<1> HIDE DEF X
<1> QED BY <1>2, <1>3, <1>4, <1>5

\* A set of naturals that is not empty has a least element.
LEMMA LeastElement ==
    ASSUME NEW H \in SUBSET Nat, H # {}
    PROVE  \E i \in H : \A j \in H : i <= j
<1> DEFINE less == {ss \in Nat \X Nat : ss[1] < ss[2]}
<1>1. IsWellFoundedOn(less, Nat)
  BY NatLessThanWellFounded DEF OpToRel
<1>2. \E x \in H : \A y \in H : ~(<<y, x>> \in less)
  <2> HIDE DEF less
  <2> QED BY <1>1, WFMin
<1>3. PICK x \in H : \A y \in H : ~(<<y, x>> \in less)
  BY <1>2
<1>4. ASSUME NEW y \in H PROVE x <= y
  <2>1. x \in Nat /\ y \in Nat
    OBVIOUS
  <2>2. ~(<<y, x>> \in less)
    BY <1>3
  <2>3. <<y, x>> \in Nat \X Nat
    BY <2>1
  <2>4. ~(y < x)
    BY <2>2, <2>3, ZenonT(20)
  <2> QED BY <2>1, <2>4
<1> QED BY <1>4

\* The scan looks at registered tags only.
LEMMA TagAtType ==
    ASSUME NEW S \in Sched, NEW i \in Nat, Len(S.m_TagOrder) # 0
    PROVE  TagAt(S, i) \in Tag
<1>1. S.m_TagOrder \in Seq(Tag) /\ S.m_iTagCursor \in Nat
  BY SchedFields
<1>2. Len(S.m_TagOrder) \in Nat \ {0}
  BY <1>1, LenProperties
<1>3. \A a \in Nat, n \in Nat \ {0} : (a % n) + 1 \in 1 .. n
  OBVIOUS
<1>4. S.m_iTagCursor + i \in Nat
  BY <1>1
<1>5. ((S.m_iTagCursor + i) % Len(S.m_TagOrder)) + 1 \in 1 .. Len(S.m_TagOrder)
  BY <1>2, <1>3, <1>4
<1> QED BY <1>1, <1>5, ElementOfSeq DEF TagAt

\* What a dequeue may do: start one task of a tag below its cap and count it, or
\* leave the counts as they are.
DequeueOK(S, r) ==
    /\ r.sched \in Sched
    /\ r.sched.Config = S.Config
    /\ r.bFound \in BOOLEAN
    /\ r.bFound  => /\ r.tag \in Tag /\ r.task \in Task
                    /\ BelowCap(S, r.tag)
                    /\ r.sched.iRunning = [S.iRunning EXCEPT ![r.tag] = @ + 1]
    /\ ~r.bFound => r.sched.iRunning = S.iRunning

\* The scan finds the first serviceable tag, or none.
LEMMA RoundRobinType ==
    ASSUME NEW S \in Sched, S.m_iTotalQueued # 0
    PROVE  DequeueOK(S, DeficitRoundRobin(S))
<1> DEFINE n       == Len(S.m_TagOrder)
           hits    == {i \in 0 .. n - 1 : Serviceable(S, TagAt(S, i))}
           first   == CHOOSE i \in hits : \A j \in hits : i <= j
           tag     == TagAt(S, first)
           passed  == {TagAt(S, i) : i \in 0 .. first - 1}
           charged == Charged(S, tag)
           popped  == Pop(S, tag)
           stays   == charged - 1 >= 1 /\ Serviceable(popped.sched, tag)
           none    == [S EXCEPT !.iDeficit =
                        [t \in Tag |-> IF t \in Registered(S) THEN 0 ELSE @[t]]]
           served  == [popped.sched EXCEPT
                        !.iDeficit = [t \in Tag |-> CASE t \in passed -> 0
                                                      [] t = tag -> charged - 1
                                                      [] OTHER -> @[t]],
                        !.m_iTagCursor = (@ + first + (IF stays THEN 0 ELSE 1)) % n]
<1>0. n \in Nat
  BY SchedFields, LenProperties
<1>1. CASE hits = {}
  <2>1. DeficitRoundRobin(S) = [bFound |-> FALSE, sched |-> none]
    BY <1>1 DEF DeficitRoundRobin, Nothing
  <2>2. [t \in Tag |-> IF t \in Registered(S) THEN 0 ELSE S.iDeficit[t]] \in [Tag -> Int]
    BY SchedFields
  <2>3. none \in Sched /\ none.Config = S.Config /\ none.iRunning = S.iRunning
    BY <2>2 DEF Sched
  <2> HIDE DEF none
  <2> QED BY <2>1, <2>3 DEF DequeueOK
<1>2. CASE hits # {}
  <2>1. first \in 0 .. n - 1 /\ Serviceable(S, tag)
    <3>1. hits \in SUBSET Nat
      BY <1>0
    <3>2. \E i \in hits : \A j \in hits : i <= j
      <4> HIDE DEF hits
      <4> QED BY <1>2, <3>1, LeastElement
    <3>3. first \in hits
      <4> HIDE DEF hits
      <4> QED BY <3>2
    <3> HIDE DEF first
    <3> QED BY <3>3
  <2>2. n \in Nat \ {0} /\ first \in Nat
    <3> HIDE DEF n, first
    <3> QED BY <1>0, <2>1
  <2>3. tag \in Tag
    <3> HIDE DEF first
    <3> QED BY <2>2, TagAtType
  <2>4. DeficitRoundRobin(S) = [popped EXCEPT !.sched = served]
    BY <1>2 DEF DeficitRoundRobin
  <2> HIDE DEF tag, first
  <2>5. /\ popped.sched \in Sched /\ popped.bFound = TRUE /\ popped.tag = tag
        /\ popped.task \in Task
        /\ popped.sched.iRunning = [S.iRunning EXCEPT ![tag] = @ + 1]
        /\ popped.sched.Config = S.Config
    <3> S.Queue[tag] # <<>>
      BY <2>1 DEF Serviceable
    <3> popped.bFound = TRUE
      BY DEF Pop
    <3> QED BY <2>3, PopType
  <2>6. popped = [bFound |-> TRUE, tag |-> tag, task |-> popped.task, sched |-> popped.sched]
    BY DEF Pop
  <2>7. charged - 1 \in Int
    <3>1. S.iDeficit[tag] \in Int /\ S.Config[tag] \in TagConfig
      BY <2>3, SchedFields
    <3> QED BY <3>1 DEF Charged, TagConfig
  <2> HIDE DEF popped, charged, stays, passed, n
  <2>8. [t \in Tag |-> CASE t \in passed -> 0
                          [] t = tag -> charged - 1
                          [] OTHER -> popped.sched.iDeficit[t]] \in [Tag -> Int]
    <3>1. popped.sched.iDeficit \in [Tag -> Int]
      BY <2>5, SchedFields
    <3> QED BY <2>7, <3>1
  <2>9. (popped.sched.m_iTagCursor + first + (IF stays THEN 0 ELSE 1)) % n \in Nat
    <3>1. \A a \in Nat, b \in Nat \ {0} : a % b \in Nat
      OBVIOUS
    <3>2. popped.sched.m_iTagCursor + first + (IF stays THEN 0 ELSE 1) \in Nat
      BY <2>2, <2>5, SchedFields
    <3> QED BY <2>2, <3>1, <3>2
  <2>10. /\ served \in Sched /\ served.Config = popped.sched.Config
         /\ served.iRunning = popped.sched.iRunning
    <3> DEFINE P == popped.sched
               d == [t \in Tag |-> CASE t \in passed -> 0
                                     [] t = tag -> charged - 1
                                     [] OTHER -> P.iDeficit[t]]
               c == (P.m_iTagCursor + first + (IF stays THEN 0 ELSE 1)) % n
    <3>1. P \in Sched /\ d \in [Tag -> Int] /\ c \in Nat
      BY <2>5, <2>8, <2>9
    <3>2. served = [P EXCEPT !.iDeficit = d, !.m_iTagCursor = c]
      OBVIOUS
    <3> HIDE DEF P, d, c, served
    <3>3. /\ [P EXCEPT !.iDeficit = d, !.m_iTagCursor = c] \in Sched
          /\ [P EXCEPT !.iDeficit = d, !.m_iTagCursor = c].Config = P.Config
          /\ [P EXCEPT !.iDeficit = d, !.m_iTagCursor = c].iRunning = P.iRunning
      BY <3>1 DEF Sched
    <3>4. served \in Sched /\ served.Config = P.Config /\ served.iRunning = P.iRunning
      BY <3>2, <3>3
    <3> QED BY <3>4 DEF P
  <2> HIDE DEF served
  <2>11. /\ DeficitRoundRobin(S).bFound = TRUE /\ DeficitRoundRobin(S).tag = tag
         /\ DeficitRoundRobin(S).task = popped.task
         /\ DeficitRoundRobin(S).sched = served
    BY <2>4, <2>6
  <2> QED BY <2>1, <2>3, <2>5, <2>10, <2>11 DEF DequeueOK, Serviceable
<1> QED BY <1>1, <1>2

\* sched_dequeue starts at most one task, and none above a cap.
LEMMA DequeueType ==
    ASSUME NEW S \in Sched
    PROVE  DequeueOK(S, sched_dequeue(S))
<1>1. DequeueOK(S, Nothing(S))
  BY SchedFields DEF DequeueOK, Nothing
<1>2. CASE S.m_bQueuePaused \/ S.m_iTotalQueued = 0
  BY <1>1, <1>2 DEF sched_dequeue
<1>3. CASE ~(S.m_bQueuePaused \/ S.m_iTotalQueued = 0)
  <2>1. CASE Len(S.m_TagOrder) = 1
    <3>1. S.m_TagOrder[1] \in Tag
      BY <2>1, SchedFields, ElementOfSeq
    <3>2. CASE Serviceable(S, S.m_TagOrder[1])
      <4> DEFINE tag == S.m_TagOrder[1]
                 r   == Pop(S, tag)
      <4>1. sched_dequeue(S) = r
        BY <1>3, <2>1, <3>2 DEF sched_dequeue
      <4>2. r.bFound = TRUE
        BY DEF Pop
      <4> HIDE DEF tag
      <4>3. S.Queue[tag] # <<>> /\ BelowCap(S, tag)
        BY <3>2 DEF Serviceable, tag
      <4>4. tag \in Tag
        BY <3>1 DEF tag
      <4>5. /\ r.sched \in Sched /\ r.tag = tag /\ r.task \in Task
            /\ r.sched.iRunning = [S.iRunning EXCEPT ![tag] = @ + 1]
            /\ r.sched.Config = S.Config
        BY <1>3, <4>3, <4>4, PopType
      <4> HIDE DEF r
      <4> QED BY <4>1, <4>2, <4>3, <4>4, <4>5 DEF DequeueOK
    <3>3. CASE ~Serviceable(S, S.m_TagOrder[1])
      BY <1>1, <1>3, <2>1, <3>3 DEF sched_dequeue
    <3> QED BY <3>2, <3>3
  <2>2. CASE Len(S.m_TagOrder) # 1
    BY <1>3, <2>2, RoundRobinType DEF sched_dequeue
  <2> QED BY <2>1, <2>2
<1> QED BY <1>2, <1>3

\* sched_task_done releases the slot of a running task.
LEMMA TaskDoneType ==
    ASSUME NEW S \in Sched, NEW tag \in Tag,
           NEW r, r = sched_task_done(S, tag)
    PROVE  /\ r.sched \in Sched
           /\ r.bWake \in BOOLEAN
           /\ r.sched.Config = S.Config
           /\ S.iRunning[tag] > 0 =>
                r.sched.iRunning = [S.iRunning EXCEPT ![tag] = @ - 1]
<1> DEFINE R == [S EXCEPT !.iRunning[tag] = IF @ > 0 THEN @ - 1 ELSE @]
<1>1. S.iRunning \in [Tag -> Nat] /\ S.iRunning[tag] \in Nat
  BY SchedFields
<1>2. (IF S.iRunning[tag] > 0 THEN S.iRunning[tag] - 1 ELSE S.iRunning[tag]) \in Nat
  BY <1>1
<1>3. /\ R \in Sched /\ R.Config = S.Config
      /\ S.iRunning[tag] > 0 => R.iRunning = [S.iRunning EXCEPT ![tag] = @ - 1]
  BY <1>2 DEF Sched
<1>4. r.sched = R /\ r.bWake \in BOOLEAN
  <2> HIDE DEF R
  <2> DEFINE wake == /\ R.Config[tag].iMaxConcurrency # 0
                     /\ ~R.m_bQueuePaused
                     /\ Serviceable(R, tag)
  <2>1. r = [sched |-> R, bWake |-> wake]
    BY DEF sched_task_done, R
  <2>2. wake \in BOOLEAN
    OBVIOUS
  <2> HIDE DEF wake
  <2> QED BY <2>1, <2>2
<1> HIDE DEF R
<1> QED BY <1>3, <1>4

\* ConfigureTag and clear() keep the counts of running tasks.
LEMMA ConfigureTagType ==
    ASSUME NEW S \in Sched, NEW tag \in Tag, NEW config \in TagConfig
    PROVE  /\ ConfigureTagTo(S, tag, config) \in Sched
           /\ ConfigureTagTo(S, tag, config).iRunning = S.iRunning
           /\ ConfigureTagTo(S, tag, config).Config = [S.Config EXCEPT ![tag] = config]
<1> DEFINE R == sched_tag(S, tag)
<1>1. R \in Sched /\ R.iRunning = S.iRunning /\ R.Config = S.Config
  BY TagType
<1>2. ConfigureTagTo(S, tag, config) = [R EXCEPT !.Config[tag] = config]
  BY DEF ConfigureTagTo, TagConfig
<1> HIDE DEF R
<1>3. [R EXCEPT !.Config[tag] = config] \in Sched
  BY <1>1 DEF Sched
<1>4. /\ [R EXCEPT !.Config[tag] = config].iRunning = R.iRunning
      /\ [R EXCEPT !.Config[tag] = config].Config = [R.Config EXCEPT ![tag] = config]
  BY <1>1 DEF Sched
<1> QED BY <1>1, <1>2, <1>3, <1>4

LEMMA ClearedType ==
    ASSUME NEW S \in Sched
    PROVE  /\ Cleared(S) \in Sched
           /\ Cleared(S).iRunning = S.iRunning
           /\ Cleared(S).Config = S.Config
<1> DEFINE q == [t \in Tag |-> <<>>]
           d == [t \in Tag |-> 0]
           R == [S EXCEPT !.Queue = q, !.iDeficit = d, !.m_iTotalQueued = 0]
<1>1. q \in [Tag -> Seq(Task)] /\ d \in [Tag -> Int]
  BY EmptySeq
<1>2. Cleared(S) = R
  BY DEF Cleared
<1> HIDE DEF q, d
<1>3. R \in Sched /\ R.iRunning = S.iRunning /\ R.Config = S.Config
  BY <1>1 DEF Sched
<1> QED BY <1>2, <1>3

LEMMA EmptyType ==
    ASSUME NEW config \in [Tag -> TagConfig], NEW order \in Seq(Tag)
    PROVE  /\ EmptySched(config, order) \in Sched
           /\ EmptySched(config, order).iRunning = [t \in Tag |-> 0]
           /\ EmptySched(config, order).Config = config
           /\ EmptySched(config, order).m_iTotalQueued = 0
BY EmptySeq DEF EmptySched, Sched

-----------------------------------------------------------------------------
\* What the functions do to the queues.

\* An accepted task is the last of its tag; when the policy is DropOldest and the tag is
\* full, the first one leaves.  A rejected task changes no queue.
LEMMA EnqueueQueue ==
    ASSUME NEW S \in Sched, NEW tag \in Tag, NEW task \in Task
    PROVE  LET r == sched_enqueue(S, tag, task) IN
           /\ r.sched.m_TagOrder = sched_tag(S, tag).m_TagOrder
           /\ r.sched.m_bQueuePaused = S.m_bQueuePaused
           /\ ~r.bAccepted => /\ r.dropped = <<>> /\ r.sched.Queue = S.Queue
                              /\ r.sched.m_iTotalQueued = S.m_iTotalQueued
           /\ r.bAccepted /\ r.dropped = <<>> =>
                /\ r.sched.Queue = [S.Queue EXCEPT ![tag] = Append(@, task)]
                /\ r.sched.m_iTotalQueued = S.m_iTotalQueued + 1
           /\ r.bAccepted /\ r.dropped # <<>> =>
                /\ r.sched.m_iTotalQueued = S.m_iTotalQueued
                /\ S.Queue[tag] # <<>> /\ r.dropped = <<Head(S.Queue[tag])>>
                /\ S.Config[tag].OverflowPolicy = "DropOldest"
                /\ r.sched.Queue = [S.Queue EXCEPT ![tag] = Append(Tail(@), task)]
<1> PICK r : r = sched_enqueue(S, tag, task) OBVIOUS
<1> DEFINE R == sched_tag(S, tag)
           c == R.Config[tag]
           full == c.iMaxQueue # 0 /\ Len(R.Queue[tag]) >= c.iMaxQueue
<1>1. /\ R \in Sched /\ R.Config = S.Config /\ R.Queue = S.Queue
      /\ R.m_bQueuePaused = S.m_bQueuePaused /\ R.m_iTotalQueued = S.m_iTotalQueued
      /\ R.Queue[tag] \in Seq(Task)
      /\ c \in TagConfig
  <2>1. R \in Sched /\ R.Config = S.Config /\ R.Queue = S.Queue
        /\ R.m_bQueuePaused = S.m_bQueuePaused /\ R.m_iTotalQueued = S.m_iTotalQueued
    BY TagType
  <2> QED BY <2>1, SchedFields
<1>2. PICK order : order = R.m_TagOrder OBVIOUS
<1> HIDE DEF R
<1>3. CASE full /\ c.OverflowPolicy = "Reject"
  <2>1. r = [sched |-> R, bAccepted |-> FALSE, dropped |-> <<>>]
    BY <1>3 DEF sched_enqueue, R
  <2> QED BY <2>1, <1>1 DEF R
<1>4. CASE full /\ c.OverflowPolicy # "Reject"
  <2> DEFINE X == [R EXCEPT !.Queue[tag] = Append(Tail(@), task)]
  <2>1. r = [sched |-> X, bAccepted |-> TRUE, dropped |-> <<Head(R.Queue[tag])>>]
    BY <1>4 DEF sched_enqueue, R
  <2>2. R.Queue[tag] # <<>>
    BY <1>1, <1>4, EmptySeq DEF TagConfig
  <2>3. X.Queue = [R.Queue EXCEPT ![tag] = Append(Tail(@), task)]
        /\ X.m_TagOrder = R.m_TagOrder /\ X.m_bQueuePaused = R.m_bQueuePaused
        /\ X.m_iTotalQueued = R.m_iTotalQueued
    BY <1>1 DEF Sched
  <2>4. c.OverflowPolicy = "DropOldest" BY <1>1, <1>4 DEF TagConfig
  <2>5. <<Head(R.Queue[tag])>> # <<>> OBVIOUS
  <2> HIDE DEF X
  <2>6. /\ r.sched = X /\ r.bAccepted /\ r.dropped = <<Head(R.Queue[tag])>>
    BY <2>1
  <2> QED BY <2>2, <2>3, <2>4, <2>5, <2>6, <1>1 DEF R
<1>5. CASE ~full
  <2> DEFINE X == [R EXCEPT !.Queue[tag] = Append(@, task), !.m_iTotalQueued = @ + 1]
  <2>1. r = [sched |-> X, bAccepted |-> TRUE, dropped |-> <<>>]
    BY <1>5 DEF sched_enqueue, R
  <2>2. X.Queue = [R.Queue EXCEPT ![tag] = Append(@, task)]
        /\ X.m_TagOrder = R.m_TagOrder /\ X.m_bQueuePaused = R.m_bQueuePaused
        /\ X.m_iTotalQueued = R.m_iTotalQueued + 1
    BY <1>1 DEF Sched
  <2> HIDE DEF X
  <2>3. r.sched = X /\ r.bAccepted /\ r.dropped = <<>> BY <2>1
  <2> QED BY <2>2, <2>3, <1>1 DEF R
<1> QED BY <1>3, <1>4, <1>5

\* A popped task was the first of its tag.
LEMMA PopQueue ==
    ASSUME NEW S \in Sched, NEW tag \in Tag
    PROVE  LET r == Pop(S, tag) IN
           /\ r.task = Head(S.Queue[tag])
           /\ r.sched.Queue = [S.Queue EXCEPT ![tag] = Tail(@)]
           /\ r.sched.m_bQueuePaused = S.m_bQueuePaused
           /\ r.sched.m_TagOrder = S.m_TagOrder
           /\ r.sched.m_iTotalQueued = S.m_iTotalQueued - 1
<1> PICK r : r = Pop(S, tag) OBVIOUS
<1> DEFINE X == [S EXCEPT !.Queue[tag]      = Tail(@),
                          !.m_iTotalQueued  = @ - 1,
                          !.iRunning[tag]   = @ + 1]
<1>1. X.Queue = [S.Queue EXCEPT ![tag] = Tail(@)] /\ X.m_bQueuePaused = S.m_bQueuePaused
      /\ X.m_TagOrder = S.m_TagOrder /\ X.m_iTotalQueued = S.m_iTotalQueued - 1
  BY DEF Sched
<1>2. r = [bFound |-> TRUE, tag |-> tag, task |-> Head(S.Queue[tag]), sched |-> X]
  BY DEF Pop
<1> HIDE DEF X
<1> QED BY <1>1, <1>2

\* With one tag in use the scheduler is a plain FIFO.
LEMMA FIFODequeue ==
    ASSUME NEW S \in Sched, NEW tag \in Tag, S.m_TagOrder = <<tag>>,
           NEW r, r = sched_dequeue(S), r.bFound
    PROVE  /\ S.Queue[tag] # <<>> /\ r.task = Head(S.Queue[tag])
           /\ r.sched \in Sched /\ r.sched.m_TagOrder = S.m_TagOrder
           /\ r.sched.Config = S.Config
           /\ r.sched.Queue = [S.Queue EXCEPT ![tag] = Tail(@)]
<1>1. Len(S.m_TagOrder) = 1 /\ S.m_TagOrder[1] = tag OBVIOUS
<1>2. ~Nothing(S).bFound BY DEF Nothing
<1>3. r = Pop(S, tag) /\ Serviceable(S, tag) /\ S.m_iTotalQueued # 0
  BY <1>1, <1>2 DEF sched_dequeue
<1>4. S.Queue[tag] # <<>> BY <1>3 DEF Serviceable
<1>5. /\ r.sched \in Sched /\ r.sched.Config = S.Config
      /\ r.sched.m_TagOrder = S.m_TagOrder
  <2>1. S \in Sched /\ tag \in Tag /\ S.Queue[tag] # <<>> /\ S.m_iTotalQueued # 0
        /\ r = Pop(S, tag)
    BY <1>3, <1>4
  <2>2. /\ Pop(S, tag).sched \in Sched /\ Pop(S, tag).sched.Config = S.Config
        /\ Pop(S, tag).sched.m_TagOrder = S.m_TagOrder
        /\ Pop(S, tag).sched.iRunning = [S.iRunning EXCEPT ![tag] = @ + 1]
    BY <2>1, PopType
  <2> QED BY <2>1, <2>2
<1>6. /\ r.task = Head(S.Queue[tag])
      /\ r.sched.Queue = [S.Queue EXCEPT ![tag] = Tail(@)]
  BY <1>3, PopQueue
<1> QED BY <1>4, <1>5, <1>6

LEMMA ClearedQueue ==
    ASSUME NEW S \in Sched
    PROVE  /\ Cleared(S).Queue = [t \in Tag |-> <<>>]
           /\ Cleared(S).m_TagOrder = S.m_TagOrder
           /\ Cleared(S).m_bQueuePaused = S.m_bQueuePaused
           /\ Cleared(S).m_iTotalQueued = 0
BY DEF Cleared, Sched

LEMMA TaskDoneQueue ==
    ASSUME NEW S \in Sched, NEW tag \in Tag
    PROVE  LET r == sched_task_done(S, tag) IN
           /\ r.sched.Queue = S.Queue /\ r.sched.m_TagOrder = S.m_TagOrder
           /\ r.sched.m_bQueuePaused = S.m_bQueuePaused
           /\ r.sched.m_iTotalQueued = S.m_iTotalQueued
           /\ r.sched.iRunning = [S.iRunning EXCEPT ![tag] = IF @ > 0 THEN @ - 1 ELSE @]
           /\ r.bWake <=> /\ r.sched.Config[tag].iMaxConcurrency # 0
                          /\ ~S.m_bQueuePaused /\ Serviceable(r.sched, tag)
<1> PICK r : r = sched_task_done(S, tag) OBVIOUS
<1> DEFINE R == [S EXCEPT !.iRunning[tag] = IF @ > 0 THEN @ - 1 ELSE @]
<1>1. R.Queue = S.Queue /\ R.m_TagOrder = S.m_TagOrder
      /\ R.m_bQueuePaused = S.m_bQueuePaused /\ R.m_iTotalQueued = S.m_iTotalQueued
      /\ R.iRunning = [S.iRunning EXCEPT ![tag] = IF @ > 0 THEN @ - 1 ELSE @]
  BY DEF Sched
<1>2. r.sched = R /\ (r.bWake <=> /\ R.Config[tag].iMaxConcurrency # 0
                                 /\ ~R.m_bQueuePaused /\ Serviceable(R, tag))
  BY DEF sched_task_done
<1> HIDE DEF R
<1> QED BY <1>1, <1>2

-----------------------------------------------------------------------------
\* Where a task is in a queue

Positions(q, k) == {i \in 1 .. Len(q) : q[i] = k}

LEMMA AppendPositions ==
    ASSUME NEW A, NEW q \in Seq(A), NEW x \in A, NEW k
    PROVE  /\ Append(q, x) \in Seq(A)
           /\ k # x => Positions(Append(q, x), k) = Positions(q, k)
           /\ Positions(Append(q, x), x) = Positions(q, x) \cup {Len(q) + 1}
<1>1. PICK n \in Nat : n = Len(q) OBVIOUS
<1>2. /\ Append(q, x) \in Seq(A) /\ Len(Append(q, x)) = n + 1 /\ Append(q, x)[n + 1] = x
      /\ \A i \in 1 .. n : Append(q, x)[i] = q[i]
  BY <1>1
<1>3. PICK more : more = Append(q, x) OBVIOUS
<1>4. Len(more) = n + 1 /\ more[n + 1] = x /\ \A i \in 1 .. n : more[i] = q[i]
  BY <1>2, <1>3
<1>5. 1 .. n + 1 = (1 .. n) \cup {n + 1} OBVIOUS
<1>6. k # x => Positions(more, k) = Positions(q, k)
  BY <1>1, <1>4, <1>5 DEF Positions
<1>7. Positions(more, x) = Positions(q, x) \cup {n + 1}
  BY <1>1, <1>4, <1>5 DEF Positions
<1> QED BY <1>1, <1>2, <1>3, <1>6, <1>7

LEMMA TailPositions ==
    ASSUME NEW A, NEW q \in Seq(A), q # <<>>, NEW k
    PROVE  /\ Tail(q) \in Seq(A) /\ Head(q) \in A /\ 1 \in Positions(q, Head(q))
           /\ Positions(q, k) \subseteq Nat
           /\ \A i \in Nat : i \in Positions(Tail(q), k) <=> i # 0 /\ i + 1 \in Positions(q, k)
<1>1. PICK n \in Nat \ {0} : n = Len(q) OBVIOUS
<1>2. /\ Tail(q) \in Seq(A) /\ Len(Tail(q)) = n - 1 /\ Head(q) = q[1] /\ q[1] \in A
      /\ \A i \in 1 .. n - 1 : Tail(q)[i] = q[i + 1]
  BY <1>1
<1>3. PICK rest : rest = Tail(q) OBVIOUS
<1>4. Len(rest) = n - 1 /\ \A i \in 1 .. n - 1 : rest[i] = q[i + 1] BY <1>2, <1>3
<1>5. \A i \in Nat : i \in 1 .. n - 1 <=> i # 0 /\ i + 1 \in 1 .. n OBVIOUS
<1>6. \A i \in Nat : i \in Positions(rest, k) <=> i # 0 /\ i + 1 \in Positions(q, k)
  BY <1>1, <1>4, <1>5 DEF Positions
<1> QED BY <1>1, <1>2, <1>3, <1>6 DEF Positions


-----------------------------------------------------------------------------
\* What is queued, counted: the places of the queues that hold a task, and m_iTotalQueued

Backlog(S) == {p \in Tag \X (Nat \ {0}) : p[2] <= Len(S.Queue[p[1]])}

\* The total is exact, and the scan looks at every tag that has a task.
WellKept(S) == /\ IsFiniteSet(Backlog(S)) /\ S.m_iTotalQueued = Cardinality(Backlog(S))
               /\ \A t \in Tag : S.Queue[t] # <<>> => t \in Registered(S)

\* The places whose tasks could start before one has ended.
Startable(S) == {p \in Backlog(S) :
    LET cap == S.Config[p[1]].iMaxConcurrency
    IN  cap = 0 \/ p[2] + S.iRunning[p[1]] <= cap}

LEMMA BacklogPlaces ==
    ASSUME NEW S, NEW p
    PROVE  p \in Backlog(S) <=> \E t \in Tag, i \in Nat \ {0} :
                                    p = <<t, i>> /\ i <= Len(S.Queue[t])
BY DEF Backlog

LEMMA QueueLengths ==
    ASSUME NEW S \in Sched
    PROVE  \A t \in Tag : /\ S.Queue[t] \in Seq(Task) /\ Len(S.Queue[t]) \in Nat
                          /\ S.Queue[t] # <<>> <=> Len(S.Queue[t]) # 0
<1> SUFFICES ASSUME NEW t \in Tag
             PROVE  /\ S.Queue[t] \in Seq(Task) /\ Len(S.Queue[t]) \in Nat
                    /\ S.Queue[t] # <<>> <=> Len(S.Queue[t]) # 0
  OBVIOUS
<1>1. S.Queue[t] \in Seq(Task) BY SchedFields
<1> QED BY <1>1, EmptySeq

\* The backlog depends on the lengths of the queues only.
LEMMA SameBacklog ==
    ASSUME NEW S, NEW R, \A t \in Tag : Len(R.Queue[t]) = Len(S.Queue[t])
    PROVE  Backlog(R) = Backlog(S)
BY DEF Backlog

LEMMA LongerBacklog ==
    ASSUME NEW S \in Sched, NEW R \in Sched, NEW tag \in Tag,
           Len(R.Queue[tag]) = Len(S.Queue[tag]) + 1,
           \A t \in Tag : t # tag => R.Queue[t] = S.Queue[t]
    PROVE  /\ Backlog(R) = Backlog(S) \cup {<<tag, Len(S.Queue[tag]) + 1>>}
           /\ <<tag, Len(S.Queue[tag]) + 1>> \notin Backlog(S)
<1>1. PICK n \in Nat : n = Len(S.Queue[tag]) BY QueueLengths
<1>2. \A t \in Tag, i \in Nat \ {0} :
         i <= Len(R.Queue[t]) <=> i <= Len(S.Queue[t]) \/ <<t, i>> = <<tag, n + 1>>
  <2> TAKE t \in Tag, i \in Nat \ {0}
  <2>1. CASE t = tag BY <1>1, <2>1
  <2>2. CASE t # tag BY <2>2
  <2> QED BY <2>1, <2>2
<1>3. \A p : p \in Backlog(R) <=> p \in Backlog(S) \/ p = <<tag, n + 1>>
  <2> TAKE p
  <2>1. CASE \E t \in Tag, i \in Nat \ {0} : p = <<t, i>>
    BY <1>2, <2>1, BacklogPlaces
  <2>2. CASE ~\E t \in Tag, i \in Nat \ {0} : p = <<t, i>>
    <3>1. n + 1 \in Nat \ {0} OBVIOUS
    <3> QED BY <2>2, <3>1, BacklogPlaces
  <2> QED BY <2>1, <2>2
<1>4. <<tag, n + 1>> \notin Backlog(S) BY <1>1, BacklogPlaces
<1> QED BY <1>1, <1>3, <1>4

LEMMA ShorterBacklog ==
    ASSUME NEW S \in Sched, NEW R \in Sched, NEW tag \in Tag, S.Queue[tag] # <<>>,
           Len(R.Queue[tag]) = Len(S.Queue[tag]) - 1,
           \A t \in Tag : t # tag => R.Queue[t] = S.Queue[t]
    PROVE  /\ Backlog(R) = Backlog(S) \ {<<tag, Len(S.Queue[tag])>>}
           /\ <<tag, Len(S.Queue[tag])>> \in Backlog(S)
<1>1. PICK n \in Nat \ {0} : n = Len(S.Queue[tag]) BY QueueLengths
<1>2. Len(R.Queue[tag]) + 1 = Len(S.Queue[tag]) BY <1>1
<1>3. /\ Backlog(S) = Backlog(R) \cup {<<tag, Len(R.Queue[tag]) + 1>>}
      /\ <<tag, Len(R.Queue[tag]) + 1>> \notin Backlog(R)
  BY <1>2, LongerBacklog
<1> QED BY <1>2, <1>3

LEMMA SameKept ==
    ASSUME NEW S, NEW R, WellKept(S), R.m_iTotalQueued = S.m_iTotalQueued,
           R.Queue = S.Queue, Registered(S) \subseteq Registered(R)
    PROVE  WellKept(R) /\ Backlog(R) = Backlog(S)
<1>1. Backlog(R) = Backlog(S) BY SameBacklog
<1> QED BY <1>1 DEF WellKept

\* sched_tag adds its tag to the registered ones.
LEMMA TagRegisters ==
    ASSUME NEW S \in Sched, NEW tag \in Tag
    PROVE  Registered(sched_tag(S, tag)) = Registered(S) \cup {tag}
<1>1. CASE tag \in Registered(S) BY <1>1 DEF sched_tag
<1>2. CASE tag \notin Registered(S)
  <2>1. PICK o \in Seq(Tag) : o = S.m_TagOrder BY SchedFields
  <2>2. sched_tag(S, tag).m_TagOrder = Append(o, tag)
    BY <1>2, <2>1 DEF sched_tag, Sched
  <2>3. PICK n \in Nat : n = Len(o) OBVIOUS
  <2>4. PICK o2 : o2 = Append(o, tag) OBVIOUS
  <2>5. Len(o2) = n + 1 /\ o2[n + 1] = tag /\ \A i \in 1 .. n : o2[i] = o[i]
    BY <2>3, <2>4
  <2>6. 1 .. n + 1 = (1 .. n) \cup {n + 1} OBVIOUS
  <2>7. {o2[i] : i \in 1 .. n + 1} = {o[i] : i \in 1 .. n} \cup {tag} BY <2>5, <2>6
  <2> QED BY <2>1, <2>2, <2>3, <2>4, <2>5, <2>7 DEF Registered
<1> QED BY <1>1, <1>2

-----------------------------------------------------------------------------
\* The scan

LEMMA Quotient ==
    ASSUME NEW n \in Nat \ {0}, NEW x \in Nat
    PROVE  \E q \in Nat : x = q * n + (x % n) /\ x % n \in 0 .. n - 1
<1>1. x % n \in 0 .. n - 1 OBVIOUS
<1>2. x = (x \div n) * n + (x % n) BY Z3
<1>3. x \div n \in Nat BY Z3
<1> QED BY <1>1, <1>2, <1>3

LEMMA MultipleBelow ==
    ASSUME NEW n \in Nat \ {0}, NEW q \in Int, NEW d \in Int, -n < (q - d) * n, (q - d) * n < n
    PROVE  q = d
<1>1. CASE q - d >= 1
  <2>1. (q - d) * n >= n BY <1>1, Z3
  <2> QED BY <2>1
<1>2. CASE q - d <= -1
  <2>1. (q - d) * n <= -n BY <1>2, Z3
  <2> QED BY <2>1
<1> QED BY <1>1, <1>2

LEMMA Remainder ==
    ASSUME NEW n \in Nat \ {0}, NEW q \in Nat, NEW m \in 0 .. n - 1
    PROVE  (q * n + m) % n = m
<1>1. PICK x \in Nat : x = q * n + m BY Z3
<1>2. PICK d \in Nat : x = d * n + (x % n) /\ x % n \in 0 .. n - 1 BY Quotient
<1>3. (q - d) * n = (x % n) - m BY <1>1, <1>2, Z3
<1>4. q = d BY <1>2, <1>3, MultipleBelow
<1> QED BY <1>1, <1>2, <1>4, Z3

\* Wherever the cursor is, the scan comes to every registered tag.
LEMMA ScanReaches ==
    ASSUME NEW S \in Sched, NEW t \in Registered(S)
    PROVE  \E i \in 0 .. Len(S.m_TagOrder) - 1 : TagAt(S, i) = t
<1>1. PICK n \in Nat : n = Len(S.m_TagOrder) BY SchedFields
<1>2. PICK j \in 1 .. n : S.m_TagOrder[j] = t BY <1>1 DEF Registered
<1>3. n \in Nat \ {0} /\ j - 1 \in 0 .. n - 1 BY <1>2
<1>4. PICK x \in Nat : x = S.m_iTagCursor BY SchedFields
<1>5. PICK q \in Nat : x = q * n + (x % n) /\ x % n \in 0 .. n - 1 BY <1>3, Quotient
<1>6. PICK c \in 0 .. n - 1 : c = x % n BY <1>5
<1> SUFFICES ASSUME TRUE PROVE \E i \in 0 .. n - 1 : (x + i) % n = j - 1
  <2>1. PICK i \in 0 .. n - 1 : (x + i) % n = j - 1 OBVIOUS
  <2>2. ((x + i) % n) + 1 = j BY <1>2, <2>1
  <2> QED BY <1>1, <1>2, <1>4, <2>2 DEF TagAt
<1>7. CASE j - 1 >= c
  <2>1. (q * n + (j - 1)) % n = j - 1 BY <1>3, Remainder
  <2>2. (j - 1) - c \in 0 .. n - 1 BY <1>2, <1>7
  <2>3. x + ((j - 1) - c) = q * n + (j - 1) BY <1>5, <1>6, Z3
  <2> QED BY <2>1, <2>2, <2>3
<1>8. CASE j - 1 < c
  <2>1. ((q + 1) * n + (j - 1)) % n = j - 1 BY <1>3, Remainder
  <2>2. ((j - 1) - c) + n \in 0 .. n - 1 BY <1>2, <1>8
  <2>3. x + (((j - 1) - c) + n) = (q + 1) * n + (j - 1) BY <1>5, <1>6, Z3
  <2> QED BY <2>1, <2>2, <2>3
<1> QED BY <1>2, <1>7, <1>8

-----------------------------------------------------------------------------
\* What a dequeue does to the queues

\* It starts the oldest task of a serviceable tag, or it leaves the queues as they are, and
\* then the pool is paused or no tag is serviceable.
DequeueStep(S, r) ==
    /\ r.sched.m_TagOrder = S.m_TagOrder
    /\ r.sched.m_bQueuePaused = S.m_bQueuePaused
    /\ r.bFound => /\ ~S.m_bQueuePaused /\ r.tag \in Tag /\ Serviceable(S, r.tag)
                   /\ r.task = Head(S.Queue[r.tag])
                   /\ r.sched.Queue = [S.Queue EXCEPT ![r.tag] = Tail(@)]
                   /\ r.sched.m_iTotalQueued = S.m_iTotalQueued - 1
    /\ ~r.bFound => /\ r.sched.Queue = S.Queue
                    /\ r.sched.m_iTotalQueued = S.m_iTotalQueued
                    /\ S.m_bQueuePaused \/ \A t \in Tag : ~Serviceable(S, t)

\* A tag that could be served is registered.
LEMMA ServiceableRegistered ==
    ASSUME NEW S, WellKept(S), NEW t \in Tag, Serviceable(S, t)
    PROVE  t \in Registered(S)
BY DEF WellKept, Serviceable

LEMMA PopStep ==
    ASSUME NEW S \in Sched, ~S.m_bQueuePaused, NEW tag \in Tag, Serviceable(S, tag)
    PROVE  DequeueStep(S, Pop(S, tag))
<1> PICK r : r = Pop(S, tag) OBVIOUS
<1>1. /\ r.task = Head(S.Queue[tag])
      /\ r.sched.Queue = [S.Queue EXCEPT ![tag] = Tail(@)]
      /\ r.sched.m_bQueuePaused = S.m_bQueuePaused
      /\ r.sched.m_TagOrder = S.m_TagOrder
      /\ r.sched.m_iTotalQueued = S.m_iTotalQueued - 1
  BY PopQueue
<1>2. r.bFound = TRUE /\ r.tag = tag BY DEF Pop
<1> QED BY <1>1, <1>2 DEF DequeueStep

LEMMA RoundRobinStep ==
    ASSUME NEW S \in Sched, WellKept(S), ~S.m_bQueuePaused
    PROVE  DequeueStep(S, DeficitRoundRobin(S))
<1> DEFINE n       == Len(S.m_TagOrder)
           hits    == {i \in 0 .. n - 1 : Serviceable(S, TagAt(S, i))}
           first   == CHOOSE i \in hits : \A j \in hits : i <= j
           tag     == TagAt(S, first)
           passed  == {TagAt(S, i) : i \in 0 .. first - 1}
           charged == Charged(S, tag)
           popped  == Pop(S, tag)
           stays   == charged - 1 >= 1 /\ Serviceable(popped.sched, tag)
           none    == [S EXCEPT !.iDeficit =
                        [t \in Tag |-> IF t \in Registered(S) THEN 0 ELSE @[t]]]
           served  == [popped.sched EXCEPT
                        !.iDeficit = [t \in Tag |-> CASE t \in passed -> 0
                                                      [] t = tag -> charged - 1
                                                      [] OTHER -> @[t]],
                        !.m_iTagCursor = (@ + first + (IF stays THEN 0 ELSE 1)) % n]
<1>1. CASE hits = {}
  <2>1. DeficitRoundRobin(S) = [bFound |-> FALSE, sched |-> none]
    BY <1>1 DEF DeficitRoundRobin, Nothing
  <2>2. /\ none.Queue = S.Queue /\ none.m_TagOrder = S.m_TagOrder
        /\ none.m_bQueuePaused = S.m_bQueuePaused
        /\ none.m_iTotalQueued = S.m_iTotalQueued
    BY DEF Sched
  <2>3. \A t \in Tag : ~Serviceable(S, t)
    <3> SUFFICES ASSUME NEW t \in Tag, Serviceable(S, t) PROVE FALSE OBVIOUS
    <3>1. t \in Registered(S) BY ServiceableRegistered
    <3>2. PICK i \in 0 .. n - 1 : TagAt(S, i) = t BY <3>1, ScanReaches
    <3>3. i \in hits BY <3>2
    <3> QED BY <1>1, <3>3
  <2> HIDE DEF none
  <2>4. DeficitRoundRobin(S).bFound = FALSE /\ DeficitRoundRobin(S).sched = none
    BY <2>1
  <2> QED BY <2>2, <2>3, <2>4 DEF DequeueStep
<1>2. CASE hits # {}
  <2>0. n \in Nat BY SchedFields, LenProperties
  <2>1. first \in 0 .. n - 1 /\ Serviceable(S, tag)
    <3>1. hits \in SUBSET Nat BY <2>0
    <3>2. \E i \in hits : \A j \in hits : i <= j
      <4> HIDE DEF hits
      <4> QED BY <1>2, <3>1, LeastElement
    <3>3. first \in hits
      <4> HIDE DEF hits
      <4> QED BY <3>2
    <3> HIDE DEF first
    <3> QED BY <3>3
  <2>2. n # 0 /\ first \in Nat
    <3> HIDE DEF n, first
    <3> QED BY <2>0, <2>1
  <2>3. tag \in Tag
    <3> HIDE DEF first
    <3> QED BY <2>2, TagAtType
  <2>4. DeficitRoundRobin(S) = [popped EXCEPT !.sched = served]
    BY <1>2 DEF DeficitRoundRobin
  <2> HIDE DEF tag, first
  <2>5. DequeueStep(S, popped) BY <2>1, <2>3, PopStep
  <2>6. popped = [bFound |-> TRUE, tag |-> tag, task |-> popped.task, sched |-> popped.sched]
    BY DEF Pop
  <2>7. popped.sched \in Sched
    <3>1. S.Queue[tag] # <<>> BY <2>1 DEF Serviceable
    <3>2. S.m_iTotalQueued # 0
      <4>1. Len(S.Queue[tag]) \in Nat \ {0} BY <2>3, <3>1, QueueLengths
      <4>2. <<tag, 1>> \in Backlog(S) BY <2>3, <4>1, BacklogPlaces
      <4>3. IsFiniteSet(Backlog(S)) /\ Backlog(S) # {} BY <4>2 DEF WellKept
      <4>4. Cardinality(Backlog(S)) # 0 BY <4>3, FS_EmptySet
      <4> QED BY <4>4 DEF WellKept
    <3> QED BY <2>3, <3>1, <3>2, PopType
  <2> HIDE DEF popped, charged, stays, passed, n
  <2>8. /\ served.Queue = popped.sched.Queue
        /\ served.m_TagOrder = popped.sched.m_TagOrder
        /\ served.m_bQueuePaused = popped.sched.m_bQueuePaused
        /\ served.m_iTotalQueued = popped.sched.m_iTotalQueued
    BY <2>7 DEF Sched
  <2> HIDE DEF served
  <2>9. /\ DeficitRoundRobin(S).bFound = TRUE /\ DeficitRoundRobin(S).tag = tag
        /\ DeficitRoundRobin(S).task = popped.task
        /\ DeficitRoundRobin(S).sched = served
    BY <2>4, <2>6
  <2>10. popped.bFound = TRUE /\ popped.tag = tag BY <2>6
  <2> QED BY <2>5, <2>8, <2>9, <2>10 DEF DequeueStep
<1> QED BY <1>1, <1>2

\* A pool that counts no task has none.
LEMMA NothingQueued ==
    ASSUME NEW S \in Sched, WellKept(S), S.m_iTotalQueued = 0, NEW t \in Tag
    PROVE  S.Queue[t] = <<>>
<1> SUFFICES ASSUME S.Queue[t] # <<>> PROVE FALSE OBVIOUS
<1>1. Len(S.Queue[t]) \in Nat \ {0} BY QueueLengths
<1>2. <<t, 1>> \in Backlog(S) BY <1>1, BacklogPlaces
<1>3. Cardinality(Backlog(S)) # 0 BY <1>2, FS_EmptySet DEF WellKept
<1> QED BY <1>3 DEF WellKept

LEMMA DequeueSteps ==
    ASSUME NEW S \in Sched, WellKept(S)
    PROVE  DequeueStep(S, sched_dequeue(S))
<1>1. ASSUME S.m_bQueuePaused \/ \A t \in Tag : ~Serviceable(S, t)
      PROVE  DequeueStep(S, Nothing(S))
  BY <1>1 DEF DequeueStep, Nothing
<1>2. CASE S.m_bQueuePaused BY <1>1, <1>2 DEF sched_dequeue
<1>3. CASE ~S.m_bQueuePaused /\ S.m_iTotalQueued = 0
  <2>1. \A t \in Tag : ~Serviceable(S, t) BY <1>3, NothingQueued DEF Serviceable
  <2> QED BY <1>1, <1>3, <2>1 DEF sched_dequeue
<1>4. CASE ~S.m_bQueuePaused /\ S.m_iTotalQueued # 0
  <2>1. CASE Len(S.m_TagOrder) = 1
    <3>1. S.m_TagOrder[1] \in Tag BY <2>1, SchedFields, ElementOfSeq
    <3>2. Registered(S) = {S.m_TagOrder[1]}
      <4>1. 1 .. Len(S.m_TagOrder) = {1} BY <2>1
      <4> QED BY <4>1 DEF Registered
    <3>3. CASE Serviceable(S, S.m_TagOrder[1])
      BY <1>4, <2>1, <3>1, <3>3, PopStep DEF sched_dequeue
    <3>4. CASE ~Serviceable(S, S.m_TagOrder[1])
      <4>1. \A t \in Tag : ~Serviceable(S, t)
        BY <3>2, <3>4, ServiceableRegistered
      <4> QED BY <1>1, <1>4, <2>1, <3>4, <4>1 DEF sched_dequeue
    <3> QED BY <3>3, <3>4
  <2>2. CASE Len(S.m_TagOrder) # 1
    BY <1>4, <2>2, RoundRobinStep DEF sched_dequeue
  <2> QED BY <2>1, <2>2
<1> QED BY <1>2, <1>3, <1>4

-----------------------------------------------------------------------------
\* The total stays exact, and how many tasks could start

LEMMA StartableFinite ==
    ASSUME NEW S, WellKept(S)
    PROVE  /\ IsFiniteSet(Startable(S)) /\ Cardinality(Startable(S)) \in Nat
           /\ Startable(S) \subseteq Backlog(S)
<1>1. Startable(S) \in SUBSET Backlog(S) BY DEF Startable
<1>2. IsFiniteSet(Startable(S)) BY <1>1, FS_Subset DEF WellKept
<1> QED BY <1>1, <1>2, FS_CardinalityType

\* A set of places within another one and one more place holds at most one place more.
LEMMA OneMore ==
    ASSUME NEW A, IsFiniteSet(A), NEW x, NEW B, B \subseteq A \cup {x}
    PROVE  Cardinality(B) <= Cardinality(A) + 1
<1>1. /\ IsFiniteSet(A \cup {x}) /\ Cardinality(A) \in Nat
      /\ Cardinality(A \cup {x}) <= Cardinality(A) + 1
  <2>1. Cardinality(A) \in Nat BY FS_CardinalityType
  <2>2. /\ IsFiniteSet(A \cup {x})
        /\ Cardinality(A \cup {x}) = IF x \in A THEN Cardinality(A) ELSE Cardinality(A) + 1
    BY FS_AddElement
  <2> QED BY <2>1, <2>2
<1>2. IsFiniteSet(B) /\ Cardinality(B) <= Cardinality(A \cup {x}) BY <1>1, FS_Subset
<1>3. Cardinality(B) \in Nat /\ Cardinality(A \cup {x}) \in Nat
  BY <1>1, <1>2, FS_CardinalityType
<1> QED BY <1>1, <1>2, <1>3

LEMMA EmptyKept ==
    ASSUME NEW config \in [Tag -> TagConfig], NEW order \in Seq(Tag)
    PROVE  LET S == EmptySched(config, order) IN
           /\ WellKept(S) /\ Backlog(S) = {} /\ S.m_bQueuePaused = FALSE
           /\ S.Queue = [t \in Tag |-> <<>>]
<1> PICK S : S = EmptySched(config, order) OBVIOUS
<1>1. S.Queue = [t \in Tag |-> <<>>] /\ S.m_iTotalQueued = 0 /\ S.m_bQueuePaused = FALSE
  BY DEF EmptySched
<1>2. Backlog(S) = {} BY <1>1 DEF Backlog
<1>3. WellKept(S) BY <1>1, <1>2, FS_EmptySet DEF WellKept
<1> QED BY <1>1, <1>2, <1>3

LEMMA ClearedKept ==
    ASSUME NEW S \in Sched
    PROVE  WellKept(Cleared(S)) /\ Backlog(Cleared(S)) = {}
<1> PICK R : R = Cleared(S) OBVIOUS
<1>1. R.Queue = [t \in Tag |-> <<>>] /\ R.m_iTotalQueued = 0 BY ClearedQueue
<1>2. Backlog(R) = {} BY <1>1 DEF Backlog
<1>3. WellKept(R) BY <1>1, <1>2, FS_EmptySet DEF WellKept
<1> QED BY <1>2, <1>3

LEMMA EnqueueKept ==
    ASSUME NEW S \in Sched, WellKept(S), NEW tag \in Tag, NEW task \in Task
    PROVE  LET r == sched_enqueue(S, tag, task) IN
           /\ WellKept(r.sched)
           /\ IF r.bAccepted THEN Cardinality(Startable(r.sched)) <= Cardinality(Startable(S)) + 1
                             ELSE Startable(r.sched) = Startable(S)
<1> PICK r : r = sched_enqueue(S, tag, task) OBVIOUS
<1>1. r.sched \in Sched /\ r.bAccepted \in BOOLEAN /\ r.sched.iRunning = S.iRunning
      /\ r.sched.Config = S.Config
  BY EnqueueType
<1>2. /\ r.sched.m_TagOrder = sched_tag(S, tag).m_TagOrder
      /\ ~r.bAccepted => /\ r.dropped = <<>> /\ r.sched.Queue = S.Queue
                         /\ r.sched.m_iTotalQueued = S.m_iTotalQueued
      /\ r.bAccepted /\ r.dropped = <<>> =>
           /\ r.sched.Queue = [S.Queue EXCEPT ![tag] = Append(@, task)]
           /\ r.sched.m_iTotalQueued = S.m_iTotalQueued + 1
      /\ r.bAccepted /\ r.dropped # <<>> =>
           /\ r.sched.m_iTotalQueued = S.m_iTotalQueued
           /\ S.Queue[tag] # <<>> /\ r.dropped = <<Head(S.Queue[tag])>>
           /\ S.Config[tag].OverflowPolicy = "DropOldest"
           /\ r.sched.Queue = [S.Queue EXCEPT ![tag] = Append(Tail(@), task)]
  BY EnqueueQueue
<1>3. PICK R \in Sched : R = r.sched BY <1>1
<1>4. Registered(R) = Registered(S) \cup {tag}
  <2>1. PICK T : T = sched_tag(S, tag) OBVIOUS
  <2>2. Registered(T) = Registered(S) \cup {tag} BY <2>1, TagRegisters
  <2>3. R.m_TagOrder = T.m_TagOrder BY <1>2, <1>3, <2>1
  <2> QED BY <2>2, <2>3 DEF Registered
<1>5. S.Queue \in [Tag -> Seq(Task)] BY SchedFields
<1>6. CASE ~r.bAccepted
  <2>1. WellKept(R) /\ Backlog(R) = Backlog(S) BY <1>2, <1>3, <1>4, <1>6, SameKept
  <2>2. Startable(R) = Startable(S) BY <1>1, <1>3, <2>1 DEF Startable
  <2> QED BY <1>3, <1>6, <2>1, <2>2
<1>7. CASE r.bAccepted /\ r.dropped # <<>>
  <2>1. PICK q \in Seq(Task) : q = S.Queue[tag] /\ q # <<>> BY <1>2, <1>5, <1>7
  <2>2. Len(Append(Tail(q), task)) = Len(q) BY <2>1
  <2>3. \A t \in Tag : Len(R.Queue[t]) = Len(S.Queue[t])
    BY <1>2, <1>3, <1>5, <1>7, <2>1, <2>2
  <2>4. Backlog(R) = Backlog(S) BY <2>3, SameBacklog
  <2>5. \A t \in Tag : R.Queue[t] # <<>> => t \in Registered(R)
    BY <1>2, <1>3, <1>4, <1>5, <1>7 DEF WellKept
  <2>6. WellKept(R) BY <1>2, <1>3, <1>7, <2>4, <2>5 DEF WellKept
  <2>7. Startable(R) = Startable(S) BY <1>1, <1>3, <2>4 DEF Startable
  <2>8. Cardinality(Startable(S)) \in Nat BY StartableFinite
  <2> QED BY <1>3, <1>7, <2>6, <2>7, <2>8
<1>8. CASE r.bAccepted /\ r.dropped = <<>>
  <2>1. PICK q \in Seq(Task) : q = S.Queue[tag] BY <1>5
  <2>2. Len(Append(q, task)) = Len(q) + 1 BY <2>1
  <2>3. /\ Len(R.Queue[tag]) = Len(S.Queue[tag]) + 1
        /\ \A t \in Tag : t # tag => R.Queue[t] = S.Queue[t]
    BY <1>2, <1>3, <1>5, <1>8, <2>1, <2>2
  <2>4. PICK x : x = <<tag, Len(S.Queue[tag]) + 1>> OBVIOUS
  <2>5. Backlog(R) = Backlog(S) \cup {x} /\ x \notin Backlog(S)
    BY <2>3, <2>4, LongerBacklog
  <2>6. \A t \in Tag : R.Queue[t] # <<>> => t \in Registered(R)
    BY <1>4, <2>3 DEF WellKept
  <2>7. IsFiniteSet(Backlog(R)) /\ Cardinality(Backlog(R)) = Cardinality(Backlog(S)) + 1
    BY <2>5, FS_AddElement DEF WellKept
  <2>8. WellKept(R) BY <1>2, <1>3, <1>8, <2>6, <2>7 DEF WellKept
  <2>9. Startable(R) \subseteq Startable(S) \cup {x} BY <1>1, <1>3, <2>5 DEF Startable
  <2>10. Cardinality(Startable(R)) <= Cardinality(Startable(S)) + 1
    BY <2>9, StartableFinite, OneMore
  <2> QED BY <1>3, <1>8, <2>8, <2>10
<1> QED BY <1>1, <1>6, <1>7, <1>8

\* A task that starts is one less that could.
LEMMA DequeueKept ==
    ASSUME NEW S \in Sched, WellKept(S)
    PROVE  LET r == sched_dequeue(S) IN
           /\ WellKept(r.sched)
           /\ r.bFound => Cardinality(Startable(r.sched)) + 1 <= Cardinality(Startable(S))
           /\ ~r.bFound => Startable(r.sched) = Startable(S)
           /\ ~r.bFound /\ ~S.m_bQueuePaused => Startable(S) = {}
<1> PICK r : r = sched_dequeue(S) OBVIOUS
<1>1. DequeueOK(S, r) BY DequeueType
<1>2. DequeueStep(S, r) BY DequeueSteps
<1>3. PICK R \in Sched : R = r.sched BY <1>1 DEF DequeueOK
<1>4. Registered(R) = Registered(S) BY <1>2, <1>3 DEF DequeueStep, Registered
<1>5. CASE ~r.bFound
  <2>1. WellKept(R) /\ Backlog(R) = Backlog(S)
    BY <1>2, <1>3, <1>4, <1>5, SameKept DEF DequeueStep
  <2>2. R.iRunning = S.iRunning /\ R.Config = S.Config BY <1>1, <1>3, <1>5 DEF DequeueOK
  <2>3. Startable(R) = Startable(S) BY <2>1, <2>2 DEF Startable
  <2>4. ASSUME ~S.m_bQueuePaused, NEW p \in Startable(S) PROVE FALSE
    <3>1. PICK t \in Tag, i \in Nat \ {0} : p = <<t, i>> /\ i <= Len(S.Queue[t])
      BY BacklogPlaces DEF Startable
    <3>2. S.Queue[t] # <<>> BY <3>1, QueueLengths
    <3>3. PICK cap \in Nat, n \in Nat : cap = S.Config[t].iMaxConcurrency /\ n = S.iRunning[t]
      BY SchedFields DEF TagConfig
    <3>4. cap = 0 \/ i + n <= cap BY <3>1, <3>3 DEF Startable
    <3>5. Serviceable(S, t) BY <3>1, <3>2, <3>3, <3>4 DEF Serviceable, BelowCap
    <3> QED BY <1>2, <1>5, <2>4, <3>5 DEF DequeueStep
  <2> QED BY <1>3, <1>5, <2>1, <2>3, <2>4
<1>6. CASE r.bFound
  <2>1. PICK tag \in Tag : tag = r.tag BY <1>1, <1>6 DEF DequeueOK
  <2>2. /\ Serviceable(S, tag) /\ R.Queue = [S.Queue EXCEPT ![tag] = Tail(@)]
        /\ R.m_iTotalQueued = S.m_iTotalQueued - 1
    BY <1>2, <1>3, <1>6, <2>1 DEF DequeueStep
  <2>3. R.iRunning = [S.iRunning EXCEPT ![tag] = @ + 1] /\ R.Config = S.Config
    BY <1>1, <1>3, <1>6, <2>1 DEF DequeueOK
  <2>4. S.Queue \in [Tag -> Seq(Task)] /\ S.iRunning \in [Tag -> Nat]
    BY SchedFields
  <2>5. PICK q \in Seq(Task) : q = S.Queue[tag] /\ q # <<>> BY <2>2, <2>4 DEF Serviceable
  <2>6. PICK m \in Nat \ {0} : m = Len(q) BY <2>5
  <2>7. Len(Tail(q)) = m - 1 BY <2>5, <2>6
  <2>8. /\ Len(R.Queue[tag]) = Len(S.Queue[tag]) - 1
        /\ \A t \in Tag : t # tag => R.Queue[t] = S.Queue[t]
    BY <2>2, <2>4, <2>5, <2>6, <2>7
  <2>9. Backlog(R) = Backlog(S) \ {<<tag, m>>} /\ <<tag, m>> \in Backlog(S)
    BY <2>5, <2>6, <2>8, ShorterBacklog
  <2>10. IsFiniteSet(Backlog(R)) /\ Cardinality(Backlog(R)) = Cardinality(Backlog(S)) - 1
    BY <2>9, FS_RemoveElement DEF WellKept
  <2>11. \A t \in Tag : R.Queue[t] # <<>> => t \in Registered(R)
    BY <1>4, <2>2, <2>4, <2>8 DEF WellKept, Serviceable
  <2>12. WellKept(R) BY <2>2, <2>10, <2>11 DEF WellKept
  <2>13. PICK cap \in Nat, n \in Nat : cap = S.Config[tag].iMaxConcurrency /\ n = S.iRunning[tag]
    BY SchedFields DEF TagConfig
  <2>14. cap = 0 \/ n < cap BY <2>2, <2>13 DEF Serviceable, BelowCap
  \* the place that is no longer startable: the last one that was
  <2>15. PICK l \in Nat \ {0} : l = (IF cap = 0 \/ m + n <= cap THEN m ELSE cap - n)
    <3>1. CASE cap = 0 \/ m + n <= cap BY <3>1
    <3>2. CASE ~(cap = 0 \/ m + n <= cap)
      <4>1. cap - n \in Nat \ {0} BY <2>14, <3>2
      <4> QED BY <3>2, <4>1
    <3> QED BY <3>1, <3>2
  <2>16. l <= m /\ (cap = 0 \/ l + n <= cap) /\ (l = m \/ (cap # 0 /\ l + n = cap))
    BY <2>14, <2>15
  <2>17. <<tag, l>> \in Startable(S)
    <3>1. <<tag, l>> \in Backlog(S) BY <2>5, <2>6, <2>16, BacklogPlaces
    <3> QED BY <2>13, <2>16, <3>1 DEF Startable
  <2>18. Startable(R) \subseteq Startable(S) \ {<<tag, l>>}
    <3> SUFFICES ASSUME NEW p \in Startable(R) PROVE p \in Startable(S) /\ p # <<tag, l>>
      OBVIOUS
    <3>1. p \in Backlog(R) BY DEF Startable
    <3>2. PICK t \in Tag, i \in Nat \ {0} : p = <<t, i>> /\ i <= Len(R.Queue[t])
      BY <3>1, BacklogPlaces
    <3>3. p \in Backlog(S) BY <2>9, <3>1
    <3>4. S.Config[t].iMaxConcurrency = 0 \/ i + R.iRunning[t] <= S.Config[t].iMaxConcurrency
      BY <2>3, <3>2 DEF Startable
    <3>5. CASE t # tag
      <4>1. R.iRunning[t] = S.iRunning[t] BY <2>3, <2>4, <3>5
      <4> QED BY <3>2, <3>3, <3>4, <3>5, <4>1 DEF Startable
    <3>6. CASE t = tag
      <4>1. R.iRunning[t] = n + 1 BY <2>3, <2>4, <2>13, <3>6
      <4>2. cap = 0 \/ i + (n + 1) <= cap BY <2>13, <3>4, <3>6, <4>1
      <4>3. i <= m - 1 BY <2>5, <2>6, <2>8, <3>2, <3>6
      <4>4. i # l BY <2>16, <4>2, <4>3
      <4>5. cap = 0 \/ i + n <= cap BY <4>2
      <4>6. p \in Startable(S) BY <2>13, <3>2, <3>3, <3>6, <4>5 DEF Startable
      <4> QED BY <3>2, <4>4, <4>6
    <3> QED BY <3>5, <3>6
  <2>19. Cardinality(Startable(R)) + 1 <= Cardinality(Startable(S))
    <3>1. /\ IsFiniteSet(Startable(S)) /\ Cardinality(Startable(S)) \in Nat
          /\ IsFiniteSet(Startable(R)) /\ Cardinality(Startable(R)) \in Nat
      BY <2>12, StartableFinite
    <3>2. PICK A : A = Startable(S) \ {<<tag, l>>} OBVIOUS
    <3>3. IsFiniteSet(A) /\ Cardinality(A) = Cardinality(Startable(S)) - 1
      BY <2>17, <3>1, <3>2, FS_RemoveElement
    <3>4. Cardinality(Startable(R)) <= Cardinality(A)
      BY <2>18, <3>2, <3>3, FS_Subset
    <3> QED BY <3>1, <3>3, <3>4
  <2> QED BY <1>3, <1>6, <2>12, <2>19
<1> QED BY <1>1, <1>5, <1>6 DEF DequeueOK

\* An ended task lets one more task start at most, and only if its worker is told to wake
\* another one.
LEMMA TaskDoneKept ==
    ASSUME NEW S \in Sched, WellKept(S), NEW tag \in Tag
    PROVE  LET r == sched_task_done(S, tag) IN
           /\ WellKept(r.sched)
           /\ Cardinality(Startable(r.sched)) <= Cardinality(Startable(S)) + 1
           /\ ~r.bWake /\ ~S.m_bQueuePaused =>
                Cardinality(Startable(r.sched)) <= Cardinality(Startable(S))
<1> PICK r : r = sched_task_done(S, tag) OBVIOUS
<1>1. r.sched \in Sched /\ r.bWake \in BOOLEAN /\ r.sched.Config = S.Config
  BY TaskDoneType
<1>2. /\ r.sched.Queue = S.Queue /\ r.sched.m_TagOrder = S.m_TagOrder
      /\ r.sched.m_iTotalQueued = S.m_iTotalQueued
      /\ r.sched.iRunning = [S.iRunning EXCEPT ![tag] = IF @ > 0 THEN @ - 1 ELSE @]
      /\ r.bWake <=> /\ r.sched.Config[tag].iMaxConcurrency # 0
                     /\ ~S.m_bQueuePaused /\ Serviceable(r.sched, tag)
  BY TaskDoneQueue
<1>3. PICK R \in Sched : R = r.sched BY <1>1
<1>4. WellKept(R) /\ Backlog(R) = Backlog(S)
  <2>1. Registered(S) = Registered(R) BY <1>2, <1>3 DEF Registered
  <2> QED BY <1>2, <1>3, <2>1, SameKept
<1>5. S.iRunning \in [Tag -> Nat] /\ R.iRunning \in [Tag -> Nat] BY SchedFields
<1>6. PICK cap \in Nat, n \in Nat : cap = S.Config[tag].iMaxConcurrency /\ n = R.iRunning[tag]
  BY SchedFields DEF TagConfig
<1>7. /\ \A t \in Tag : t # tag => R.iRunning[t] = S.iRunning[t]
      /\ S.iRunning[tag] <= n + 1 /\ S.iRunning[tag] \in Nat
  BY <1>2, <1>3, <1>5, <1>6
<1>8. ASSUME NEW p \in Startable(R), p \notin Startable(S)
      PROVE  cap # 0 /\ p = <<tag, cap - n>> /\ Serviceable(R, tag)
  <2>1. p \in Backlog(R) /\ p \in Backlog(S) BY <1>4, <1>8 DEF Startable
  <2>2. PICK t \in Tag, i \in Nat \ {0} : p = <<t, i>> /\ i <= Len(R.Queue[t])
    BY <2>1, BacklogPlaces
  <2>3. S.Config[t].iMaxConcurrency = 0 \/ i + R.iRunning[t] <= S.Config[t].iMaxConcurrency
    BY <1>1, <1>3, <2>2 DEF Startable
  <2>4. ~(S.Config[t].iMaxConcurrency = 0 \/ i + S.iRunning[t] <= S.Config[t].iMaxConcurrency)
    BY <1>8, <2>1, <2>2 DEF Startable
  <2>5. t = tag BY <1>7, <2>3, <2>4
  <2>6. cap # 0 /\ i + n <= cap /\ ~(i + S.iRunning[tag] <= cap)
    BY <1>6, <2>3, <2>4, <2>5
  <2>7. i = cap - n BY <1>7, <2>6
  <2>8. n < cap BY <2>6
  <2>9. R.Queue[tag] # <<>> BY <2>2, <2>5, QueueLengths
  <2>10. Serviceable(R, tag)
    BY <1>1, <1>3, <1>6, <2>8, <2>9 DEF Serviceable, BelowCap
  <2> QED BY <2>2, <2>5, <2>6, <2>7, <2>10
<1>9. Cardinality(Startable(R)) <= Cardinality(Startable(S)) + 1
  <2>1. Startable(R) \subseteq Startable(S) \cup {<<tag, cap - n>>} BY <1>8
  <2> QED BY <2>1, StartableFinite, OneMore
<1>10. ASSUME ~r.bWake, ~S.m_bQueuePaused
       PROVE  Cardinality(Startable(R)) <= Cardinality(Startable(S))
  <2>1. Startable(R) \subseteq Startable(S)
    BY <1>1, <1>2, <1>3, <1>6, <1>8, <1>10
  <2>2. IsFiniteSet(Startable(S)) BY StartableFinite
  <2> QED BY <2>1, <2>2, FS_Subset
<1> QED BY <1>1, <1>3, <1>4, <1>9, <1>10

LEMMA ConfigureTagQueue ==
    ASSUME NEW S \in Sched, NEW tag \in Tag, NEW config \in TagConfig
    PROVE  LET R == ConfigureTagTo(S, tag, config) IN
           /\ R.Queue = S.Queue /\ R.m_bQueuePaused = S.m_bQueuePaused
           /\ R.m_iTotalQueued = S.m_iTotalQueued
           /\ R.m_TagOrder = sched_tag(S, tag).m_TagOrder
<1> PICK T : T = sched_tag(S, tag) OBVIOUS
<1>1. /\ T \in Sched /\ T.Queue = S.Queue /\ T.m_iTotalQueued = S.m_iTotalQueued
      /\ T.m_bQueuePaused = S.m_bQueuePaused
  BY TagType
<1>2. ConfigureTagTo(S, tag, config) = [T EXCEPT !.Config[tag] = config]
  BY DEF ConfigureTagTo, TagConfig
<1>3. PICK R : R = [T EXCEPT !.Config[tag] = config] OBVIOUS
<1>4. /\ R.Queue = T.Queue /\ R.m_bQueuePaused = T.m_bQueuePaused
      /\ R.m_iTotalQueued = T.m_iTotalQueued /\ R.m_TagOrder = T.m_TagOrder
  BY <1>1, <1>3 DEF Sched
<1> QED BY <1>1, <1>2, <1>3, <1>4

\* A new configuration queues and starts nothing; one with the same cap lets nothing start.
LEMMA ConfigureTagKept ==
    ASSUME NEW S \in Sched, WellKept(S), NEW tag \in Tag, NEW config \in TagConfig
    PROVE  LET R == ConfigureTagTo(S, tag, config) IN
           /\ WellKept(R)
           /\ config.iMaxConcurrency = S.Config[tag].iMaxConcurrency =>
                Startable(R) = Startable(S)
<1> PICK R : R = ConfigureTagTo(S, tag, config) OBVIOUS
<1>1. /\ R.Queue = S.Queue /\ R.m_iTotalQueued = S.m_iTotalQueued
      /\ R.m_TagOrder = sched_tag(S, tag).m_TagOrder
  BY ConfigureTagQueue
<1>2. R.iRunning = S.iRunning /\ R.Config = [S.Config EXCEPT ![tag] = config]
  BY ConfigureTagType
<1>3. WellKept(R) /\ Backlog(R) = Backlog(S)
  <2>1. PICK T : T = sched_tag(S, tag) OBVIOUS
  <2>2. Registered(T) = Registered(S) \cup {tag} BY <2>1, TagRegisters
  <2>3. Registered(R) = Registered(T) BY <1>1, <2>1 DEF Registered
  <2> QED BY <1>1, <2>2, <2>3, SameKept
<1>4. ASSUME config.iMaxConcurrency = S.Config[tag].iMaxConcurrency
      PROVE  Startable(R) = Startable(S)
  <2>1. S.Config \in [Tag -> TagConfig] BY SchedFields
  <2>2. \A t \in Tag : R.Config[t].iMaxConcurrency = S.Config[t].iMaxConcurrency
    BY <1>2, <1>4, <2>1
  <2>3. \A p \in Backlog(S) : p[1] \in Tag BY DEF Backlog
  <2> QED BY <1>2, <1>3, <2>2, <2>3 DEF Startable
<1> QED BY <1>3, <1>4

-----------------------------------------------------------------------------
\* The tasks in the queues

QueuedIn(Q) == {k \in Task : \E t \in Tag : Positions(Q[t], k) # {}}

\* no task is queued twice
Distinct(Q) == \A k \in Task : \A t, u \in Tag :
                  \A i \in Positions(Q[t], k), j \in Positions(Q[u], k) : t = u /\ i = j

LEMMA AppendTasks ==
    ASSUME NEW Q \in [Tag -> Seq(Task)], Distinct(Q), NEW tag \in Tag,
           NEW k \in Task, k \notin QueuedIn(Q)
    PROVE  LET R == [Q EXCEPT ![tag] = Append(@, k)] IN
           R \in [Tag -> Seq(Task)] /\ Distinct(R) /\ QueuedIn(R) = QueuedIn(Q) \cup {k}
<1> PICK R : R = [Q EXCEPT ![tag] = Append(@, k)] OBVIOUS
<1>1. PICK q \in Seq(Task) : q = Q[tag] OBVIOUS
<1>2. /\ Append(q, k) \in Seq(Task)
      /\ \A j : j # k => Positions(Append(q, k), j) = Positions(q, j)
      /\ Positions(Append(q, k), k) = Positions(q, k) \cup {Len(q) + 1}
  BY AppendPositions
<1>3. R[tag] = Append(q, k) /\ \A t \in Tag : t # tag => R[t] = Q[t] BY <1>1
<1>4. R \in [Tag -> Seq(Task)] BY <1>1, <1>2
<1>5. \A t \in Tag : Positions(Q[t], k) = {} BY DEF QueuedIn
<1>6. \A t \in Tag : \A j \in Task : j # k => Positions(R[t], j) = Positions(Q[t], j)
  BY <1>1, <1>2, <1>3
<1>7. /\ Positions(R[tag], k) = {Len(q) + 1}
      /\ \A t \in Tag : t # tag => Positions(R[t], k) = {}
  BY <1>1, <1>2, <1>3, <1>5
<1>8. Distinct(R)
  <2> SUFFICES ASSUME NEW j \in Task, NEW t \in Tag, NEW u \in Tag,
                      NEW m \in Positions(R[t], j), NEW n \in Positions(R[u], j)
               PROVE  t = u /\ m = n
    BY DEF Distinct
  <2>1. CASE j = k BY <1>7, <2>1
  <2>2. CASE j # k BY <1>6, <2>2 DEF Distinct
  <2> QED BY <2>1, <2>2
<1>9. QueuedIn(R) = QueuedIn(Q) \cup {k}
  <2>1. \A j \in Task : j # k => (j \in QueuedIn(R) <=> j \in QueuedIn(Q))
    BY <1>6 DEF QueuedIn
  <2>2. k \in QueuedIn(R) BY <1>7 DEF QueuedIn
  <2>3. QueuedIn(R) \subseteq Task /\ QueuedIn(Q) \subseteq Task BY DEF QueuedIn
  <2> QED BY <2>1, <2>2, <2>3
<1> QED BY <1>4, <1>8, <1>9

LEMMA TailTasks ==
    ASSUME NEW Q \in [Tag -> Seq(Task)], Distinct(Q), NEW tag \in Tag, Q[tag] # <<>>
    PROVE  LET R == [Q EXCEPT ![tag] = Tail(@)]
               h == Head(Q[tag])
           IN  /\ R \in [Tag -> Seq(Task)] /\ Distinct(R)
               /\ h \in QueuedIn(Q) /\ QueuedIn(R) = QueuedIn(Q) \ {h}
<1> PICK R : R = [Q EXCEPT ![tag] = Tail(@)] OBVIOUS
<1>1. PICK q \in Seq(Task) : q = Q[tag] /\ q # <<>> OBVIOUS
<1>2. PICK h : h = Head(q) OBVIOUS
<1>3. /\ Tail(q) \in Seq(Task) /\ h \in Task /\ 1 \in Positions(q, h)
      /\ \A j : /\ Positions(q, j) \subseteq Nat
                /\ \A i \in Nat : i \in Positions(Tail(q), j)
                                    <=> i # 0 /\ i + 1 \in Positions(q, j)
  BY <1>1, <1>2, TailPositions
<1>4. R[tag] = Tail(q) /\ \A t \in Tag : t # tag => R[t] = Q[t] BY <1>1
<1>5. R \in [Tag -> Seq(Task)] BY <1>1, <1>3
<1>6. \A j : 0 \notin Positions(q, j) /\ Positions(Tail(q), j) \subseteq Nat
  BY <1>1, <1>3 DEF Positions
<1>7. Distinct(R)
  <2> SUFFICES ASSUME NEW j \in Task, NEW t \in Tag, NEW u \in Tag,
                      NEW m \in Positions(R[t], j), NEW n \in Positions(R[u], j)
               PROVE  t = u /\ m = n
    BY DEF Distinct
  <2>1. PICK m1 : /\ t = tag => m \in Nat /\ m1 = m + 1
                  /\ t # tag => m1 = m
                  /\ m1 \in Positions(Q[t], j)
    <3>1. CASE t = tag
      <4>1. m \in Nat /\ m + 1 \in Positions(Q[t], j) BY <1>1, <1>3, <1>4, <1>6, <3>1
      <4> QED BY <3>1, <4>1
    <3>2. CASE t # tag BY <1>4, <3>2
    <3> QED BY <3>1, <3>2
  <2>2. PICK n1 : /\ u = tag => n \in Nat /\ n1 = n + 1
                  /\ u # tag => n1 = n
                  /\ n1 \in Positions(Q[u], j)
    <3>1. CASE u = tag
      <4>1. n \in Nat /\ n + 1 \in Positions(Q[u], j) BY <1>1, <1>3, <1>4, <1>6, <3>1
      <4> QED BY <3>1, <4>1
    <3>2. CASE u # tag BY <1>4, <3>2
    <3> QED BY <3>1, <3>2
  <2>3. t = u /\ m1 = n1 BY <2>1, <2>2 DEF Distinct
  <2> QED BY <2>1, <2>2, <2>3
<1>8. h \in QueuedIn(Q) BY <1>1, <1>3 DEF QueuedIn
<1>9. \A t \in Tag : \A i \in Positions(Q[t], h) : t = tag /\ i = 1
  BY <1>1, <1>3 DEF Distinct
<1>10. h \notin QueuedIn(R)
  <2> SUFFICES ASSUME NEW t \in Tag, NEW i \in Positions(R[t], h) PROVE FALSE
    BY DEF QueuedIn
  <2>1. CASE t # tag BY <1>4, <1>9, <2>1
  <2>2. CASE t = tag
    <3>1. i \in Nat /\ i # 0 /\ i + 1 \in Positions(Q[tag], h)
      BY <1>1, <1>3, <1>4, <1>6, <2>2
    <3>2. i + 1 = 1 BY <1>9, <3>1
    <3> QED BY <3>1, <3>2
  <2> QED BY <2>1, <2>2
<1>11. ASSUME NEW j \in Task, j # h PROVE j \in QueuedIn(R) <=> j \in QueuedIn(Q)
  <2>1. Positions(Tail(q), j) # {} <=> Positions(q, j) # {}
    <3>1. \A i \in Positions(q, j) : i # 1 /\ i \in Nat /\ i # 0
      BY <1>1, <1>2, <1>3, <1>6, <1>11 DEF Positions
    <3>2. \A i \in Positions(q, j) : i - 1 \in Nat /\ i - 1 # 0 /\ (i - 1) + 1 = i
      BY <3>1
    <3>3. \A i \in Positions(q, j) : i - 1 \in Positions(Tail(q), j)
      BY <1>3, <3>2
    <3>4. \A i \in Positions(Tail(q), j) : i + 1 \in Positions(q, j)
      BY <1>3, <1>6
    <3> QED BY <3>3, <3>4
  <2> QED BY <1>1, <1>4, <2>1 DEF QueuedIn
<1>12. QueuedIn(R) = QueuedIn(Q) \ {h}
  <2>1. QueuedIn(R) \subseteq Task /\ QueuedIn(Q) \subseteq Task BY DEF QueuedIn
  <2> QED BY <1>10, <1>11, <2>1
<1> QED BY <1>1, <1>2, <1>5, <1>7, <1>8, <1>12

LEMMA NoTasks ==
    ASSUME NEW Q, Q = [t \in Tag |-> <<>>]
    PROVE  Distinct(Q) /\ QueuedIn(Q) = {}
<1>1. \A t \in Tag : \A k : Positions(Q[t], k) = {} BY DEF Positions
<1> QED BY <1>1 DEF Distinct, QueuedIn

-----------------------------------------------------------------------------
\* The deficits

\* Only the round robin, and clear(), change a deficit.
LEMMA DeficitsKept ==
    ASSUME NEW S \in Sched, NEW tag \in Tag, NEW task, NEW config \in TagConfig
    PROVE  /\ sched_tag(S, tag).iDeficit = S.iDeficit
           /\ sched_enqueue(S, tag, task).sched.iDeficit = S.iDeficit
           /\ Pop(S, tag).sched.iDeficit = S.iDeficit
           /\ sched_task_done(S, tag).sched.iDeficit = S.iDeficit
           /\ ConfigureTagTo(S, tag, config).iDeficit = S.iDeficit
<1>1. PICK T : T = sched_tag(S, tag) OBVIOUS
<1>2. T \in Sched BY <1>1, TagType
<1>3. T.iDeficit = S.iDeficit BY <1>1 DEF sched_tag, Sched
<1>4. ConfigureTagTo(S, tag, config).iDeficit = S.iDeficit
  <2>1. ConfigureTagTo(S, tag, config) = [T EXCEPT !.Config[tag] = config]
    BY <1>1 DEF ConfigureTagTo, TagConfig
  <2>2. [T EXCEPT !.Config[tag] = config].iDeficit = T.iDeficit BY <1>2 DEF Sched
  <2> QED BY <1>3, <2>1, <2>2
<1>5. Pop(S, tag).sched.iDeficit = S.iDeficit BY DEF Pop, Sched
<1>6. sched_task_done(S, tag).sched.iDeficit = S.iDeficit BY DEF sched_task_done, Sched
<1>7. PICK r : r = sched_enqueue(S, tag, task) OBVIOUS
<1>8. r.sched.iDeficit = T.iDeficit
  <2>1. PICK full : full = (/\ T.Config[tag].iMaxQueue # 0
                            /\ Len(T.Queue[tag]) >= T.Config[tag].iMaxQueue)
    OBVIOUS
  <2>2. r = IF full /\ T.Config[tag].OverflowPolicy = "Reject"
            THEN [sched |-> T, bAccepted |-> FALSE, dropped |-> <<>>]
            ELSE IF full
            THEN [sched     |-> [T EXCEPT !.Queue[tag] = Append(Tail(@), task)],
                  bAccepted |-> TRUE,
                  dropped   |-> <<Head(T.Queue[tag])>>]
            ELSE [sched     |-> [T EXCEPT !.Queue[tag] = Append(@, task),
                                          !.m_iTotalQueued = @ + 1],
                  bAccepted |-> TRUE,
                  dropped   |-> <<>>]
    BY <1>1, <1>7, <2>1 DEF sched_enqueue
  <2> QED BY <1>2, <2>2 DEF Sched
<1> QED BY <1>1, <1>3, <1>4, <1>5, <1>6, <1>7, <1>8

\* A visit of the scan spends at most the quantum it finds or charges, and the tags it
\* passes over forfeit theirs.
LEMMA RoundRobinQuantum ==
    ASSUME NEW S \in Sched, WithinQuantum(S), S.m_iTotalQueued # 0
    PROVE  LET R == DeficitRoundRobin(S).sched IN
           \A t \in Tag : R.iDeficit[t] \in 0 .. S.Config[t].iWeight
<1> DEFINE n       == Len(S.m_TagOrder)
           hits    == {i \in 0 .. n - 1 : Serviceable(S, TagAt(S, i))}
           first   == CHOOSE i \in hits : \A j \in hits : i <= j
           tag     == TagAt(S, first)
           passed  == {TagAt(S, i) : i \in 0 .. first - 1}
           charged == Charged(S, tag)
           popped  == Pop(S, tag)
           stays   == charged - 1 >= 1 /\ Serviceable(popped.sched, tag)
           none    == [S EXCEPT !.iDeficit =
                        [t \in Tag |-> IF t \in Registered(S) THEN 0 ELSE @[t]]]
           served  == [popped.sched EXCEPT
                        !.iDeficit = [t \in Tag |-> CASE t \in passed -> 0
                                                      [] t = tag -> charged - 1
                                                      [] OTHER -> @[t]],
                        !.m_iTagCursor = (@ + first + (IF stays THEN 0 ELSE 1)) % n]
<1>1. S.Config \in [Tag -> TagConfig] /\ S.iDeficit \in [Tag -> Int] /\ n \in Nat
  BY SchedFields, LenProperties
<1>2. ASSUME NEW t \in Tag
      PROVE  /\ S.Config[t].iWeight \in Nat \ {0} /\ 0 \in 0 .. S.Config[t].iWeight
             /\ S.iDeficit[t] \in 0 .. S.Config[t].iWeight
  <2>1. S.Config[t].iWeight \in Nat \ {0} BY <1>1 DEF TagConfig
  <2> QED BY <2>1 DEF WithinQuantum
<1>3. CASE hits = {}
  <2>1. DeficitRoundRobin(S) = [bFound |-> FALSE, sched |-> none]
    BY <1>3 DEF DeficitRoundRobin, Nothing
  <2>2. none.iDeficit = [t \in Tag |-> IF t \in Registered(S) THEN 0 ELSE S.iDeficit[t]]
    BY DEF Sched
  <2> HIDE DEF none
  <2>3. DeficitRoundRobin(S).sched = none BY <2>1
  <2> QED BY <1>2, <2>2, <2>3
<1>4. CASE hits # {}
  <2>1. first \in hits /\ \A j \in hits : first <= j
    <3>1. hits \in SUBSET Nat BY <1>1
    <3>2. \E i \in hits : \A j \in hits : i <= j
      <4> HIDE DEF hits
      <4> QED BY <1>4, <3>1, LeastElement
    <3> HIDE DEF hits
    <3> QED BY <3>2
  <2>2. first \in 0 .. n - 1 /\ n # 0
    <3> HIDE DEF first, n
    <3> QED BY <1>1, <2>1
  <2>3. tag \in Tag
    <3> HIDE DEF first
    <3> QED BY <1>1, <2>2, TagAtType
  <2>4. tag \notin passed
    <3> SUFFICES ASSUME NEW i \in 0 .. first - 1, tag = TagAt(S, i) PROVE FALSE
      OBVIOUS
    <3>1. Serviceable(S, TagAt(S, i)) BY <2>1
    <3> HIDE DEF first, n
    <3>2. i \in 0 .. n - 1 /\ ~(first <= i) BY <1>1, <2>2
    <3> QED BY <2>1, <3>1, <3>2
  <2>5. DeficitRoundRobin(S) = [popped EXCEPT !.sched = served]
    BY <1>4 DEF DeficitRoundRobin
  <2> HIDE DEF tag, first
  <2>6. popped = [bFound |-> TRUE, tag |-> tag, task |-> popped.task, sched |-> popped.sched]
    BY DEF Pop
  <2>7. popped.sched.iDeficit = S.iDeficit
    <3>1. S.Config[tag] \in TagConfig BY <1>1, <2>3
    <3> QED BY <2>3, <3>1, DeficitsKept
  <2>8. charged - 1 \in 0 .. S.Config[tag].iWeight
    <3>1. PICK w \in Nat \ {0}, d \in Int : w = S.Config[tag].iWeight /\ d = S.iDeficit[tag]
      BY <1>1, <1>2, <2>3
    <3>2. d \in 0 .. w BY <1>2, <2>3, <3>1
    <3>3. charged = IF d < 1 THEN d + w ELSE d BY <3>1 DEF Charged
    <3> HIDE DEF charged
    <3> QED BY <3>1, <3>2, <3>3
  <2> HIDE DEF popped, charged, stays, passed, n
  <2>9. PICK d : d = [t \in Tag |-> CASE t \in passed -> 0
                                      [] t = tag -> charged - 1
                                      [] OTHER -> popped.sched.iDeficit[t]]
    OBVIOUS
  <2>10. \A t \in Tag : d[t] \in 0 .. S.Config[t].iWeight
    <3> SUFFICES ASSUME NEW t \in Tag PROVE d[t] \in 0 .. S.Config[t].iWeight
      OBVIOUS
    <3>1. CASE t \in passed
      <4>1. d[t] = 0 BY <2>4, <2>9, <3>1
      <4> QED BY <1>2, <4>1
    <3>2. CASE t = tag
      <4>1. d[t] = charged - 1 BY <2>4, <2>9, <3>2
      <4> QED BY <2>8, <3>2, <4>1
    <3>3. CASE t \notin passed /\ t # tag
      <4>1. d[t] = S.iDeficit[t] BY <2>7, <2>9, <3>3
      <4> QED BY <1>2, <4>1
    <3> QED BY <3>1, <3>2, <3>3
  <2>11. served.iDeficit = d
    <3>1. popped.sched \in Sched
      <4>1. S.Queue[tag] # <<>> BY <2>1 DEF Serviceable, tag
      <4> QED BY <2>3, <4>1, PopType DEF popped
    <3> QED BY <2>9, <3>1 DEF Sched
  <2>12. DeficitRoundRobin(S).sched = served
    <3> HIDE DEF served
    <3> QED BY <2>5, <2>6
  <2> QED BY <2>10, <2>11, <2>12
<1> QED BY <1>3, <1>4

\* A dequeue starts every visit to a tag with at most one quantum and ends it with no debt.
LEMMA DequeueQuantum ==
    ASSUME NEW S \in Sched, WithinQuantum(S)
    PROVE  WithinQuantum(sched_dequeue(S).sched)
<1>1. S.m_TagOrder \in Seq(Tag) /\ \A t \in Tag : S.Config[t] \in TagConfig
  BY SchedFields
<1>2. Nothing(S).sched = S BY DEF Nothing
<1>3. CASE S.m_bQueuePaused \/ S.m_iTotalQueued = 0
  BY <1>2, <1>3 DEF sched_dequeue
<1>4. CASE ~(S.m_bQueuePaused \/ S.m_iTotalQueued = 0) /\ Len(S.m_TagOrder) = 1
  <2>1. PICK tag \in Tag : tag = S.m_TagOrder[1] BY <1>1, <1>4, ElementOfSeq
  <2>2. CASE Serviceable(S, tag)
    <3>1. PICK r : r = Pop(S, tag) OBVIOUS
    <3>2. r.sched.Config = S.Config BY <3>1 DEF Pop, Sched
    <3>3. r.sched.iDeficit = S.iDeficit BY <1>1, <3>1, DeficitsKept
    <3>4. sched_dequeue(S) = r BY <1>4, <2>1, <2>2, <3>1 DEF sched_dequeue
    <3> QED BY <3>2, <3>3, <3>4 DEF WithinQuantum
  <2>3. CASE ~Serviceable(S, tag)
    BY <1>2, <1>4, <2>1, <2>3 DEF sched_dequeue
  <2> QED BY <2>2, <2>3
<1>5. CASE ~(S.m_bQueuePaused \/ S.m_iTotalQueued = 0) /\ Len(S.m_TagOrder) # 1
  <2>1. PICK r : r = DeficitRoundRobin(S) OBVIOUS
  <2>2. r.sched.Config = S.Config BY <1>5, <2>1, RoundRobinType DEF DequeueOK
  <2>3. \A t \in Tag : r.sched.iDeficit[t] \in 0 .. S.Config[t].iWeight
    BY <1>5, <2>1, RoundRobinQuantum
  <2>4. sched_dequeue(S) = r BY <1>5, <2>1 DEF sched_dequeue
  <2> QED BY <2>2, <2>3, <2>4 DEF WithinQuantum
<1> QED BY <1>3, <1>4, <1>5

\* The other functions of the scheduler: ConfigureTag must not lower a weight in mid-turn.
LEMMA EnqueueQuantum ==
    ASSUME NEW S \in Sched, WithinQuantum(S), NEW tag \in Tag, NEW task \in Task
    PROVE  WithinQuantum(sched_enqueue(S, tag, task).sched)
<1>1. PICK r : r = sched_enqueue(S, tag, task) OBVIOUS
<1>2. S.Config[tag] \in TagConfig BY SchedFields
<1>3. r.sched.iDeficit = S.iDeficit BY <1>1, <1>2, DeficitsKept
<1>4. r.sched.Config = S.Config BY <1>1, EnqueueType
<1> QED BY <1>1, <1>3, <1>4 DEF WithinQuantum

LEMMA TaskDoneQuantum ==
    ASSUME NEW S \in Sched, WithinQuantum(S), NEW tag \in Tag
    PROVE  WithinQuantum(sched_task_done(S, tag).sched)
<1>1. PICK r : r = sched_task_done(S, tag) OBVIOUS
<1>2. S.Config[tag] \in TagConfig BY SchedFields
<1>3. r.sched.iDeficit = S.iDeficit BY <1>1, <1>2, DeficitsKept
<1>4. r.sched.Config = S.Config BY <1>1, TaskDoneType
<1> QED BY <1>1, <1>3, <1>4 DEF WithinQuantum

LEMMA ConfigureTagQuantum ==
    ASSUME NEW S \in Sched, WithinQuantum(S), NEW tag \in Tag, NEW config \in TagConfig,
           S.Config[tag].iWeight <= config.iWeight
    PROVE  WithinQuantum(ConfigureTagTo(S, tag, config))
<1>1. PICK R : R = ConfigureTagTo(S, tag, config) OBVIOUS
<1>2. R.iDeficit = S.iDeficit BY <1>1, DeficitsKept
<1>3. R.Config = [S.Config EXCEPT ![tag] = config] BY <1>1, ConfigureTagType
<1>4. S.Config \in [Tag -> TagConfig] BY SchedFields
<1>5. ASSUME NEW t \in Tag PROVE R.iDeficit[t] \in 0 .. R.Config[t].iWeight
  <2>1. /\ S.Config[t].iWeight \in Nat /\ config.iWeight \in Nat
        /\ S.iDeficit[t] \in 0 .. S.Config[t].iWeight
    BY <1>4 DEF TagConfig, WithinQuantum
  <2>2. R.Config[t].iWeight = IF t = tag THEN config.iWeight ELSE S.Config[t].iWeight
    BY <1>3, <1>4
  <2> QED BY <1>2, <2>1, <2>2
<1> QED BY <1>1, <1>5 DEF WithinQuantum

LEMMA NoDeficit ==
    ASSUME NEW S \in Sched, S.iDeficit = [t \in Tag |-> 0]
    PROVE  WithinQuantum(S)
<1> SUFFICES ASSUME NEW t \in Tag PROVE S.iDeficit[t] \in 0 .. S.Config[t].iWeight
  BY DEF WithinQuantum
<1>1. S.Config[t].iWeight \in Nat BY SchedFields DEF TagConfig
<1>2. S.iDeficit[t] = 0 OBVIOUS
<1> QED BY <1>1, <1>2

-----------------------------------------------------------------------------
\* The order of the scan

\* A tag has one place in the order, and the cursor is at one of them.
Scannable(S) ==
    /\ \A i, j \in 1 .. Len(S.m_TagOrder) : S.m_TagOrder[i] = S.m_TagOrder[j] => i = j
    /\ S.m_iTagCursor < Len(S.m_TagOrder) \/ S.m_iTagCursor = 0

\* Reducing the cursor first makes no difference to what it points at later.
LEMMA ModAdd ==
    ASSUME NEW n \in Nat \ {0}, NEW x \in Nat, NEW j \in Nat
    PROVE  ((x % n) + j) % n = (x + j) % n
<1>1. PICK q \in Nat : x = q * n + (x % n) /\ x % n \in 0 .. n - 1 BY Quotient
<1>2. PICK r \in 0 .. n - 1 : r = x % n BY <1>1
<1>3. PICK y \in Nat : y = r + j
  <2>1. r \in Nat BY <1>2
  <2> QED BY <2>1
<1>4. PICK p \in Nat : y = p * n + (y % n) /\ y % n \in 0 .. n - 1 BY <1>3, Quotient
<1>5. PICK m \in 0 .. n - 1 : m = y % n BY <1>4
<1>6. ((q + p) * n + m) % n = m
  <2>1. q + p \in Nat BY <1>1, <1>4
  <2> QED BY <1>5, <2>1, Remainder
<1>7. x + j = (q + p) * n + m BY <1>1, <1>2, <1>3, <1>4, <1>5, Z3
<1> QED BY <1>2, <1>3, <1>5, <1>6, <1>7

\* Two numbers less than n apart that leave the same remainder are equal.
LEMMA SameRemainder ==
    ASSUME NEW n \in Nat \ {0}, NEW x \in Nat, NEW i \in 0 .. n - 1, NEW j \in 0 .. n - 1,
           (x + i) % n = (x + j) % n
    PROVE  i = j
<1>1. x + i \in Nat /\ x + j \in Nat OBVIOUS
<1>2. PICK q \in Nat : x + i = q * n + ((x + i) % n) BY <1>1, Quotient
<1>3. PICK d \in Nat : x + j = d * n + ((x + j) % n) BY <1>1, Quotient
<1>4. PICK m \in Nat : m = (x + i) % n BY <1>1, Quotient
<1>5. (q - d) * n = i - j BY <1>2, <1>3, <1>4, Z3
<1>6. -n < (q - d) * n /\ (q - d) * n < n BY <1>5
<1>7. q = d BY <1>6, MultipleBelow
<1> QED BY <1>5, <1>7, Z3

\* Where the scan looks after the turn has moved on by e places.
LEMMA TagAtMoved ==
    ASSUME NEW S \in Sched, NEW R, Len(S.m_TagOrder) # 0, NEW e \in Nat, NEW j \in Nat,
           R.m_TagOrder = S.m_TagOrder,
           R.m_iTagCursor = (S.m_iTagCursor + e) % Len(S.m_TagOrder)
    PROVE  TagAt(R, j) = TagAt(S, e + j)
<1>1. PICK n \in Nat \ {0} : n = Len(S.m_TagOrder) BY SchedFields, LenProperties
<1>2. PICK c \in Nat : c = S.m_iTagCursor BY SchedFields
<1>3. c + e \in Nat /\ (c + e) + j = c + (e + j) OBVIOUS
<1>4. (((c + e) % n) + j) % n = ((c + e) + j) % n BY <1>3, ModAdd
<1>5. (((c + e) % n) + j) % n = (c + (e + j)) % n BY <1>3, <1>4
<1> QED BY <1>1, <1>2, <1>5 DEF TagAt

\* After n places the scan is back where it was.
LEMMA TagAtPeriodic ==
    ASSUME NEW S \in Sched, Len(S.m_TagOrder) # 0, NEW j \in Nat
    PROVE  TagAt(S, j + Len(S.m_TagOrder)) = TagAt(S, j)
<1>1. PICK n \in Nat \ {0} : n = Len(S.m_TagOrder) BY SchedFields, LenProperties
<1>2. PICK x \in Nat : x = S.m_iTagCursor + j BY SchedFields
<1>3. PICK q \in Nat : x = q * n + (x % n) /\ x % n \in 0 .. n - 1 BY Quotient
<1>4. PICK m \in 0 .. n - 1 : m = x % n BY <1>3
<1>5. ((q + 1) * n + m) % n = m BY Remainder
<1>6. x + n = (q + 1) * n + m BY <1>3, <1>4, Z3
<1>7. (x + n) % n = x % n BY <1>4, <1>5, <1>6
<1>8. S.m_iTagCursor \in Nat BY SchedFields
<1>9. S.m_iTagCursor + (j + n) = x + n BY <1>2, <1>8
<1> QED BY <1>1, <1>2, <1>7, <1>9 DEF TagAt

\* One round of the scan does not look at a tag twice.
LEMMA TagAtOnce ==
    ASSUME NEW S \in Sched, Scannable(S), NEW i \in 0 .. Len(S.m_TagOrder) - 1,
           NEW j \in 0 .. Len(S.m_TagOrder) - 1, TagAt(S, i) = TagAt(S, j)
    PROVE  i = j
<1>1. PICK n \in Nat \ {0} : n = Len(S.m_TagOrder) BY SchedFields, LenProperties
<1>2. PICK x \in Nat : x = S.m_iTagCursor BY SchedFields
<1>3. \A a \in Nat : (a % n) + 1 \in 1 .. n OBVIOUS
<1>4. PICK a \in 1 .. n : a = ((x + i) % n) + 1
  <2>1. x + i \in Nat BY <1>1
  <2> QED BY <1>3, <2>1
<1>5. PICK b \in 1 .. n : b = ((x + j) % n) + 1
  <2>1. x + j \in Nat BY <1>1
  <2> QED BY <1>3, <2>1
<1>6. S.m_TagOrder[a] = S.m_TagOrder[b] BY <1>1, <1>2, <1>4, <1>5 DEF TagAt
<1>7. a = b BY <1>1, <1>6 DEF Scannable
<1>8. (x + i) % n = (x + j) % n
  <2>1. (x + i) % n \in Int /\ (x + j) % n \in Int BY <1>1
  <2> QED BY <1>4, <1>5, <1>7, <2>1
<1> QED BY <1>1, <1>8, SameRemainder

\* Only the round robin moves the cursor, and only sched_tag changes the order.
LEMMA CursorKept ==
    ASSUME NEW S \in Sched, NEW tag \in Tag, NEW task, NEW config \in TagConfig
    PROVE  /\ sched_tag(S, tag).m_iTagCursor = S.m_iTagCursor
           /\ sched_enqueue(S, tag, task).sched.m_iTagCursor = S.m_iTagCursor
           /\ sched_task_done(S, tag).sched.m_iTagCursor = S.m_iTagCursor
           /\ ConfigureTagTo(S, tag, config).m_iTagCursor = S.m_iTagCursor
           /\ ConfigureTagTo(S, tag, config).m_TagOrder = sched_tag(S, tag).m_TagOrder
           /\ Pop(S, tag).sched.m_iTagCursor = S.m_iTagCursor
           /\ Cleared(S).m_iTagCursor = S.m_iTagCursor
<1>1. PICK T : T = sched_tag(S, tag) OBVIOUS
<1>2. T \in Sched BY <1>1, TagType
<1>3. T.m_iTagCursor = S.m_iTagCursor BY <1>1 DEF sched_tag, Sched
<1>4. /\ ConfigureTagTo(S, tag, config).m_iTagCursor = S.m_iTagCursor
      /\ ConfigureTagTo(S, tag, config).m_TagOrder = T.m_TagOrder
  <2>1. ConfigureTagTo(S, tag, config) = [T EXCEPT !.Config[tag] = config]
    BY <1>1 DEF ConfigureTagTo, TagConfig
  <2>2. PICK X : X = [T EXCEPT !.Config[tag] = config] OBVIOUS
  <2>3. X.m_iTagCursor = T.m_iTagCursor /\ X.m_TagOrder = T.m_TagOrder
    BY <1>2, <2>2 DEF Sched
  <2> QED BY <1>3, <2>1, <2>2, <2>3
<1>5. Pop(S, tag).sched.m_iTagCursor = S.m_iTagCursor BY DEF Pop, Sched
<1>6. sched_task_done(S, tag).sched.m_iTagCursor = S.m_iTagCursor
  BY DEF sched_task_done, Sched
<1>7. Cleared(S).m_iTagCursor = S.m_iTagCursor BY DEF Cleared, Sched
<1>8. PICK r : r = sched_enqueue(S, tag, task) OBVIOUS
<1>9. r.sched.m_iTagCursor = T.m_iTagCursor
  <2>1. PICK full : full = (/\ T.Config[tag].iMaxQueue # 0
                            /\ Len(T.Queue[tag]) >= T.Config[tag].iMaxQueue)
    OBVIOUS
  <2>2. r = IF full /\ T.Config[tag].OverflowPolicy = "Reject"
            THEN [sched |-> T, bAccepted |-> FALSE, dropped |-> <<>>]
            ELSE IF full
            THEN [sched     |-> [T EXCEPT !.Queue[tag] = Append(Tail(@), task)],
                  bAccepted |-> TRUE,
                  dropped   |-> <<Head(T.Queue[tag])>>]
            ELSE [sched     |-> [T EXCEPT !.Queue[tag] = Append(@, task),
                                          !.m_iTotalQueued = @ + 1],
                  bAccepted |-> TRUE,
                  dropped   |-> <<>>]
    BY <1>1, <1>8, <2>1 DEF sched_enqueue
  <2> QED BY <1>2, <2>2 DEF Sched
<1> QED BY <1>1, <1>3, <1>4, <1>5, <1>6, <1>7, <1>8, <1>9

\* A weight of 0 is as good as a weight of 1.
LEMMA ClampedConfig ==
    ASSUME NEW S, NEW tag, NEW config \in AnyConfig
    PROVE  \E c \in TagConfig : /\ ConfigureTagTo(S, tag, config) = ConfigureTagTo(S, tag, c)
                                /\ c.iMaxConcurrency = config.iMaxConcurrency
<1> PICK c : c = IF config.iWeight = 0 THEN [config EXCEPT !.iWeight = 1] ELSE config
  OBVIOUS
<1>1. c \in TagConfig /\ c.iWeight # 0 /\ c.iMaxConcurrency = config.iMaxConcurrency
  BY DEF AnyConfig, TagConfig
<1>2. ConfigureTagTo(S, tag, config) = [sched_tag(S, tag) EXCEPT !.Config[tag] = c]
  BY DEF ConfigureTagTo
<1>3. ConfigureTagTo(S, tag, c) = [sched_tag(S, tag) EXCEPT !.Config[tag] = c]
  BY <1>1 DEF ConfigureTagTo
<1> QED BY <1>1, <1>2, <1>3

\* Registering a tag gives it the place behind all others, if it has none.
LEMMA TagOrderGrows ==
    ASSUME NEW S \in Sched, NEW tag \in Tag
    PROVE  LET o == S.m_TagOrder
               p == sched_tag(S, tag).m_TagOrder
           IN  IF tag \in Registered(S) THEN p = o
               ELSE /\ p \in Seq(Tag) /\ Len(p) = Len(o) + 1 /\ p[Len(o) + 1] = tag
                    /\ \A i \in 1 .. Len(o) : p[i] = o[i] /\ o[i] # tag
<1>1. CASE tag \in Registered(S) BY <1>1 DEF sched_tag
<1>2. CASE tag \notin Registered(S)
  <2>1. PICK o \in Seq(Tag) : o = S.m_TagOrder BY SchedFields
  <2>2. PICK p : p = Append(o, tag) OBVIOUS
  <2>3. sched_tag(S, tag).m_TagOrder = p BY <1>2, <2>1, <2>2 DEF sched_tag, Sched
  <2>4. p \in Seq(Tag) /\ Len(p) = Len(o) + 1 /\ p[Len(o) + 1] = tag
    BY <2>1, <2>2, AppendProperties
  <2>5. \A i \in 1 .. Len(o) : p[i] = o[i]
    BY <2>1, <2>2, AppendProperties
  <2>6. \A i \in 1 .. Len(o) : o[i] # tag BY <1>2, <2>1 DEF Registered
  <2> QED BY <1>2, <2>1, <2>3, <2>4, <2>5, <2>6
<1> QED BY <1>1, <1>2

\* What keeps the order and the cursor, or registers a tag, leaves the scan in order.
LEMMA SameScan ==
    ASSUME NEW S, Scannable(S), NEW R, R.m_TagOrder = S.m_TagOrder,
           R.m_iTagCursor = S.m_iTagCursor
    PROVE  Scannable(R)
BY DEF Scannable

\* Registering a tag at the end of the order keeps every place and the cursor valid.
LEMMA LongerScan ==
    ASSUME NEW S \in Sched, Scannable(S), NEW tag \in Tag, NEW R,
           R.m_TagOrder = sched_tag(S, tag).m_TagOrder, R.m_iTagCursor = S.m_iTagCursor
    PROVE  Scannable(R)
<1>1. CASE tag \in Registered(S) BY <1>1, TagOrderGrows, SameScan
<1>2. CASE tag \notin Registered(S)
  <2>1. PICK o \in Seq(Tag), p \in Seq(Tag) : o = S.m_TagOrder /\ p = R.m_TagOrder
    BY <1>2, SchedFields, TagOrderGrows
  <2>2. PICK n \in Nat : n = Len(o) BY <2>1, LenProperties
  <2>3. Len(p) = n + 1 /\ p[n + 1] = tag /\ \A i \in 1 .. n : p[i] = o[i] /\ o[i] # tag
    BY <1>2, <2>1, <2>2, TagOrderGrows
  <2>4. ASSUME NEW i \in 1 .. n + 1, NEW j \in 1 .. n + 1, p[i] = p[j] PROVE i = j
    <3>1. CASE i \in 1 .. n /\ j \in 1 .. n
      BY <2>1, <2>2, <2>3, <2>4, <3>1 DEF Scannable
    <3>2. CASE i = n + 1 /\ j \in 1 .. n BY <2>3, <2>4, <3>2
    <3>3. CASE j = n + 1 /\ i \in 1 .. n BY <2>3, <2>4, <3>3
    <3> QED BY <2>2, <3>1, <3>2, <3>3
  <2>5. S.m_iTagCursor < n + 1 \/ S.m_iTagCursor = 0
    <3>1. S.m_iTagCursor \in Nat BY SchedFields
    <3> QED BY <2>1, <2>2, <3>1 DEF Scannable
  <2> QED BY <2>1, <2>3, <2>4, <2>5 DEF Scannable
<1> QED BY <1>1, <1>2

-----------------------------------------------------------------------------
\* What the round robin does to the turn

\* The scan passes over f tags that cannot be served, charges the next one, serves a task
\* of it, and stays with it (moved = 0) or hands the turn on (moved = 1).
Visit(S, r, f, moved) ==
    /\ r.bFound /\ f \in 0 .. Len(S.m_TagOrder) - 1 /\ moved \in {0, 1}
    /\ r.tag = TagAt(S, f) /\ r.tag \in Tag /\ Serviceable(S, r.tag)
    /\ \A i \in 0 .. f - 1 : ~Serviceable(S, TagAt(S, i))
    /\ r.sched.m_TagOrder = S.m_TagOrder
    /\ r.sched.m_iTagCursor = (S.m_iTagCursor + (f + moved)) % Len(S.m_TagOrder)
    /\ r.sched.iDeficit[r.tag] = Charged(S, r.tag) - 1
    /\ \A u \in Tag : u # r.tag =>
         \/ r.sched.iDeficit[u] = S.iDeficit[u]
         \/ r.sched.iDeficit[u] = 0 /\ \E i \in 0 .. f - 1 : TagAt(S, i) = u
    /\ moved = 0 <=> Charged(S, r.tag) - 1 >= 1 /\ Serviceable(r.sched, r.tag)

\* What DeficitRoundRobin does when it finds a task: one visit.
LEMMA RoundRobinVisit ==
    ASSUME NEW S \in Sched, S.m_iTotalQueued # 0
    PROVE  LET r == DeficitRoundRobin(S) IN
           \/ \E f, moved \in Nat : Visit(S, r, f, moved)
           \/ /\ ~r.bFound /\ r.sched.m_TagOrder = S.m_TagOrder
              /\ r.sched.m_iTagCursor = S.m_iTagCursor
<1> DEFINE n       == Len(S.m_TagOrder)
           hits    == {i \in 0 .. n - 1 : Serviceable(S, TagAt(S, i))}
           first   == CHOOSE i \in hits : \A j \in hits : i <= j
           tag     == TagAt(S, first)
           passed  == {TagAt(S, i) : i \in 0 .. first - 1}
           charged == Charged(S, tag)
           popped  == Pop(S, tag)
           stays   == charged - 1 >= 1 /\ Serviceable(popped.sched, tag)
           none    == [S EXCEPT !.iDeficit =
                        [t \in Tag |-> IF t \in Registered(S) THEN 0 ELSE @[t]]]
           served  == [popped.sched EXCEPT
                        !.iDeficit = [t \in Tag |-> CASE t \in passed -> 0
                                                      [] t = tag -> charged - 1
                                                      [] OTHER -> @[t]],
                        !.m_iTagCursor = (@ + first + (IF stays THEN 0 ELSE 1)) % n]
<1>1. S.Config \in [Tag -> TagConfig] /\ S.iDeficit \in [Tag -> Int] /\ n \in Nat
  BY SchedFields, LenProperties
<1>3. CASE hits = {}
  <2>1. DeficitRoundRobin(S) = [bFound |-> FALSE, sched |-> none]
    BY <1>3 DEF DeficitRoundRobin, Nothing
  <2>2. none.m_TagOrder = S.m_TagOrder /\ none.m_iTagCursor = S.m_iTagCursor
    BY DEF Sched
  <2> HIDE DEF none
  <2>3. DeficitRoundRobin(S).sched = none /\ ~DeficitRoundRobin(S).bFound BY <2>1
  <2> QED BY <2>2, <2>3
<1>4. CASE hits # {}
  <2>1. first \in hits /\ \A j \in hits : first <= j
    <3>1. hits \in SUBSET Nat BY <1>1
    <3>2. \E i \in hits : \A j \in hits : i <= j
      <4> HIDE DEF hits
      <4> QED BY <1>4, <3>1, LeastElement
    <3> HIDE DEF hits
    <3> QED BY <3>2
  <2>2. first \in 0 .. n - 1 /\ n # 0
    <3> HIDE DEF first, n
    <3> QED BY <1>1, <2>1
  <2>3. tag \in Tag
    <3> HIDE DEF first
    <3> QED BY <1>1, <2>2, TagAtType
  <2>4. Serviceable(S, tag) BY <2>1
  <2>5. \A i \in 0 .. first - 1 : ~Serviceable(S, TagAt(S, i))
    <3> SUFFICES ASSUME NEW i \in 0 .. first - 1, Serviceable(S, TagAt(S, i)) PROVE FALSE
      OBVIOUS
    <3>1. i \in 0 .. n - 1 /\ ~(first <= i)
      <4> HIDE DEF first, n
      <4> QED BY <1>1, <2>2
    <3>2. i \in hits BY <3>1
    <3> HIDE DEF first, hits
    <3> QED BY <2>1, <3>1, <3>2
  <2>6. tag \notin passed BY <2>4, <2>5
  <2>7. DeficitRoundRobin(S) = [popped EXCEPT !.sched = served]
    BY <1>4 DEF DeficitRoundRobin
  <2>8. PICK r : r = DeficitRoundRobin(S) OBVIOUS
  <2>9. PICK f \in Nat : f = first /\ f \in 0 .. n - 1
    <3> HIDE DEF first, n
    <3> QED BY <1>1, <2>2
  <2>10. PICK moved \in {0, 1} : moved = IF stays THEN 0 ELSE 1 OBVIOUS
  <2>11. \A u \in Tag : u \in passed <=> \E i \in 0 .. f - 1 : TagAt(S, i) = u
    BY <2>9
  <2>12. popped.sched.iDeficit = S.iDeficit
    <3>1. S.Config[tag] \in TagConfig BY <1>1, <2>3
    <3> HIDE DEF tag
    <3> QED BY <2>3, <3>1, DeficitsKept
  <2>13. popped.sched.m_iTagCursor = S.m_iTagCursor
    <3>1. S.Config[tag] \in TagConfig BY <1>1, <2>3
    <3> HIDE DEF tag
    <3> QED BY <2>3, <3>1, CursorKept
  <2>14. tag = TagAt(S, f) BY <2>9
  <2> HIDE DEF tag, first
  <2>15. popped.sched \in Sched /\ popped.sched.m_TagOrder = S.m_TagOrder
    <3>1. S.Queue[tag] # <<>> BY <2>4 DEF Serviceable
    <3>2. popped.sched \in Sched BY <2>3, <3>1, PopType DEF popped
    <3>3. popped.sched.m_TagOrder = S.m_TagOrder BY DEF Pop, Sched
    <3> QED BY <3>2, <3>3
  <2>16. popped = [bFound |-> TRUE, tag |-> tag, task |-> popped.task, sched |-> popped.sched]
    BY DEF Pop
  <2> HIDE DEF popped, charged, passed, n
  <2>17. PICK d : d = [t \in Tag |-> CASE t \in passed -> 0
                                       [] t = tag -> charged - 1
                                       [] OTHER -> popped.sched.iDeficit[t]]
    OBVIOUS
  <2>18. /\ served.iDeficit = d /\ served.m_TagOrder = S.m_TagOrder
         /\ served.m_iTagCursor = (S.m_iTagCursor + f + moved) % n
         /\ served.Queue = popped.sched.Queue /\ served.Config = popped.sched.Config
         /\ served.iRunning = popped.sched.iRunning
    BY <2>9, <2>10, <2>13, <2>15, <2>17 DEF Sched
  <2>19. Serviceable(served, tag) <=> Serviceable(popped.sched, tag)
    <3> HIDE DEF served
    <3> QED BY <2>18 DEF Serviceable, BelowCap
  <2> HIDE DEF served
  <2>20. r.bFound /\ r.tag = tag /\ r.sched = served BY <2>7, <2>8, <2>16
  <2>21. moved = 0 <=> charged - 1 >= 1 /\ Serviceable(served, tag) BY <2>10, <2>19
  <2>22. d[tag] = charged - 1 BY <2>3, <2>6, <2>17
  <2>23. ASSUME NEW u \in Tag, u # tag
         PROVE  \/ d[u] = S.iDeficit[u]
                \/ d[u] = 0 /\ \E i \in 0 .. f - 1 : TagAt(S, i) = u
    <3>1. CASE u \in passed
      <4>1. d[u] = 0 BY <2>6, <2>17, <2>23, <3>1
      <4> QED BY <2>11, <3>1, <4>1
    <3>2. CASE u \notin passed
      <4>1. d[u] = popped.sched.iDeficit[u] BY <2>17, <2>23, <3>2
      <4> QED BY <2>12, <4>1
    <3> QED BY <3>1, <3>2
  <2>24. (S.m_iTagCursor + f) + moved = S.m_iTagCursor + (f + moved)
    <3>1. S.m_iTagCursor \in Nat BY SchedFields
    <3> QED BY <2>9, <2>10, <3>1
  <2>25. r.sched.m_iTagCursor = (S.m_iTagCursor + (f + moved)) % n
    BY <2>18, <2>20, <2>24
  <2>26. \A i \in 0 .. f - 1 : ~Serviceable(S, TagAt(S, i)) BY <2>5, <2>9
  <2>27. Visit(S, r, f, moved)
    BY <2>3, <2>4, <2>9, <2>14, <2>18, <2>20, <2>21, <2>22, <2>23, <2>25, <2>26
    DEF Visit, charged, n
  <2>28. moved \in Nat BY <2>10
  <2> QED BY <2>8, <2>9, <2>27, <2>28
<1> QED BY <1>3, <1>4

\* A dequeue that finds a task either visits a tag of the round robin, or takes it from
\* the only tag there is.
LEMMA DequeueVisit ==
    ASSUME NEW S \in Sched
    PROVE  LET r == sched_dequeue(S) IN
           \/ \E f, moved \in Nat : Visit(S, r, f, moved)
           \/ /\ r.sched.m_TagOrder = S.m_TagOrder
              /\ r.sched.m_iTagCursor = S.m_iTagCursor
              /\ r.bFound => /\ Registered(S) = {r.tag}
                             /\ r.sched.iDeficit = S.iDeficit
<1>1. \/ Nothing(S).bFound = FALSE /\ Nothing(S).sched = S
      \/ FALSE
  BY DEF Nothing
<1>2. CASE S.m_bQueuePaused \/ S.m_iTotalQueued = 0
  BY <1>1, <1>2 DEF sched_dequeue
<1>3. CASE ~(S.m_bQueuePaused \/ S.m_iTotalQueued = 0) /\ Len(S.m_TagOrder) = 1
  <2>1. PICK tag \in Tag : tag = S.m_TagOrder[1] BY <1>3, SchedFields, ElementOfSeq
  <2>2. CASE Serviceable(S, tag)
    <3>1. PICK r : r = Pop(S, tag) OBVIOUS
    <3>2. r.sched.m_TagOrder = S.m_TagOrder /\ r.tag = tag BY <3>1 DEF Pop, Sched
    <3>3. PICK config \in TagConfig : config = S.Config[tag] BY SchedFields
    <3>4. r.sched.iDeficit = S.iDeficit BY <3>1, <3>3, DeficitsKept
    <3>5. r.sched.m_iTagCursor = S.m_iTagCursor BY <3>1, <3>3, CursorKept
    <3>6. Registered(S) = {tag}
      <4>1. 1 .. Len(S.m_TagOrder) = {1} BY <1>3
      <4> QED BY <2>1, <4>1 DEF Registered
    <3>7. sched_dequeue(S) = r BY <1>3, <2>1, <2>2, <3>1 DEF sched_dequeue
    <3> QED BY <3>2, <3>4, <3>5, <3>6, <3>7
  <2>3. CASE ~Serviceable(S, tag)
    BY <1>1, <1>3, <2>1, <2>3 DEF sched_dequeue
  <2> QED BY <2>2, <2>3
<1>4. CASE ~(S.m_bQueuePaused \/ S.m_iTotalQueued = 0) /\ Len(S.m_TagOrder) # 1
  <2>1. PICK r : r = DeficitRoundRobin(S) OBVIOUS
  <2>2. sched_dequeue(S) = r BY <1>4, <2>1 DEF sched_dequeue
  <2> QED BY <1>4, <2>1, <2>2, RoundRobinVisit
<1> QED BY <1>2, <1>3, <1>4

\* A dequeue keeps the cursor on the order.
LEMMA DequeueScan ==
    ASSUME NEW S \in Sched, Scannable(S)
    PROVE  Scannable(sched_dequeue(S).sched)
<1>1. PICK r : r = sched_dequeue(S) OBVIOUS
<1>2. CASE /\ r.sched.m_TagOrder = S.m_TagOrder
           /\ r.sched.m_iTagCursor = S.m_iTagCursor
  BY <1>1, <1>2, SameScan
<1>3. ASSUME NEW f \in Nat, NEW moved \in Nat, Visit(S, r, f, moved)
      PROVE  Scannable(r.sched)
  <2>1. PICK n \in Nat : n = Len(S.m_TagOrder) BY SchedFields, LenProperties
  <2>2. n # 0 BY <1>3, <2>1 DEF Visit
  <2>3. PICK x \in Nat : x = S.m_iTagCursor + (f + moved)
    <3>1. S.m_iTagCursor \in Nat BY SchedFields
    <3> QED BY <3>1
  <2>4. PICK m \in 0 .. n - 1 : m = x % n BY <2>1, <2>2, Quotient
  <2>5. r.sched.m_TagOrder = S.m_TagOrder /\ r.sched.m_iTagCursor = m
    BY <1>3, <2>1, <2>3, <2>4 DEF Visit
  <2>6. r.sched.m_iTagCursor < Len(r.sched.m_TagOrder)
    <3>1. m < n BY <2>1
    <3> QED BY <2>1, <2>5, <3>1
  <2> QED BY <2>5, <2>6 DEF Scannable
<1> QED BY <1>1, <1>2, <1>3, DequeueVisit

-----------------------------------------------------------------------------
\* The tags the scan comes to first, and what they are owed

\* The tags that are not left behind when the scan comes to t: those it meets before, and
\* those that have no place in the order yet.
Ahead(S, t) == {u \in Tag \ {t} :
    \A k \in 0 .. Len(S.m_TagOrder) - 1 : TagAt(S, k) = u =>
        \A j \in 0 .. k : TagAt(S, j) # t}

\* the tasks they may be served until then, what is left of a quantum or a whole one
Owed(S, t) == UNION {{u} \X (1 .. Charged(S, u)) : u \in Ahead(S, t)}

LEMMA OwedTasks ==
    ASSUME NEW S, NEW t, NEW p
    PROVE  p \in Owed(S, t) <=>
             \E u \in Ahead(S, t) : \E i \in 1 .. Charged(S, u) : p = <<u, i>>
BY DEF Owed

LEMMA OthersTasks ==
    ASSUME NEW S, NEW t, NEW p
    PROVE  p \in OthersQuanta(S, t) <=>
             \E u \in Tag \ {t} : \E i \in 1 .. S.Config[u].iWeight : p = <<u, i>>
BY DEF OthersQuanta

\* A charged tag has at least one task to go, and at most its weight.
LEMMA ChargedRange ==
    ASSUME NEW S \in Sched, WithinQuantum(S), NEW u \in Tag
    PROVE  /\ Charged(S, u) \in 1 .. S.Config[u].iWeight
           /\ S.Config[u].iWeight \in Nat \ {0}
           /\ S.iDeficit[u] \in 0 .. S.Config[u].iWeight
<1>1. PICK w \in Nat \ {0} : w = S.Config[u].iWeight BY SchedFields DEF TagConfig
<1>2. PICK d \in 0 .. w : d = S.iDeficit[u] BY <1>1 DEF WithinQuantum
<1>3. Charged(S, u) = IF d < 1 THEN d + w ELSE d BY <1>1, <1>2 DEF Charged
<1> QED BY <1>1, <1>2, <1>3

\* One quantum of each other tag is a finite number of tasks.
LEMMA OthersFinite ==
    ASSUME IsFiniteSet(Tag), NEW S \in Sched, NEW t \in Tag
    PROVE  IsFiniteSet(OthersQuanta(S, t)) /\ Cardinality(OthersQuanta(S, t)) \in Nat
<1> DEFINE U == Tag \ {t}
           q == [u \in U |-> {u} \X (1 .. S.Config[u].iWeight)]
           Q == {q[u] : u \in U}
<1>1. IsFiniteSet(U)
  <2>1. U \in SUBSET Tag OBVIOUS
  <2> QED BY <2>1, FS_Subset
<1>2. q \in Surjection(U, Q) BY DEF Surjection
<1>3. IsFiniteSet(Q)
  <2> HIDE DEF U, Q, q
  <2> QED BY <1>1, <1>2, FS_Surjection
<1>4. \A T \in Q : IsFiniteSet(T)
  <2> SUFFICES ASSUME NEW u \in U PROVE IsFiniteSet({u} \X (1 .. S.Config[u].iWeight))
    OBVIOUS
  <2>1. PICK w \in Int : w = S.Config[u].iWeight BY SchedFields DEF TagConfig
  <2>2. PICK o \in Int : o = 1 OBVIOUS
  <2>3. IsFiniteSet(o .. w) BY FS_Interval
  <2>4. IsFiniteSet({u}) BY FS_Singleton
  <2> QED BY <2>1, <2>2, <2>3, <2>4, FS_Product
<1>5. IsFiniteSet(UNION Q)
  <2> HIDE DEF Q
  <2> QED BY <1>3, <1>4, FS_UNION
<1>6. UNION Q = OthersQuanta(S, t) BY DEF OthersQuanta
<1>7. IsFiniteSet(OthersQuanta(S, t)) BY <1>5, <1>6
<1> QED BY <1>7, FS_CardinalityType

\* No more is owed than a quantum each.
LEMMA OwedWithinQuanta ==
    ASSUME IsFiniteSet(Tag), NEW S \in Sched, WithinQuantum(S), NEW t \in Tag
    PROVE  /\ Owed(S, t) \subseteq OthersQuanta(S, t)
           /\ IsFiniteSet(Owed(S, t)) /\ Cardinality(Owed(S, t)) \in Nat
           /\ Cardinality(Owed(S, t)) <= Cardinality(OthersQuanta(S, t))
<1>1. ASSUME NEW p \in Owed(S, t) PROVE p \in OthersQuanta(S, t)
  <2>1. PICK u \in Ahead(S, t) : \E i \in 1 .. Charged(S, u) : p = <<u, i>> BY OwedTasks
  <2>2. PICK i \in 1 .. Charged(S, u) : p = <<u, i>> BY <2>1
  <2>3. u \in Tag \ {t} BY DEF Ahead
  <2>4. i \in 1 .. S.Config[u].iWeight BY <2>3, ChargedRange
  <2> QED BY <2>2, <2>3, <2>4, OthersTasks
<1>2. Owed(S, t) \in SUBSET OthersQuanta(S, t) BY <1>1
<1>3. IsFiniteSet(Owed(S, t)) /\ Cardinality(Owed(S, t)) <= Cardinality(OthersQuanta(S, t))
  BY <1>2, OthersFinite, FS_Subset
<1> QED BY <1>2, <1>3, FS_CardinalityType

\* When the turn moves on by e places, none of them t's, nobody comes before t who did not
\* before, and those at the places left behind come after it.
LEMMA AheadMoved ==
    ASSUME NEW S \in Sched, NEW R, NEW t \in Registered(S),
           NEW e \in Nat, \A j \in 0 .. e - 1 : TagAt(S, j) # t,
           R.m_TagOrder = S.m_TagOrder,
           R.m_iTagCursor = (S.m_iTagCursor + e) % Len(S.m_TagOrder)
    PROVE  /\ Ahead(R, t) \subseteq Ahead(S, t)
           /\ \A j \in 0 .. e - 1 : TagAt(S, j) \notin Ahead(R, t)
           /\ e < Len(S.m_TagOrder)
<1>1. PICK n \in Nat : n = Len(S.m_TagOrder) BY SchedFields, LenProperties
<1>2. PICK k0 \in 0 .. n - 1 : TagAt(S, k0) = t BY <1>1, ScanReaches
<1>3. n # 0 /\ e <= k0 BY <1>1, <1>2
<1>4. \A j \in Nat : TagAt(R, j) = TagAt(S, e + j) BY <1>1, <1>3, TagAtMoved
<1>5. k0 - e \in Nat /\ TagAt(R, k0 - e) = t
  <2>1. k0 - e \in Nat /\ e + (k0 - e) = k0 BY <1>2, <1>3
  <2> QED BY <1>2, <1>4, <2>1
<1>6. Len(R.m_TagOrder) = n BY <1>1
<1>7. ASSUME NEW v \in Ahead(R, t) PROVE v \in Ahead(S, t)
  <2>1. SUFFICES ASSUME NEW k \in 0 .. n - 1, TagAt(S, k) = v,
                        NEW j \in 0 .. k, TagAt(S, j) = t
                 PROVE FALSE
    BY <1>1, <1>7 DEF Ahead
  <2>2. e <= j BY <2>1
  <2>3. k - e \in 0 .. n - 1 /\ j - e \in 0 .. k - e /\ k - e \in Nat /\ j - e \in Nat
    BY <1>1, <2>2
  <2>4. TagAt(R, k - e) = v /\ TagAt(R, j - e) = t
    <3>1. e + (k - e) = k /\ e + (j - e) = j OBVIOUS
    <3> QED BY <1>4, <2>1, <2>3, <3>1
  <2> QED BY <1>6, <1>7, <2>3, <2>4 DEF Ahead
<1>8. ASSUME NEW j \in 0 .. e - 1 PROVE TagAt(S, j) \notin Ahead(R, t)
  <2>1. PICK k \in Nat : k = (j + n) - e BY <1>2, <1>3
  <2>2. k \in 0 .. n - 1 /\ k0 - e \in 0 .. k BY <1>2, <1>3, <2>1
  <2>3. TagAt(R, k) = TagAt(S, j)
    <3>1. e + k = j + n /\ j \in Nat BY <2>1
    <3>2. TagAt(S, j + n) = TagAt(S, j) BY <1>1, <1>3, <3>1, TagAtPeriodic
    <3> QED BY <1>4, <2>1, <3>1, <3>2
  <2> QED BY <1>5, <1>6, <2>2, <2>3 DEF Ahead
<1> QED BY <1>1, <1>2, <1>3, <1>7, <1>8

\* Registering a tag puts nobody before t who was not (it was, if it had no place yet).
LEMMA AheadRegistered ==
    ASSUME NEW S \in Sched, Scannable(S), NEW t \in Registered(S), NEW tag \in Tag, NEW R,
           R.m_TagOrder = sched_tag(S, tag).m_TagOrder, R.m_iTagCursor = S.m_iTagCursor
    PROVE  Ahead(R, t) \subseteq Ahead(S, t)
<1>1. CASE tag \in Registered(S)
  <2>1. R.m_TagOrder = S.m_TagOrder BY <1>1, TagOrderGrows
  <2>2. \A j : TagAt(R, j) = TagAt(S, j) BY <2>1 DEF TagAt
  <2> QED BY <2>1, <2>2 DEF Ahead
<1>2. CASE tag \notin Registered(S)
  <2>1. PICK o \in Seq(Tag), p \in Seq(Tag) : o = S.m_TagOrder /\ p = R.m_TagOrder
    BY <1>2, SchedFields, TagOrderGrows
  <2>2. PICK n \in Nat : n = Len(o) BY <2>1, LenProperties
  <2>3. Len(p) = n + 1 /\ \A i \in 1 .. n : p[i] = o[i] BY <1>2, <2>1, <2>2, TagOrderGrows
  <2>4. n # 0 BY <2>1, <2>2 DEF Registered
  <2>5. PICK c \in 0 .. n - 1 : c = S.m_iTagCursor
    <3>1. S.m_iTagCursor \in Nat BY SchedFields
    <3> QED BY <2>1, <2>2, <2>4, <3>1 DEF Scannable
  <2> DEFINE place(k) == IF c + k < n THEN k ELSE k + 1
  <2>6. ASSUME NEW k \in 0 .. n - 1
        PROVE  place(k) \in 0 .. n /\ TagAt(R, place(k)) = TagAt(S, k)
    <3>1. CASE c + k < n
      <4>1. (c + k) % n = c + k /\ (c + k) % (n + 1) = c + k
        <5>1. c + k \in 0 .. n - 1 /\ c + k \in 0 .. (n + 1) - 1 BY <2>5, <3>1
        <5>2. 0 * n + (c + k) = c + k /\ 0 * (n + 1) + (c + k) = c + k BY <5>1
        <5>3. (0 * n + (c + k)) % n = c + k BY <2>4, <5>1, Remainder
        <5>4. (0 * (n + 1) + (c + k)) % (n + 1) = c + k
          <6>1. n + 1 \in Nat \ {0} OBVIOUS
          <6> QED BY <5>1, <6>1, Remainder
        <5> QED BY <5>2, <5>3, <5>4
      <4>2. (c + k) + 1 \in 1 .. n BY <2>5, <3>1
      <4>3. p[(c + k) + 1] = o[(c + k) + 1] BY <2>3, <4>2
      <4>4. TagAt(S, k) = o[(c + k) + 1] BY <2>1, <2>2, <2>5, <4>1 DEF TagAt
      <4>5. TagAt(R, k) = p[(c + k) + 1] BY <2>1, <2>3, <2>5, <4>1 DEF TagAt
      <4>6. place(k) = k /\ k \in 0 .. n BY <3>1
      <4> QED BY <4>3, <4>4, <4>5, <4>6
    <3>2. CASE ~(c + k < n)
      <4>1. PICK m \in 0 .. n - 1 : m = (c + k) - n BY <2>5, <3>2
      <4>2. (1 * n + m) % n = m BY <2>4, Remainder
      <4>3. (1 * (n + 1) + m) % (n + 1) = m
        <5>1. n + 1 \in Nat \ {0} /\ m \in 0 .. (n + 1) - 1 BY <4>1
        <5> QED BY <5>1, Remainder
      <4>4. 1 * n + m = c + k /\ 1 * (n + 1) + m = c + (k + 1) BY <2>5, <4>1
      <4>5. (c + k) % n = m /\ (c + (k + 1)) % (n + 1) = m BY <4>2, <4>3, <4>4
      <4>6. m + 1 \in 1 .. n BY <4>1
      <4>7. p[m + 1] = o[m + 1] BY <2>3, <4>6
      <4>8. TagAt(S, k) = o[m + 1] BY <2>1, <2>2, <2>5, <4>5 DEF TagAt
      <4>9. TagAt(R, k + 1) = p[m + 1] BY <2>1, <2>3, <2>5, <4>5 DEF TagAt
      <4>10. place(k) = k + 1 /\ k + 1 \in 0 .. n BY <3>2
      <4> QED BY <4>7, <4>8, <4>9, <4>10
    <3> QED BY <3>1, <3>2
  <2>7. ASSUME NEW v \in Ahead(R, t) PROVE v \in Ahead(S, t)
    <3>1. SUFFICES ASSUME NEW k \in 0 .. n - 1, TagAt(S, k) = v,
                          NEW j \in 0 .. k, TagAt(S, j) = t
                   PROVE FALSE
      BY <2>1, <2>2, <2>7 DEF Ahead
    <3>2. j \in 0 .. n - 1 OBVIOUS
    <3>3. place(k) \in 0 .. n /\ place(j) \in 0 .. place(k) BY <2>5
    <3>4. TagAt(R, place(k)) = v /\ TagAt(R, place(j)) = t BY <2>6, <3>1, <3>2
    <3>5. Len(R.m_TagOrder) - 1 = n BY <2>1, <2>3
    <3> HIDE DEF place
    <3> QED BY <2>7, <3>3, <3>4, <3>5 DEF Ahead
  <2> QED BY <2>7
<1> QED BY <1>1, <1>2

\* While t waits, every task of another tag that is served is one that was owed, and
\* nothing new is.
LEMMA VisitOwed ==
    ASSUME NEW S \in Sched, Scannable(S), WithinQuantum(S), NEW t \in Registered(S),
           Serviceable(S, t), NEW r, NEW f \in Nat, NEW moved \in Nat, Visit(S, r, f, moved),
           r.tag # t, r.sched.Config = S.Config
    PROVE  LET p == <<r.tag, Charged(S, r.tag)>> IN
           p \in Owed(S, t) /\ Owed(r.sched, t) \subseteq Owed(S, t) \ {p}
<1> DEFINE R == r.sched
           tag == r.tag
<1>1. PICK n \in Nat : n = Len(S.m_TagOrder) BY SchedFields, LenProperties
<1>2. f \in 0 .. n - 1 /\ moved \in {0, 1} /\ tag = TagAt(S, f) /\ tag \in Tag
  BY <1>1 DEF Visit
<1>3. \A j \in 0 .. f : TagAt(S, j) # t
  <2>1. \A j \in 0 .. f - 1 : TagAt(S, j) # t BY DEF Visit
  <2>2. 0 .. f = (0 .. f - 1) \cup {f} BY <1>2
  <2> QED BY <1>2, <2>1, <2>2
<1>4. PICK e \in Nat : e = f + moved BY <1>2
<1>5. \A j \in 0 .. e - 1 : TagAt(S, j) # t
  <2>1. \A j \in 0 .. e - 1 : j \in 0 .. f BY <1>2, <1>4
  <2> QED BY <1>3, <2>1
<1>6. R.m_TagOrder = S.m_TagOrder /\ R.m_iTagCursor = (S.m_iTagCursor + e) % n
  BY <1>1, <1>4 DEF Visit
<1>7. /\ Ahead(R, t) \subseteq Ahead(S, t)
      /\ \A j \in 0 .. e - 1 : TagAt(S, j) \notin Ahead(R, t)
  BY <1>1, <1>5, <1>6, AheadMoved
<1>8. tag \in Ahead(S, t)
  <2>1. SUFFICES ASSUME NEW k \in 0 .. n - 1, TagAt(S, k) = tag, NEW j \in 0 .. k,
                        TagAt(S, j) = t
                 PROVE FALSE
    BY <1>1, <1>2 DEF Ahead
  <2>2. k = f BY <1>1, <1>2, <2>1, TagAtOnce
  <2> QED BY <1>3, <2>1, <2>2
<1>9. PICK c \in Nat \ {0} : c = Charged(S, tag) BY <1>2, ChargedRange
<1>10. <<tag, c>> \in Owed(S, t)
  <2>1. c \in 1 .. c OBVIOUS
  <2> QED BY <1>8, <1>9, <2>1, OwedTasks
<1>11. ASSUME NEW p \in Owed(R, t) PROVE p \in Owed(S, t) /\ p # <<tag, c>>
  <2>1. PICK u \in Ahead(R, t) : \E i \in 1 .. Charged(R, u) : p = <<u, i>>
    BY <1>11, OwedTasks
  <2>2. PICK i \in 1 .. Charged(R, u) : p = <<u, i>> BY <2>1
  <2>3. u \in Ahead(S, t) /\ u \in Tag BY <1>7 DEF Ahead
  <2>4. CASE u = tag
    <3>1. moved = 0
      <4>1. SUFFICES ASSUME moved = 1 PROVE FALSE BY <1>2
      <4>2. f \in 0 .. e - 1 BY <1>2, <1>4, <4>1
      <4> QED BY <1>2, <1>7, <2>4, <4>2
    <3>2. R.iDeficit[tag] = c - 1 /\ c - 1 >= 1 BY <1>9, <3>1 DEF Visit
    <3>3. Charged(R, tag) = c - 1 BY <3>2 DEF Charged
    <3>4. i \in 1 .. c /\ i # c BY <2>4, <3>3
    <3> QED BY <1>9, <2>2, <2>3, <2>4, <3>4, OwedTasks
  <2>5. CASE u # tag
    <3>1. ~\E j \in 0 .. f - 1 : TagAt(S, j) = u
      <4>1. \A j \in 0 .. f - 1 : j \in 0 .. e - 1 BY <1>2, <1>4
      <4> QED BY <1>7, <4>1
    <3>2. R.iDeficit[u] = S.iDeficit[u] BY <2>3, <2>5, <3>1 DEF Visit
    <3>3. Charged(R, u) = Charged(S, u) BY <3>2 DEF Charged
    <3> QED BY <2>2, <2>3, <2>5, <3>3, OwedTasks
  <2> QED BY <2>4, <2>5
<1> QED BY <1>9, <1>10, <1>11

-----------------------------------------------------------------------------
\* The scheduler driven alone (KThreadPoolDRR): its state stays well formed, for any tags,
\* weights, bounds, caps, policies and calls.

Wellformed(S) == S \in Sched /\ WellKept(S) /\ Scannable(S)

\* What the operations keep of a well-formed state, and what they do to the turn.
LEMMA EnqueueForm ==
    ASSUME NEW S, Wellformed(S), NEW tag \in Tag, NEW task \in Task
    PROVE  LET R == sched_enqueue(S, tag, task).sched IN
           /\ Wellformed(R)
           /\ R.m_TagOrder = sched_tag(S, tag).m_TagOrder
           /\ R.m_iTagCursor = S.m_iTagCursor
           /\ R.iDeficit = S.iDeficit /\ R.Config = S.Config
<1>1. S \in Sched /\ WellKept(S) /\ Scannable(S) BY DEF Wellformed
<1>2. PICK r : r = sched_enqueue(S, tag, task) OBVIOUS
<1>3. r.sched \in Sched /\ r.sched.Config = S.Config BY <1>1, <1>2, EnqueueType
<1>4. PICK config \in TagConfig : config = S.Config[tag] BY <1>1, SchedFields
<1>5. /\ r.sched.iDeficit = S.iDeficit
      /\ r.sched.m_iTagCursor = S.m_iTagCursor
  BY <1>1, <1>2, <1>4, DeficitsKept, CursorKept
<1>6. r.sched.m_TagOrder = sched_tag(S, tag).m_TagOrder BY <1>1, <1>2, EnqueueQueue
<1>7. WellKept(r.sched) BY <1>1, <1>2, EnqueueKept
<1>8. Scannable(r.sched) BY <1>1, <1>5, <1>6, LongerScan
<1> QED BY <1>2, <1>3, <1>5, <1>6, <1>7, <1>8 DEF Wellformed

LEMMA TaskDoneForm ==
    ASSUME NEW S, Wellformed(S), NEW tag \in Tag
    PROVE  LET R == sched_task_done(S, tag).sched IN
           /\ Wellformed(R)
           /\ R.m_TagOrder = S.m_TagOrder /\ R.m_iTagCursor = S.m_iTagCursor
           /\ R.iDeficit = S.iDeficit /\ R.Config = S.Config
<1>1. S \in Sched /\ WellKept(S) /\ Scannable(S) BY DEF Wellformed
<1>2. PICK r : r = sched_task_done(S, tag) OBVIOUS
<1>3. r.sched \in Sched /\ r.sched.Config = S.Config BY <1>1, <1>2, TaskDoneType
<1>4. PICK config \in TagConfig : config = S.Config[tag] BY <1>1, SchedFields
<1>5. r.sched.iDeficit = S.iDeficit BY <1>1, <1>2, <1>4, DeficitsKept
<1>6. r.sched.m_iTagCursor = S.m_iTagCursor BY <1>1, <1>2, <1>4, CursorKept
<1>7. r.sched.m_TagOrder = S.m_TagOrder BY <1>1, <1>2, TaskDoneQueue
<1>8. WellKept(r.sched) BY <1>1, <1>2, TaskDoneKept
<1>9. Scannable(r.sched) BY <1>1, <1>6, <1>7, SameScan
<1> QED BY <1>2, <1>3, <1>5, <1>6, <1>7, <1>8, <1>9 DEF Wellformed

LEMMA DequeueForm ==
    ASSUME NEW S, Wellformed(S)
    PROVE  LET r == sched_dequeue(S) IN
           /\ Wellformed(r.sched) /\ r.sched.Config = S.Config
           /\ r.bFound \in BOOLEAN /\ r.bFound => r.tag \in Tag /\ Serviceable(S, r.tag)
<1>1. S \in Sched /\ WellKept(S) /\ Scannable(S) BY DEF Wellformed
<1>2. PICK r : r = sched_dequeue(S) OBVIOUS
<1>3. /\ r.sched \in Sched /\ r.sched.Config = S.Config /\ r.bFound \in BOOLEAN
  BY <1>1, <1>2, DequeueType DEF DequeueOK
<1>4. r.bFound => r.tag \in Tag /\ Serviceable(S, r.tag)
  BY <1>1, <1>2, DequeueSteps DEF DequeueStep
<1>5. WellKept(r.sched) BY <1>1, <1>2, DequeueKept
<1>6. Scannable(r.sched) BY <1>1, <1>2, DequeueScan
<1> QED BY <1>2, <1>3, <1>4, <1>5, <1>6 DEF Wellformed

LEMMA ConfigureForm ==
    ASSUME NEW S, Wellformed(S), NEW tag \in Tag, NEW config \in AnyConfig
    PROVE  Wellformed(ConfigureTagTo(S, tag, config))
<1>1. S \in Sched /\ WellKept(S) /\ Scannable(S) BY DEF Wellformed
<1>2. PICK c \in TagConfig : ConfigureTagTo(S, tag, config) = ConfigureTagTo(S, tag, c)
  BY ClampedConfig
<1>3. PICK R : R = ConfigureTagTo(S, tag, c) OBVIOUS
<1>4. R \in Sched BY <1>1, <1>3, ConfigureTagType
<1>5. WellKept(R) BY <1>1, <1>3, ConfigureTagKept
<1>6. R.m_TagOrder = sched_tag(S, tag).m_TagOrder /\ R.m_iTagCursor = S.m_iTagCursor
  BY <1>1, <1>3, CursorKept
<1>7. Scannable(R) BY <1>1, <1>6, LongerScan
<1> QED BY <1>2, <1>3, <1>4, <1>5, <1>7 DEF Wellformed

LEMMA PausedForm ==
    ASSUME NEW S, Wellformed(S), NEW b \in BOOLEAN
    PROVE  LET R == [S EXCEPT !.m_bQueuePaused = b] IN
           /\ Wellformed(R)
           /\ R.m_TagOrder = S.m_TagOrder /\ R.m_iTagCursor = S.m_iTagCursor
           /\ R.iDeficit = S.iDeficit /\ R.Config = S.Config
<1>1. S \in Sched /\ WellKept(S) /\ Scannable(S) BY DEF Wellformed
<1>2. PICK R : R = [S EXCEPT !.m_bQueuePaused = b] OBVIOUS
<1>3. /\ R \in Sched /\ R.m_TagOrder = S.m_TagOrder /\ R.m_iTagCursor = S.m_iTagCursor
      /\ R.iDeficit = S.iDeficit /\ R.Config = S.Config
      /\ R.Queue = S.Queue /\ R.m_iTotalQueued = S.m_iTotalQueued
  BY <1>1, <1>2 DEF Sched
<1>4. Registered(R) = Registered(S) BY <1>3 DEF Registered
<1>5. WellKept(R) BY <1>1, <1>3, <1>4, SameKept
<1>6. Scannable(R) BY <1>1, <1>3, SameScan
<1> QED BY <1>2, <1>3, <1>5, <1>6 DEF Wellformed

LEMMA ClearedForm ==
    ASSUME NEW S, Wellformed(S)
    PROVE  /\ Wellformed(Cleared(S)) /\ Cleared(S).Config = S.Config
           /\ Cleared(S).iDeficit = [t \in Tag |-> 0]
           /\ \A t \in Tag : ~Serviceable(Cleared(S), t)
<1>1. S \in Sched /\ WellKept(S) /\ Scannable(S) BY DEF Wellformed
<1>2. Cleared(S) \in Sched /\ Cleared(S).Config = S.Config BY <1>1, ClearedType
<1>3. WellKept(Cleared(S)) BY <1>1, ClearedKept
<1>4. Cleared(S).m_TagOrder = S.m_TagOrder /\ Cleared(S).Queue = [t \in Tag |-> <<>>]
  BY <1>1, ClearedQueue
<1>5. Cleared(S).m_iTagCursor = S.m_iTagCursor /\ Cleared(S).iDeficit = [t \in Tag |-> 0]
  BY <1>1 DEF Cleared, Sched
<1>6. Scannable(Cleared(S)) BY <1>1, <1>4, <1>5, SameScan
<1> QED BY <1>2, <1>3, <1>4, <1>5, <1>6 DEF Wellformed, Serviceable

LEMMA EmptyForm ==
    LET S == EmptySched(InitConfig, <<>>) IN
    /\ Wellformed(S) /\ S.iDeficit = [t \in Tag |-> 0]
    /\ \A t \in Tag : ~Serviceable(S, t)
<1>1. InitConfig \in [Tag -> TagConfig] BY DRRAssumption
<1>2. PICK o \in Seq(Tag) : o = <<>> BY EmptySeq
<1>3. PICK S : S = EmptySched(InitConfig, o) OBVIOUS
<1>4. S \in Sched BY <1>1, <1>3, EmptyType
<1>5. WellKept(S) /\ S.Queue = [t \in Tag |-> <<>>] BY <1>1, <1>3, EmptyKept
<1>6. /\ S.m_TagOrder = o /\ S.m_iTagCursor = 0 /\ S.iDeficit = [t \in Tag |-> 0]
  BY <1>3 DEF EmptySched
<1>7. Scannable(S)
  <2>1. Len(o) = 0 BY <1>2
  <2> QED BY <1>6, <2>1 DEF Scannable
<1> QED BY <1>2, <1>3, <1>4, <1>5, <1>6, <1>7 DEF Wellformed, Serviceable

\* Every step of the scheduler driven alone keeps its state well formed.
LEMMA DRRForm ==
    ASSUME Wellformed(sched), [DRRNext]_drr_vars
    PROVE  Wellformed(sched')
<1>1. ASSUME NEW t \in Tag, Push(t) PROVE Wellformed(sched')
  BY <1>1, EnqueueForm DEF Push
<1>2. ASSUME NEW t \in Tag, Finish(t) PROVE Wellformed(sched')
  BY <1>2, TaskDoneForm DEF Finish
<1>3. CASE Serve BY <1>3, DequeueForm DEF Serve
<1>4. ASSUME NEW c \in LaterConfigs, Configure(c[1], c[2]) PROVE Wellformed(sched')
  <2>1. c[1] \in Tag /\ c[2] \in AnyConfig BY <1>4, DRRAssumption
  <2> QED BY <1>4, <2>1, ConfigureForm DEF Configure
<1>5. ASSUME NEW b \in BOOLEAN, Pause(b) PROVE Wellformed(sched')
  BY <1>5, PausedForm DEF Pause
<1>6. CASE Clear BY <1>6, ClearedForm DEF Clear
<1>7. CASE UNCHANGED drr_vars BY <1>7 DEF drr_vars
<1> QED BY <1>1, <1>2, <1>3, <1>4, <1>5, <1>6, <1>7 DEF DRRNext

\* The histories count.
LEMMA RememberType ==
    ASSUME NEW served, Remember(served), bypass \in [Tag -> Nat], share \in [Tag -> Nat],
           sched \in Sched
    PROVE  bypass' \in [Tag -> Nat] /\ share' \in [Tag -> Nat]
<1>1. \A t \in Tag : sched.Config[t].iWeight \in Nat BY SchedFields DEF TagConfig
<1>2. bypass' \in [Tag -> Nat]
  <2>1. \A t \in Tag : bypass[t] \in Nat /\ bypass[t] + 1 \in Nat /\ 0 \in Nat OBVIOUS
  <2> QED BY <2>1 DEF Remember
<1>3. share' \in [Tag -> Nat]
  <2>1. PICK s : s = [t \in Tag |-> IF t \in served THEN share[t] + 1 ELSE share[t]]
    OBVIOUS
  <2>2. s \in [Tag -> Nat] BY <2>1
  <2>3. Normalised(s) \in [Tag -> Nat]
    <3>1. CASE \A t \in Tag : s[t] >= sched.Config[t].iWeight
      <4>1. ASSUME NEW t \in Tag PROVE s[t] - sched.Config[t].iWeight \in Nat
        <5>1. PICK w \in Nat, x \in Nat : w = sched.Config[t].iWeight /\ x = s[t]
          BY <1>1, <2>2
        <5>2. x >= w BY <3>1, <5>1
        <5> QED BY <5>1, <5>2
      <4> QED BY <3>1, <4>1 DEF Normalised
    <3>2. CASE ~\A t \in Tag : s[t] >= sched.Config[t].iWeight
      BY <2>2, <3>2 DEF Normalised
    <3> QED BY <3>1, <3>2
  <2>4. NoHistory \in [Tag -> Nat] BY DEF NoHistory
  <2> QED BY <2>1, <2>3, <2>4 DEF Remember
<1> QED BY <1>2, <1>3

LEMMA DRRTypeNext ==
    ASSUME Wellformed(sched), DRRTypeOK, [DRRNext]_drr_vars
    PROVE  DRRTypeOK'
<1>1. sched' \in Sched BY DRRForm DEF Wellformed
<1>2. ASSUME NEW served, Remember(served) PROVE DRRTypeOK'
  <2>1. bypass' \in [Tag -> Nat] /\ share' \in [Tag -> Nat]
    BY <1>2, RememberType DEF DRRTypeOK
  <2> QED BY <1>1, <2>1 DEF DRRTypeOK
<1>3. ASSUME NEW t \in Tag, Push(t) \/ Finish(t) PROVE DRRTypeOK'
  BY <1>2, <1>3 DEF Push, Finish
<1>4. CASE Serve BY <1>2, <1>4 DEF Serve
<1>5. ASSUME NEW c \in LaterConfigs, Configure(c[1], c[2]) PROVE DRRTypeOK'
  BY <1>1, <1>5 DEF Configure, NoHistory, DRRTypeOK
<1>6. ASSUME NEW b \in BOOLEAN, Pause(b) PROVE DRRTypeOK' BY <1>2, <1>6 DEF Pause
<1>7. CASE Clear BY <1>2, <1>7 DEF Clear
<1>8. CASE UNCHANGED drr_vars BY <1>8 DEF drr_vars, DRRTypeOK
<1> QED BY <1>3, <1>4, <1>5, <1>6, <1>7, <1>8 DEF DRRNext

LEMMA DRRStart ==
    DRRInit => Wellformed(sched) /\ DRRTypeOK
<1> SUFFICES ASSUME DRRInit PROVE Wellformed(sched) /\ DRRTypeOK OBVIOUS
<1>1. Wellformed(sched) BY EmptyForm DEF DRRInit
<1> QED BY <1>1 DEF DRRInit, DRRTypeOK, NoHistory, Wellformed

\* Type correctness of the round robin and of its histories, whatever the tags, weights,
\* queue bounds, caps and policies are and in whatever order push, dequeue, the end of a
\* task, ConfigureTag, pause and clear come.
THEOREM RoundRobinTypeCorrect == DRRSpec => []DRRTypeOK
<1>1. DRRInit => Wellformed(sched) /\ DRRTypeOK BY DRRStart
<1>2. Wellformed(sched) /\ DRRTypeOK /\ [DRRNext]_drr_vars => Wellformed(sched)' /\ DRRTypeOK'
  <2>1. Wellformed(sched') <=> Wellformed(sched)'
    BY DEF Wellformed, WellKept, Scannable, Backlog, Registered
  <2> QED BY <2>1, DRRForm, DRRTypeNext
<1> QED BY <1>1, <1>2, PTL DEF DRRSpec

-----------------------------------------------------------------------------
\* Deficits and bypasses of the scheduler driven alone

\* A step of a caller who lowers no weight while tasks may be queued.
WeightsKept == \A t \in Tag : sched.Config[t].iWeight <= sched'.Config[t].iWeight

LEMMA SameDeficits ==
    ASSUME NEW S, WithinQuantum(S), NEW R, R.iDeficit = S.iDeficit, R.Config = S.Config
    PROVE  WithinQuantum(R)
BY DEF WithinQuantum

\* A weight that is not lowered leaves every deficit within its quantum.
LEMMA ConfigureQuantum ==
    ASSUME NEW t \in Tag, NEW config \in AnyConfig, Configure(t, config), WeightsKept,
           Wellformed(sched), WithinQuantum(sched)
    PROVE  WithinQuantum(sched')
<1>1. PICK c \in TagConfig : ConfigureTagTo(sched, t, config) = ConfigureTagTo(sched, t, c)
  BY ClampedConfig
<1>2. sched' = ConfigureTagTo(sched, t, c) BY <1>1 DEF Configure
<1>3. sched \in Sched BY DEF Wellformed
<1>4. sched'.Config = [sched.Config EXCEPT ![t] = c] BY <1>2, <1>3, ConfigureTagType
<1>5. sched'.Config[t] = c BY <1>3, <1>4, SchedFields
<1>6. sched.Config[t].iWeight <= c.iWeight BY <1>5 DEF WeightsKept
<1> QED BY <1>2, <1>3, <1>6, ConfigureTagQuantum

\* So does every other step.
LEMMA DRRQuantum ==
    ASSUME Wellformed(sched), WithinQuantum(sched), [DRRNext]_drr_vars,
           [WeightsKept]_drr_vars
    PROVE  WithinQuantum(sched')
<1>1. sched \in Sched BY DEF Wellformed
<1>2. ASSUME NEW t \in Tag, Push(t) PROVE WithinQuantum(sched')
  BY <1>1, <1>2, EnqueueQuantum DEF Push
<1>3. ASSUME NEW t \in Tag, Finish(t) PROVE WithinQuantum(sched')
  BY <1>1, <1>3, TaskDoneQuantum DEF Finish
<1>4. CASE Serve BY <1>1, <1>4, DequeueQuantum DEF Serve
<1>5. ASSUME NEW c \in LaterConfigs, Configure(c[1], c[2]) PROVE WithinQuantum(sched')
  <2>1. c[1] \in Tag /\ c[2] \in AnyConfig BY <1>5, DRRAssumption
  <2>2. CASE WeightsKept BY <1>5, <2>1, <2>2, ConfigureQuantum
  <2>3. CASE UNCHANGED drr_vars BY <2>3 DEF drr_vars
  <2> QED BY <2>2, <2>3
<1>6. ASSUME NEW b \in BOOLEAN, Pause(b) PROVE WithinQuantum(sched')
  BY <1>6, PausedForm, SameDeficits DEF Pause
<1>7. CASE Clear
  <2>1. sched' \in Sched /\ sched'.iDeficit = [t \in Tag |-> 0]
    BY <1>7, ClearedForm DEF Clear, Wellformed
  <2> QED BY <2>1, NoDeficit
<1>8. CASE UNCHANGED drr_vars BY <1>8 DEF drr_vars
<1> QED BY <1>2, <1>3, <1>4, <1>5, <1>6, <1>7, <1>8 DEF DRRNext

\* What the history bypass says of t, and what is still to come before it is t's turn:
\* together no more than a quantum of each other tag.
BypassHolds(S, b) == \A t \in Tag :
    /\ ~Serviceable(S, t) => b[t] = 0
    /\ b[t] + Cardinality(Owed(S, t)) <= Cardinality(OthersQuanta(S, t))

\* What a step must not do to a waiting tag: owe more than before, and if it served
\* another one, not even as much.
Fair(S, R, served) == \A t \in Tag \ served :
    Serviceable(S, t) /\ Serviceable(R, t) =>
        Cardinality(Owed(R, t)) + (IF served = {} THEN 0 ELSE 1) <= Cardinality(Owed(S, t))

\* A task taken from what is owed is one less.
LEMMA OwedLess ==
    ASSUME IsFiniteSet(Tag), NEW S \in Sched, WithinQuantum(S), NEW t \in Tag,
           NEW p \in Owed(S, t), NEW Q, Q \subseteq Owed(S, t) \ {p}
    PROVE  Cardinality(Q) + 1 <= Cardinality(Owed(S, t))
<1>1. IsFiniteSet(Owed(S, t)) /\ Cardinality(Owed(S, t)) \in Nat BY OwedWithinQuanta
<1>2. PICK T : T = Owed(S, t) \ {p} OBVIOUS
<1>3. IsFiniteSet(T) /\ Cardinality(T) = Cardinality(Owed(S, t)) - 1
  BY <1>1, <1>2, FS_RemoveElement
<1>4. Q \in SUBSET T BY <1>2
<1>5. IsFiniteSet(Q) /\ Cardinality(Q) <= Cardinality(T) BY <1>3, <1>4, FS_Subset
<1>6. Cardinality(Q) \in Nat /\ Cardinality(T) \in Nat BY <1>3, <1>5, FS_CardinalityType
<1> QED BY <1>1, <1>3, <1>5, <1>6

\* A step that leaves order, cursor and deficits alone owes a tag what it did before.
LEMMA OwedSame ==
    ASSUME IsFiniteSet(Tag), NEW S \in Sched, WithinQuantum(S), NEW t \in Tag,
           NEW R, Ahead(R, t) \subseteq Ahead(S, t), R.iDeficit = S.iDeficit,
           R.Config = S.Config
    PROVE  /\ Cardinality(Owed(R, t)) <= Cardinality(Owed(S, t))
           /\ Cardinality(Owed(R, t)) \in Nat
<1>1. IsFiniteSet(Owed(S, t)) BY OwedWithinQuanta
<1>2. \A u : Charged(R, u) = Charged(S, u) BY DEF Charged
<1>3. Owed(R, t) \in SUBSET Owed(S, t) BY <1>2 DEF Owed
<1>4. IsFiniteSet(Owed(R, t)) /\ Cardinality(Owed(R, t)) <= Cardinality(Owed(S, t))
  BY <1>1, <1>3, FS_Subset
<1> QED BY <1>4, FS_CardinalityType

LEMMA SameAhead ==
    ASSUME NEW S, NEW R, NEW t, R.m_TagOrder = S.m_TagOrder,
           R.m_iTagCursor = S.m_iTagCursor
    PROVE  Ahead(R, t) = Ahead(S, t)
<1>1. \A j : TagAt(R, j) = TagAt(S, j) BY DEF TagAt
<1> QED BY <1>1 DEF Ahead

\* Steps that serve nobody, leave the deficits alone and at most register a tag.
LEMMA FairStep ==
    ASSUME IsFiniteSet(Tag), NEW S, Wellformed(S), WithinQuantum(S), NEW R, NEW tag \in Tag,
           R.iDeficit = S.iDeficit, R.Config = S.Config, R.m_iTagCursor = S.m_iTagCursor,
           \/ R.m_TagOrder = S.m_TagOrder
           \/ R.m_TagOrder = sched_tag(S, tag).m_TagOrder
    PROVE  Fair(S, R, {})
<1>1. S \in Sched /\ WellKept(S) /\ Scannable(S) BY DEF Wellformed
<1>2. SUFFICES ASSUME NEW t \in Tag, Serviceable(S, t)
               PROVE  Cardinality(Owed(R, t)) + 0 <= Cardinality(Owed(S, t))
  BY DEF Fair
<1>3. t \in Registered(S) BY <1>1, <1>2, ServiceableRegistered
<1>4. Ahead(R, t) \subseteq Ahead(S, t) BY <1>1, <1>3, SameAhead, AheadRegistered
<1>5. /\ Cardinality(Owed(R, t)) <= Cardinality(Owed(S, t))
      /\ Cardinality(Owed(R, t)) \in Nat
  BY <1>1, <1>4, OwedSame
<1> QED BY <1>5

\* A dequeue that serves another tag has taken a task that was owed ahead of t.
LEMMA FairDequeue ==
    ASSUME IsFiniteSet(Tag), NEW S, Wellformed(S), WithinQuantum(S)
    PROVE  LET r == sched_dequeue(S) IN
           Fair(S, r.sched, IF r.bFound THEN {r.tag} ELSE {})
<1>1. S \in Sched /\ WellKept(S) /\ Scannable(S) BY DEF Wellformed
<1>2. PICK r : r = sched_dequeue(S) OBVIOUS
<1>3. r.sched.Config = S.Config BY <1>2, DequeueForm
<1>4. CASE ~r.bFound
  <2>1. CASE S.m_bQueuePaused
    <3>1. r = Nothing(S) BY <1>2, <2>1 DEF sched_dequeue
    <3>2. r.sched = S BY <3>1 DEF Nothing
    <3>3. ASSUME NEW t \in Tag PROVE Cardinality(Owed(S, t)) + 0 <= Cardinality(Owed(S, t))
      <4>1. Cardinality(Owed(S, t)) \in Nat BY <1>1, OwedWithinQuanta
      <4> QED BY <4>1
    <3> QED BY <1>2, <1>4, <3>2, <3>3 DEF Fair
  <2>2. CASE ~S.m_bQueuePaused
    <3>1. \A t \in Tag : ~Serviceable(S, t) BY <1>1, <1>2, <1>4, <2>2, DequeueSteps DEF DequeueStep
    <3> QED BY <1>2, <1>4, <3>1 DEF Fair
  <2> QED BY <2>1, <2>2
<1>5. CASE r.bFound
  <2>1. SUFFICES ASSUME NEW t \in Tag, t # r.tag, Serviceable(S, t)
                 PROVE  Cardinality(Owed(r.sched, t)) + 1 <= Cardinality(Owed(S, t))
    BY <1>2, <1>5 DEF Fair
  <2>2. t \in Registered(S) BY <1>1, <2>1, ServiceableRegistered
  <2>3. PICK f \in Nat, moved \in Nat : Visit(S, r, f, moved)
    BY <1>1, <1>2, <1>5, <2>1, <2>2, DequeueVisit
  <2>4. PICK p : p = <<r.tag, Charged(S, r.tag)>> OBVIOUS
  <2>5. p \in Owed(S, t) /\ Owed(r.sched, t) \subseteq Owed(S, t) \ {p}
    BY <1>1, <1>3, <2>1, <2>2, <2>3, <2>4, VisitOwed
  <2> QED BY <1>1, <2>5, OwedLess
<1> QED BY <1>4, <1>5

\* The history moves against what is owed.
LEMMA RememberBypass ==
    ASSUME NEW served, Remember(served), sched \in Sched, sched' \in Sched,
           WithinQuantum(sched), WithinQuantum(sched'), sched'.Config = sched.Config,
           Fair(sched, sched', served),
           bypass \in [Tag -> Nat], BypassHolds(sched, bypass)
    PROVE  BypassHolds(sched', bypass')
<1>1. IsFiniteSet(Tag) BY DRRAssumption
<1>2. SUFFICES ASSUME NEW t \in Tag
      PROVE  /\ ~Serviceable(sched', t) => bypass'[t] = 0
             /\ bypass'[t] + Cardinality(Owed(sched', t)) <= Cardinality(OthersQuanta(sched', t))
  BY DEF BypassHolds
<1>3. PICK o2 \in Nat, q2 \in Nat : /\ o2 = Cardinality(Owed(sched', t))
                                    /\ q2 = Cardinality(OthersQuanta(sched', t))
                                    /\ o2 <= q2
  BY <1>1, OwedWithinQuanta, OthersFinite
<1>4. PICK o \in Nat : o = Cardinality(Owed(sched, t)) BY <1>1, OwedWithinQuanta
<1>5. q2 = Cardinality(OthersQuanta(sched, t)) BY <1>3 DEF OthersQuanta
<1>6. PICK b \in Nat : b = bypass[t] OBVIOUS
<1>7. b + o <= q2 /\ (~Serviceable(sched, t) => b = 0)
  BY <1>4, <1>5, <1>6 DEF BypassHolds
<1>8. CASE t \in served \/ ~Serviceable(sched', t)
  <2>1. bypass'[t] = 0 BY <1>8 DEF Remember
  <2> QED BY <1>3, <2>1
<1>9. CASE t \notin served /\ Serviceable(sched', t) /\ Serviceable(sched, t)
  <2>1. o2 + (IF served = {} THEN 0 ELSE 1) <= o BY <1>3, <1>4, <1>9 DEF Fair
  <2>2. bypass'[t] = IF served # {} THEN b + 1 ELSE b BY <1>6, <1>9 DEF Remember
  <2> QED BY <1>3, <1>7, <1>9, <2>1, <2>2
<1>10. CASE t \notin served /\ Serviceable(sched', t) /\ ~Serviceable(sched, t)
  <2>1. bypass'[t] = 0 BY <1>6, <1>7, <1>10 DEF Remember
  <2> QED BY <1>3, <1>10, <2>1
<1> QED BY <1>8, <1>9, <1>10

\* A fresh history fits any state whose deficits are within their quanta.
LEMMA NoBypass ==
    ASSUME NEW S \in Sched, WithinQuantum(S)
    PROVE  BypassHolds(S, NoHistory)
<1>1. IsFiniteSet(Tag) BY DRRAssumption
<1>2. SUFFICES ASSUME NEW t \in Tag
      PROVE  0 + Cardinality(Owed(S, t)) <= Cardinality(OthersQuanta(S, t))
  BY DEF BypassHolds, NoHistory
<1> QED BY <1>1, OwedWithinQuanta

\* Every step keeps bypasses and debts within one quantum of each other tag.
LEMMA DRRBypass ==
    ASSUME Wellformed(sched), Wellformed(sched'), WithinQuantum(sched), WithinQuantum(sched'),
           bypass \in [Tag -> Nat], BypassHolds(sched, bypass), [DRRNext]_drr_vars
    PROVE  BypassHolds(sched', bypass')
<1>1. sched \in Sched /\ sched' \in Sched /\ IsFiniteSet(Tag)
  BY DRRAssumption DEF Wellformed
<1>2. ASSUME NEW t \in Tag, Push(t) PROVE BypassHolds(sched', bypass')
  <2>1. PICK k \in Task : sched' = sched_enqueue(sched, t, k).sched BY <1>2 DEF Push
  <2>2. /\ sched'.m_TagOrder = sched_tag(sched, t).m_TagOrder
        /\ sched'.m_iTagCursor = sched.m_iTagCursor
        /\ sched'.iDeficit = sched.iDeficit /\ sched'.Config = sched.Config
    BY <2>1, EnqueueForm
  <2>3. Fair(sched, sched', {}) BY <1>1, <2>2, FairStep
  <2> QED BY <1>1, <1>2, <2>2, <2>3, RememberBypass DEF Push
<1>3. ASSUME NEW t \in Tag, Finish(t) PROVE BypassHolds(sched', bypass')
  <2>1. sched' = sched_task_done(sched, t).sched BY <1>3 DEF Finish
  <2>2. /\ sched'.m_TagOrder = sched.m_TagOrder /\ sched'.m_iTagCursor = sched.m_iTagCursor
        /\ sched'.iDeficit = sched.iDeficit /\ sched'.Config = sched.Config
    BY <2>1, TaskDoneForm
  <2>3. Fair(sched, sched', {}) BY <1>1, <2>2, FairStep
  <2> QED BY <1>1, <1>3, <2>2, <2>3, RememberBypass DEF Finish
<1>4. CASE Serve
  <2>1. PICK r : r = sched_dequeue(sched) OBVIOUS
  <2>2. sched' = r.sched /\ Remember(IF r.bFound THEN {r.tag} ELSE {})
    BY <1>4, <2>1 DEF Serve
  <2>3. Fair(sched, sched', IF r.bFound THEN {r.tag} ELSE {})
    BY <1>1, <2>1, <2>2, FairDequeue
  <2>4. sched'.Config = sched.Config BY <2>1, <2>2, DequeueForm
  <2> QED BY <1>1, <2>2, <2>3, <2>4, RememberBypass
<1>5. ASSUME NEW c \in LaterConfigs, Configure(c[1], c[2]) PROVE BypassHolds(sched', bypass')
  BY <1>1, <1>5, NoBypass DEF Configure
<1>6. ASSUME NEW b \in BOOLEAN, Pause(b) PROVE BypassHolds(sched', bypass')
  <2>1. sched' = [sched EXCEPT !.m_bQueuePaused = b] BY <1>6 DEF Pause
  <2>2. /\ sched'.m_TagOrder = sched.m_TagOrder /\ sched'.m_iTagCursor = sched.m_iTagCursor
        /\ sched'.iDeficit = sched.iDeficit /\ sched'.Config = sched.Config
    BY <2>1, PausedForm
  <2>3. Fair(sched, sched', {})
    <3>1. CASE Tag = {} BY <3>1 DEF Fair
    <3>2. CASE Tag # {}
      <4>1. PICK t : t \in Tag BY <3>2
      <4> QED BY <1>1, <2>2, <4>1, FairStep
    <3> QED BY <3>1, <3>2
  <2> QED BY <1>1, <1>6, <2>2, <2>3, RememberBypass DEF Pause
<1>7. CASE Clear
  <2>1. sched'.Config = sched.Config /\ \A t \in Tag : ~Serviceable(sched', t)
    BY <1>7, ClearedForm DEF Clear
  <2>2. Fair(sched, sched', {}) BY <2>1 DEF Fair
  <2> QED BY <1>1, <1>7, <2>1, <2>2, RememberBypass DEF Clear
<1>8. CASE UNCHANGED drr_vars BY <1>8 DEF drr_vars
<1> QED BY <1>2, <1>3, <1>4, <1>5, <1>6, <1>7, <1>8 DEF DRRNext

\* The inductive invariant of the deficits and the bypasses.
TurnInv == /\ Wellformed(sched) /\ DRRTypeOK
           /\ WithinQuantum(sched) /\ BypassHolds(sched, bypass)

LEMMA TurnInvStart == DRRInit => TurnInv
<1> SUFFICES ASSUME DRRInit PROVE TurnInv OBVIOUS
<1>1. Wellformed(sched) /\ DRRTypeOK BY DRRStart
<1>2. sched \in Sched /\ sched.iDeficit = [t \in Tag |-> 0]
  BY <1>1, EmptyForm DEF DRRInit, Wellformed
<1>3. WithinQuantum(sched) BY <1>2, NoDeficit
<1>4. BypassHolds(sched, bypass) BY <1>2, <1>3, NoBypass DEF DRRInit
<1> QED BY <1>1, <1>3, <1>4 DEF TurnInv

LEMMA TurnInvNext == TurnInv /\ [DRRNext]_drr_vars /\ [WeightsKept]_drr_vars => TurnInv'
<1> SUFFICES ASSUME TurnInv, [DRRNext]_drr_vars, [WeightsKept]_drr_vars PROVE TurnInv'
  OBVIOUS
<1>1. Wellformed(sched') BY DRRForm DEF TurnInv
<1>2. DRRTypeOK' BY DRRTypeNext DEF TurnInv
<1>3. WithinQuantum(sched') BY DRRQuantum DEF TurnInv
<1>4. BypassHolds(sched', bypass') BY <1>1, <1>3, DRRBypass DEF TurnInv, DRRTypeOK
<1>5. Wellformed(sched)' BY <1>1 DEF Wellformed, WellKept, Scannable, Backlog, Registered
<1>6. WithinQuantum(sched)' BY <1>3 DEF WithinQuantum
<1>7. BypassHolds(sched, bypass)'
  BY <1>4 DEF BypassHolds, Serviceable, BelowCap, Owed, Ahead, Charged, TagAt, OthersQuanta
<1> QED BY <1>2, <1>5, <1>6, <1>7 DEF TurnInv

\* However pushes, dequeues, ends of tasks, pauses, clear() and ConfigureTag calls follow
\* one another, a tag's deficit stays between zero and one quantum - as long as no weight
\* is lowered.
THEOREM DeficitStaysWithinQuantum ==
    DRRSpec /\ [][WeightsKept]_drr_vars => []DeficitWithinQuantum
<1>1. TurnInv => DeficitWithinQuantum BY DEF TurnInv, DeficitWithinQuantum
<1> QED BY <1>1, TurnInvStart, TurnInvNext, PTL DEF DRRSpec

\* A tag with a task it may start is passed over for at most one quantum of each other
\* tag, for any number of tags, weights, bounds and caps, also when tags register, are
\* cleared or drop their oldest tasks meanwhile - as long as no weight is lowered.
THEOREM NoTagIsStarved ==
    DRRSpec /\ [][WeightsKept]_drr_vars => []BypassBounded
<1>1. TurnInv => BypassBounded
  <2> SUFFICES ASSUME TurnInv, NEW t \in Tag
               PROVE  bypass[t] <= Cardinality(OthersQuanta(sched, t))
    BY DEF BypassBounded
  <2>1. IsFiniteSet(Tag) /\ sched \in Sched /\ WithinQuantum(sched) /\ bypass[t] \in Nat
    BY DRRAssumption DEF TurnInv, DRRTypeOK
  <2>2. /\ Cardinality(Owed(sched, t)) \in Nat /\ Cardinality(OthersQuanta(sched, t)) \in Nat
    BY <2>1, OwedWithinQuanta, OthersFinite
  <2>3. bypass[t] + Cardinality(Owed(sched, t)) <= Cardinality(OthersQuanta(sched, t))
    BY DEF TurnInv, BypassHolds
  <2> QED BY <2>1, <2>2, <2>3
<1> QED BY <1>1, TurnInvStart, TurnInvNext, PTL DEF DRRSpec

-----------------------------------------------------------------------------
\* Shares of the scheduler driven alone

\* A tag of weight w and deficit d has been served s tasks in k visits, the first of which
\* may have been short.  A visit that has begun, or has a rest to begin with, is not counted.
Visits(s, d, w, k) == IF d = 0 THEN (k - 1) * w < s /\ s <= k * w
                               ELSE k * w < s + d /\ s + d <= (k + 1) * w

\* A task served within a visit, or the last one of it.
LEMMA VisitGoesOn ==
    ASSUME NEW w \in Nat \ {0}, NEW d \in 0 .. w, NEW s \in Nat, NEW k \in Int,
           Visits(s, d, w, k), NEW c, c = IF d < 1 THEN d + w ELSE d
    PROVE  /\ c - 1 >= 1 => Visits(s + 1, c - 1, w, k)
           /\ ~(c - 1 >= 1) => Visits(s + 1, c - 1, w, k + 1)
<1>1. PICK p \in Int : p = k * w BY Z3
<1>2. (k - 1) * w = p - w /\ (k + 1) * w = p + w BY <1>1, Z3
<1>3. k + 1 \in Int /\ (k + 1) - 1 = k OBVIOUS
<1>4. CASE d = 0
  <2>1. c = w /\ p - w < s /\ s <= p BY <1>1, <1>2, <1>4 DEF Visits
  <2>2. CASE w - 1 >= 1
    <3>1. p < (s + 1) + (w - 1) /\ (s + 1) + (w - 1) <= p + w BY <1>1, <2>1, <2>2
    <3> QED BY <1>1, <1>2, <2>1, <2>2, <3>1 DEF Visits
  <2>3. CASE ~(w - 1 >= 1)
    <3>1. c - 1 = 0 /\ p < s + 1 /\ s + 1 <= p + w BY <1>1, <2>1, <2>3
    <3> QED BY <1>1, <1>2, <1>3, <2>1, <2>3, <3>1 DEF Visits
  <2> QED BY <2>2, <2>3
<1>5. CASE d # 0
  <2>1. c = d /\ p < s + d /\ s + d <= p + w BY <1>1, <1>2, <1>5 DEF Visits
  <2>2. CASE d - 1 >= 1
    <3>1. (s + 1) + (d - 1) = s + d /\ d - 1 # 0 BY <2>2
    <3> QED BY <1>1, <1>2, <2>1, <2>2, <3>1 DEF Visits
  <2>3. CASE ~(d - 1 >= 1)
    <3>1. d = 1 /\ c - 1 = 0 BY <1>5, <2>1, <2>3
    <3> QED BY <1>1, <1>2, <1>3, <2>1, <2>3, <3>1 DEF Visits
  <2> QED BY <2>2, <2>3
<1> QED BY <1>4, <1>5

\* A quantum less served is a visit less.
LEMMA OneRoundLess ==
    ASSUME NEW w \in Nat \ {0}, NEW d \in 0 .. w, NEW s \in Nat, NEW k \in Int,
           Visits(s, d, w, k)
    PROVE  Visits(s - w, d, w, k - 1)
<1>1. PICK p \in Int : p = k * w BY Z3
<1>2. (k - 1) * w = p - w /\ (k + 1) * w = p + w /\ ((k - 1) - 1) * w = p - 2 * w
  BY <1>1, Z3
<1>3. (k - 1) + 1 = k OBVIOUS
<1>4. CASE d = 0
  <2>1. p - w < s /\ s <= p BY <1>1, <1>2, <1>4 DEF Visits
  <2>2. p - 2 * w < s - w /\ s - w <= p - w BY <1>1, <2>1
  <2> QED BY <1>2, <1>4, <2>2 DEF Visits
<1>5. CASE d # 0
  <2>1. p < s + d /\ s + d <= p + w BY <1>1, <1>2, <1>5 DEF Visits
  <2>2. p - w < (s - w) + d /\ (s - w) + d <= p BY <1>1, <2>1
  <2> QED BY <1>1, <1>2, <1>3, <1>5, <2>2 DEF Visits
<1> QED BY <1>4, <1>5

\* Nothing served, no visit ended.
LEMMA NoVisit ==
    ASSUME NEW w \in Nat \ {0}, NEW d \in 0 .. w
    PROVE  Visits(0, d, w, 0)
<1>1. (0 - 1) * w = -w /\ 0 * w = 0 /\ (0 + 1) * w = w BY Z3
<1> QED BY <1>1 DEF Visits

\* A task more, or a visit more.
LEMMA OneTaskMore ==
    ASSUME NEW w \in Nat \ {0}, NEW d \in 0 .. w, NEW s \in Nat, NEW k \in Int,
           Visits(s, d, w, k)
    PROVE  Visits(s + 1, d, w, k) \/ Visits(s + 1, d, w, k + 1)
<1>1. PICK p \in Int : p = k * w BY Z3
<1>2. /\ (k - 1) * w = p - w /\ (k + 1) * w = p + w /\ ((k + 1) + 1) * w = p + 2 * w
      /\ ((k + 1) - 1) * w = p
  BY <1>1, Z3
<1>3. CASE d = 0
  <2>1. p - w < s /\ s <= p BY <1>1, <1>2, <1>3 DEF Visits
  <2>2. \/ p - w < s + 1 /\ s + 1 <= p
        \/ p < s + 1 /\ s + 1 <= p + w
    BY <1>1, <2>1
  <2> QED BY <1>1, <1>2, <1>3, <2>2 DEF Visits
<1>4. CASE d # 0
  <2>1. p < s + d /\ s + d <= p + w BY <1>1, <1>2, <1>4 DEF Visits
  <2>2. \/ p < (s + 1) + d /\ (s + 1) + d <= p + w
        \/ p + w < (s + 1) + d /\ (s + 1) + d <= p + 2 * w
    BY <1>1, <2>1
  <2> QED BY <1>1, <1>2, <1>4, <2>2 DEF Visits
<1> QED BY <1>3, <1>4

\* k counts the visits to each tag: along the scan they grow by at most one in all, and a
\* tag that is not at the cursor has begun no visit it has not ended.
Rotation(S, s, k) ==
    LET n == Len(S.m_TagOrder) IN
    /\ \A t \in Tag : Visits(s[t], S.iDeficit[t], S.Config[t].iWeight, k[t])
    /\ \A i, j \in 0 .. n - 1 : i <= j =>
         /\ k[TagAt(S, i)] <= k[TagAt(S, j)]
         /\ k[TagAt(S, j)] <= k[TagAt(S, i)] + 1
    /\ \A i \in 1 .. n - 1 :
         S.iDeficit[TagAt(S, i)] # 0 => s[TagAt(S, i)] = 0

\* What the history share says: while it counts, all tags have a place in the order.
ShareHolds(S, s) ==
    /\ (\E t \in Tag : s[t] # 0) => Tag \subseteq Registered(S)
    /\ \E k \in [Tag -> Int] : Rotation(S, s, k)

\* Rotation reads the order, the cursor, the deficits and the weights only.
LEMMA SameRotation ==
    ASSUME NEW S, NEW s, NEW k, Rotation(S, s, k), NEW R,
           R.m_TagOrder = S.m_TagOrder, R.m_iTagCursor = S.m_iTagCursor,
           R.iDeficit = S.iDeficit, R.Config = S.Config
    PROVE  Rotation(R, s, k)
<1>1. \A j : TagAt(R, j) = TagAt(S, j) BY DEF TagAt
<1> QED BY <1>1 DEF Rotation

\* A fresh history of shares fits any state.
LEMMA NoShare ==
    ASSUME NEW S \in Sched, WithinQuantum(S)
    PROVE  ShareHolds(S, NoHistory)
<1> DEFINE k == [t \in Tag |-> 0]
<1>1. ASSUME NEW t \in Tag
      PROVE  Visits(NoHistory[t], S.iDeficit[t], S.Config[t].iWeight, k[t])
  <2>1. NoHistory[t] = 0 /\ k[t] = 0 BY DEF NoHistory
  <2> QED BY <2>1, ChargedRange, NoVisit
<1>2. PICK n \in Nat : n = Len(S.m_TagOrder) BY SchedFields, LenProperties
<1>3. ASSUME NEW i \in 0 .. n - 1 PROVE k[TagAt(S, i)] = 0 /\ NoHistory[TagAt(S, i)] = 0
  <2>1. TagAt(S, i) \in Tag BY <1>2, TagAtType
  <2> QED BY <2>1 DEF NoHistory
<1>4. \A i \in 1 .. n - 1 : NoHistory[TagAt(S, i)] = 0 BY <1>3
<1> HIDE DEF k
<1>5. Rotation(S, NoHistory, k) BY <1>1, <1>2, <1>3, <1>4 DEF Rotation
<1>6. k \in [Tag -> Int] BY DEF k
<1>7. \A t \in Tag : NoHistory[t] = 0 BY DEF NoHistory
<1> QED BY <1>5, <1>6, <1>7 DEF ShareHolds

\* Taking a whole round out of all shares changes nothing.
LEMMA RotationNormalised ==
    ASSUME NEW S \in Sched, WithinQuantum(S), NEW s \in [Tag -> Nat], NEW k \in [Tag -> Int],
           Rotation(S, s, k), \A t \in Tag : s[t] >= S.Config[t].iWeight
    PROVE  Rotation(S, [t \in Tag |-> s[t] - S.Config[t].iWeight], [t \in Tag |-> k[t] - 1])
<1> DEFINE s2 == [t \in Tag |-> s[t] - S.Config[t].iWeight]
           k2 == [t \in Tag |-> k[t] - 1]
<1>1. PICK n \in Nat : n = Len(S.m_TagOrder) BY SchedFields, LenProperties
<1>2. \A i \in 0 .. n - 1 : TagAt(S, i) \in Tag BY <1>1, TagAtType
<1>3. ASSUME NEW t \in Tag PROVE Visits(s2[t], S.iDeficit[t], S.Config[t].iWeight, k2[t])
  <2>1. Visits(s[t], S.iDeficit[t], S.Config[t].iWeight, k[t]) BY DEF Rotation
  <2> QED BY <2>1, ChargedRange, OneRoundLess
<1>4. ASSUME NEW i \in 0 .. n - 1, NEW j \in 0 .. n - 1, i <= j
      PROVE  k2[TagAt(S, i)] <= k2[TagAt(S, j)] /\ k2[TagAt(S, j)] <= k2[TagAt(S, i)] + 1
  <2>1. PICK a \in Int, b \in Int : a = k[TagAt(S, i)] /\ b = k[TagAt(S, j)] BY <1>2
  <2>2. a <= b /\ b <= a + 1 BY <1>1, <1>4, <2>1 DEF Rotation
  <2>3. k2[TagAt(S, i)] = a - 1 /\ k2[TagAt(S, j)] = b - 1 BY <1>2, <2>1
  <2> HIDE DEF k2
  <2> QED BY <2>2, <2>3
<1>5. ASSUME NEW i \in 1 .. n - 1 PROVE S.iDeficit[TagAt(S, i)] = 0
  <2>1. TagAt(S, i) \in Tag BY <1>2
  <2>2. PICK x \in Nat, w \in Nat \ {0} : x = s[TagAt(S, i)] /\ w = S.Config[TagAt(S, i)].iWeight
    BY <2>1, ChargedRange
  <2>3. x # 0 BY <2>1, <2>2
  <2> QED BY <1>1, <2>2, <2>3 DEF Rotation
<1> HIDE DEF s2, k2
<1>6. Rotation(S, s2, k2) BY <1>1, <1>3, <1>4, <1>5 DEF Rotation
<1> QED BY <1>6 DEF s2, k2

\* The history after a step, whether a whole round was taken out or not.
LEMMA ShareNormalised ==
    ASSUME sched \in Sched, WithinQuantum(sched), NEW s \in [Tag -> Nat],
           NEW R \in Sched, WithinQuantum(R), R.Config = sched.Config,
           Tag \subseteq Registered(R), NEW k \in [Tag -> Int], Rotation(R, s, k)
    PROVE  ShareHolds(R, Normalised(s))
<1>1. CASE \A t \in Tag : s[t] >= sched.Config[t].iWeight
  <2>1. PICK k2 : k2 = [t \in Tag |-> k[t] - 1] OBVIOUS
  <2>2. k2 \in [Tag -> Int] BY <2>1
  <2>3. Rotation(R, Normalised(s), k2)
    BY <1>1, <2>1, RotationNormalised DEF Normalised
  <2> QED BY <2>2, <2>3 DEF ShareHolds
<1>2. CASE ~\A t \in Tag : s[t] >= sched.Config[t].iWeight
  BY <1>2 DEF Normalised, ShareHolds
<1> QED BY <1>1, <1>2

\* While all tags can be served, the round robin serves the one at the cursor, and hands
\* the turn on when that visit ends.
LEMMA VisitRotates ==
    ASSUME NEW S, Wellformed(S), WithinQuantum(S), \A t \in Tag : Serviceable(S, t),
           NEW r, NEW f \in Nat, NEW moved \in Nat, Visit(S, r, f, moved),
           r.sched.Config = S.Config, \A t \in Tag : Serviceable(r.sched, t),
           NEW s \in [Tag -> Nat], NEW k \in [Tag -> Int], Rotation(S, s, k)
    PROVE  \E k2 \in [Tag -> Int] : Rotation(r.sched, [s EXCEPT ![r.tag] = @ + 1], k2)
<1> DEFINE R == r.sched
           tag == r.tag
           s2 == [s EXCEPT ![tag] = @ + 1]
           k2 == IF moved = 0 THEN k ELSE [k EXCEPT ![tag] = @ + 1]
<1>1. S \in Sched /\ Scannable(S) BY DEF Wellformed
<1>2. PICK n \in Nat : n = Len(S.m_TagOrder) BY <1>1, SchedFields, LenProperties
<1>3. f \in 0 .. n - 1 /\ moved \in {0, 1} /\ tag = TagAt(S, f) /\ tag \in Tag
  BY <1>2 DEF Visit
<1>4. n # 0 /\ \A i \in Nat : TagAt(S, i) \in Tag BY <1>1, <1>2, <1>3, TagAtType
<1>5. f = 0
  <2>1. SUFFICES ASSUME f # 0 PROVE FALSE OBVIOUS
  <2>2. 0 \in 0 .. f - 1 BY <2>1
  <2>3. ~Serviceable(S, TagAt(S, 0)) BY <2>2 DEF Visit
  <2> QED BY <1>4, <2>3
<1>6. k2 \in [Tag -> Int] BY <1>3
<1>7. s2[tag] = s[tag] + 1 /\ k2[tag] = (IF moved = 0 THEN k[tag] ELSE k[tag] + 1) BY <1>3
<1>8. \A u \in Tag : u # tag => s2[u] = s[u] /\ k2[u] = k[u] BY <1>3
<1>9. \A u \in Tag : u # tag => R.iDeficit[u] = S.iDeficit[u] BY <1>5 DEF Visit
<1>10. PICK c : c = Charged(S, tag) OBVIOUS
<1>11. R.iDeficit[tag] = c - 1 /\ (moved = 0 <=> c - 1 >= 1)
  BY <1>3, <1>10 DEF Visit
<1>12. c \in Nat \ {0} BY <1>1, <1>3, <1>10, ChargedRange
<1>13. /\ R.m_TagOrder = S.m_TagOrder
       /\ R.m_iTagCursor = (S.m_iTagCursor + moved) % n
  <2>1. 0 + moved = moved OBVIOUS
  <2> QED BY <1>2, <1>5, <2>1 DEF Visit
<1>14. ASSUME NEW j \in Nat PROVE TagAt(R, j) = TagAt(S, moved + j)
  <2>1. Len(S.m_TagOrder) # 0 BY <1>2, <1>4
  <2>2. /\ R.m_TagOrder = S.m_TagOrder
        /\ R.m_iTagCursor = (S.m_iTagCursor + moved) % Len(S.m_TagOrder)
    BY <1>2, <1>13
  <2> HIDE DEF R
  <2> QED BY <1>1, <2>1, <2>2, TagAtMoved
<1> HIDE DEF s2, k2
<1>15. ASSUME NEW t \in Tag PROVE Visits(s2[t], R.iDeficit[t], S.Config[t].iWeight, k2[t])
  <2>1. Visits(s[t], S.iDeficit[t], S.Config[t].iWeight, k[t]) BY DEF Rotation
  <2>2. CASE t # tag BY <1>8, <1>9, <2>1, <2>2
  <2>3. CASE t = tag
    <3>1. PICK w \in Nat \ {0} : w = S.Config[t].iWeight BY <1>1, ChargedRange
    <3>2. PICK d \in 0 .. w : d = S.iDeficit[t] BY <1>1, <3>1, ChargedRange
    <3>3. c = IF d < 1 THEN d + w ELSE d BY <1>10, <2>3, <3>1, <3>2 DEF Charged
    <3>4. PICK x \in Nat, y \in Int : x = s[t] /\ y = k[t] OBVIOUS
    <3>5. Visits(x, d, w, y) BY <2>1, <3>1, <3>2, <3>4
    <3>6. /\ c - 1 >= 1 => Visits(x + 1, c - 1, w, y)
          /\ ~(c - 1 >= 1) => Visits(x + 1, c - 1, w, y + 1)
      BY <3>3, <3>5, VisitGoesOn
    <3> QED BY <1>7, <1>11, <2>3, <3>1, <3>4, <3>6
  <2> QED BY <2>2, <2>3
<1>16. CASE moved = 0
  <2>1. \A j \in Nat : TagAt(R, j) = TagAt(S, j) BY <1>14, <1>16
  <2>2. k2 = k BY <1>16 DEF k2
  <2>3. ASSUME NEW i \in 1 .. n - 1, R.iDeficit[TagAt(R, i)] # 0 PROVE s2[TagAt(R, i)] = 0
    <3>1. TagAt(S, i) # tag
      <4>1. i \in 0 .. n - 1 /\ i # f BY <1>5
      <4> QED BY <1>1, <1>2, <1>3, <4>1, TagAtOnce
    <3>2. TagAt(R, i) = TagAt(S, i) /\ TagAt(S, i) \in Tag BY <1>4, <2>1
    <3>3. S.iDeficit[TagAt(S, i)] # 0 BY <1>9, <2>3, <3>1, <3>2
    <3>4. s[TagAt(S, i)] = 0 BY <1>2, <3>3 DEF Rotation
    <3> QED BY <1>8, <3>1, <3>2, <3>4
  <2>4. ASSUME NEW i \in 0 .. n - 1, NEW j \in 0 .. n - 1, i <= j
        PROVE  k2[TagAt(R, i)] <= k2[TagAt(R, j)] /\ k2[TagAt(R, j)] <= k2[TagAt(R, i)] + 1
    <3>1. TagAt(R, i) = TagAt(S, i) /\ TagAt(R, j) = TagAt(S, j) BY <2>1
    <3> QED BY <1>2, <2>2, <2>4, <3>1 DEF Rotation
  <2>5. Rotation(R, s2, k2) BY <1>2, <1>13, <1>15, <2>3, <2>4 DEF Rotation
  <2> QED BY <1>6, <2>5 DEF s2
<1>17. CASE moved = 1
  <2>1. \A j \in Nat : TagAt(R, j) = TagAt(S, 1 + j) BY <1>14, <1>17
  <2>2. TagAt(R, n - 1) = tag
    <3>1. n - 1 \in Nat /\ 1 + (n - 1) = 0 + n BY <1>4
    <3>2. TagAt(S, 0 + n) = TagAt(S, 0) BY <1>1, <1>2, <1>4, TagAtPeriodic
    <3> QED BY <1>3, <1>5, <2>1, <3>1, <3>2
  <2>3. ASSUME NEW i \in 0 .. n - 1, i # n - 1
        PROVE  /\ i + 1 \in 1 .. n - 1 /\ TagAt(R, i) = TagAt(S, i + 1)
               /\ TagAt(S, i + 1) # tag /\ TagAt(S, i + 1) \in Tag
    <3>1. i + 1 \in 1 .. n - 1 /\ i + 1 \in 0 .. n - 1 /\ i + 1 = 1 + i /\ i \in Nat BY <2>3
    <3>2. TagAt(S, i + 1) # tag
      <4>1. i + 1 # f BY <1>5, <3>1
      <4> QED BY <1>1, <1>2, <1>3, <3>1, <4>1, TagAtOnce
    <3> QED BY <1>4, <2>1, <3>1, <3>2
  <2>4. c - 1 = 0 /\ k2[tag] = k[tag] + 1 BY <1>7, <1>11, <1>12, <1>17
  <2>5. ASSUME NEW i \in 1 .. n - 1, R.iDeficit[TagAt(R, i)] # 0 PROVE s2[TagAt(R, i)] = 0
    <3>1. i \in 0 .. n - 1 OBVIOUS
    <3>2. i # n - 1 BY <1>11, <2>2, <2>4, <2>5
    <3>3. /\ i + 1 \in 1 .. n - 1 /\ TagAt(R, i) = TagAt(S, i + 1)
          /\ TagAt(S, i + 1) # tag /\ TagAt(S, i + 1) \in Tag
      BY <2>3, <3>1, <3>2
    <3>4. S.iDeficit[TagAt(S, i + 1)] # 0 BY <1>9, <2>5, <3>3
    <3>5. s[TagAt(S, i + 1)] = 0 BY <1>2, <3>3, <3>4 DEF Rotation
    <3> QED BY <1>8, <3>3, <3>5
  <2>6. ASSUME NEW i \in 0 .. n - 1, NEW j \in 0 .. n - 1, i <= j
        PROVE  k2[TagAt(R, i)] <= k2[TagAt(R, j)] /\ k2[TagAt(R, j)] <= k2[TagAt(R, i)] + 1
    <3>1. CASE j # n - 1
      <4>1. i # n - 1 BY <2>6, <3>1
      <4>2. /\ i + 1 \in 0 .. n - 1 /\ j + 1 \in 0 .. n - 1 /\ i + 1 <= j + 1
            /\ TagAt(R, i) = TagAt(S, i + 1) /\ TagAt(R, j) = TagAt(S, j + 1)
            /\ k2[TagAt(R, i)] = k[TagAt(S, i + 1)] /\ k2[TagAt(R, j)] = k[TagAt(S, j + 1)]
        <5>1. i + 1 \in 1 .. n - 1 /\ j + 1 \in 1 .. n - 1 BY <2>3, <3>1, <4>1
        <5>2. i + 1 \in 0 .. n - 1 /\ j + 1 \in 0 .. n - 1 /\ i + 1 <= j + 1
          BY <2>6, <5>1
        <5> QED BY <1>8, <2>3, <3>1, <4>1, <5>2
      <4> QED BY <1>2, <4>2 DEF Rotation
    <3>2. CASE j = n - 1 /\ i # n - 1
      <4>1. /\ i + 1 \in 0 .. n - 1 /\ 0 \in 0 .. n - 1 /\ 0 <= i + 1
            /\ TagAt(R, i) = TagAt(S, i + 1) /\ k2[TagAt(R, i)] = k[TagAt(S, i + 1)]
        <5>1. i + 1 \in 1 .. n - 1 BY <2>3, <3>2
        <5>2. i + 1 \in 0 .. n - 1 /\ 0 \in 0 .. n - 1 /\ 0 <= i + 1 BY <1>4, <5>1
        <5> QED BY <1>8, <2>3, <3>2, <5>2
      <4>2. PICK a \in Int, b \in Int : a = k[tag] /\ b = k[TagAt(S, i + 1)]
        <5>1. i + 1 \in Nat OBVIOUS
        <5> QED BY <1>3, <1>4, <5>1
      <4>3. a <= b /\ b <= a + 1 BY <1>2, <1>3, <1>5, <4>1, <4>2 DEF Rotation
      <4>4. k2[TagAt(R, j)] = a + 1 /\ k2[TagAt(R, i)] = b
        BY <2>2, <2>4, <3>2, <4>1, <4>2
      <4> QED BY <4>2, <4>3, <4>4
    <3>3. CASE j = n - 1 /\ i = n - 1
      <4>1. k2[TagAt(R, i)] \in Int BY <1>3, <1>6, <2>2, <3>3
      <4> QED BY <3>3, <4>1
    <3> QED BY <3>1, <3>2, <3>3
  <2>7. Rotation(R, s2, k2) BY <1>2, <1>13, <1>15, <2>5, <2>6 DEF Rotation
  <2> QED BY <1>6, <2>7 DEF s2
<1> QED BY <1>3, <1>16, <1>17

\* With one tag there is nothing to compare.
LEMMA OnlyTagRotates ==
    ASSUME NEW S, Wellformed(S), WithinQuantum(S), NEW r, Wellformed(r.sched),
           NEW tag \in Tag, Tag = {tag}, Registered(S) = {tag},
           r.sched.iDeficit = S.iDeficit, r.sched.Config = S.Config,
           r.sched.m_TagOrder = S.m_TagOrder,
           NEW s \in [Tag -> Nat], NEW k \in [Tag -> Int], Rotation(S, s, k)
    PROVE  \E k2 \in [Tag -> Int] : Rotation(r.sched, [s EXCEPT ![tag] = @ + 1], k2)
<1> DEFINE R == r.sched
           s2 == [s EXCEPT ![tag] = @ + 1]
<1>1. R \in Sched /\ Scannable(R) /\ S \in Sched BY DEF Wellformed
<1>2. PICK n \in Nat : n = Len(R.m_TagOrder) BY <1>1, SchedFields, LenProperties
<1>3. n <= 1
  <2>1. SUFFICES ASSUME n > 1 PROVE FALSE BY <1>2
  <2>2. 1 \in 1 .. n /\ 2 \in 1 .. n BY <2>1
  <2>3. R.m_TagOrder[1] = tag /\ R.m_TagOrder[2] = tag BY <1>2, <2>2 DEF Registered
  <2> QED BY <1>1, <1>2, <2>2, <2>3 DEF Scannable
<1>4. \A i \in 1 .. n - 1 : FALSE BY <1>2, <1>3
<1>5. ASSUME NEW k2 \in [Tag -> Int], NEW i \in 0 .. n - 1, NEW j \in 0 .. n - 1
      PROVE  k2[TagAt(R, i)] <= k2[TagAt(R, j)] /\ k2[TagAt(R, j)] <= k2[TagAt(R, i)] + 1
  <2>1. i = j BY <1>2, <1>3
  <2>2. TagAt(R, i) \in Tag BY <1>1, <1>2, TagAtType
  <2>3. k2[TagAt(R, i)] \in Int BY <2>2
  <2> QED BY <2>1, <2>3
<1>6. PICK w \in Nat \ {0} : w = S.Config[tag].iWeight BY <1>1, ChargedRange
<1>7. PICK d \in 0 .. w : d = S.iDeficit[tag] BY <1>1, <1>6, ChargedRange
<1>8. PICK x \in Nat, y \in Int : x = s[tag] /\ y = k[tag] OBVIOUS
<1>9. Visits(x, d, w, y) BY <1>6, <1>7, <1>8 DEF Rotation
<1>10. PICK y2 \in Int : Visits(x + 1, d, w, y2)
  <2>1. y + 1 \in Int OBVIOUS
  <2> QED BY <1>9, <2>1, OneTaskMore
<1>11. PICK k2 : k2 = [t \in Tag |-> y2] OBVIOUS
<1>12. k2 \in [Tag -> Int] BY <1>11
<1>13. \A t \in Tag : Visits(s2[t], R.iDeficit[t], R.Config[t].iWeight, k2[t])
  BY <1>6, <1>7, <1>8, <1>10, <1>11
<1> HIDE DEF s2
<1>14. Rotation(R, s2, k2) BY <1>2, <1>4, <1>5, <1>12, <1>13 DEF Rotation
<1> QED BY <1>12, <1>14 DEF s2

\* Without tags there is nothing to share.
LEMMA NoTags ==
    ASSUME Tag = {}, NEW S \in Sched, NEW s
    PROVE  ShareHolds(S, s)
<1>1. PICK n \in Nat : n = Len(S.m_TagOrder) BY SchedFields, LenProperties
<1>2. n = 0
  <2>1. SUFFICES ASSUME n # 0 PROVE FALSE OBVIOUS
  <2>2. 1 \in 1 .. Len(S.m_TagOrder) BY <1>1, <2>1
  <2>3. S.m_TagOrder[1] \in Tag BY <2>2, SchedFields, ElementOfSeq
  <2> QED BY <2>3
<1>3. PICK k : k = [t \in Tag |-> 0] OBVIOUS
<1>4. k \in [Tag -> Int] BY <1>3
<1>5. Rotation(S, s, k)
  <2>1. \A i \in 0 .. n - 1 : FALSE BY <1>2
  <2>2. \A i \in 1 .. n - 1 : FALSE BY <1>2
  <2> QED BY <1>1, <2>1, <2>2 DEF Rotation
<1> QED BY <1>4, <1>5 DEF ShareHolds

\* the shares s after a step that served `served`
Added(s, served) == [t \in Tag |-> IF t \in served THEN s[t] + 1 ELSE s[t]]

\* A step whose served task keeps the rotation keeps the shares.
LEMMA RememberShare ==
    ASSUME Wellformed(sched), Wellformed(sched'), WithinQuantum(sched), WithinQuantum(sched'),
           sched'.Config = sched.Config, share \in [Tag -> Nat],
           NEW served, Remember(served),
           (\A t \in Tag : Serviceable(sched, t) /\ Serviceable(sched', t)) =>
               \E k \in [Tag -> Int] : Rotation(sched', Added(share, served), k)
    PROVE  ShareHolds(sched', share')
<1>1. CASE \A t \in Tag : Serviceable(sched, t) /\ Serviceable(sched', t)
  <2>1. PICK k \in [Tag -> Int] : Rotation(sched', Added(share, served), k) BY <1>1
  <2>2. share' = Normalised(Added(share, served)) BY <1>1 DEF Remember, Added
  <2>3. Added(share, served) \in [Tag -> Nat] BY DEF Added
  <2>4. Tag \subseteq Registered(sched')
    <3>1. ASSUME NEW t \in Tag PROVE t \in Registered(sched')
      BY <1>1, ServiceableRegistered DEF Wellformed
    <3> QED BY <3>1
  <2>5. sched \in Sched /\ sched' \in Sched BY DEF Wellformed
  <2> QED BY <2>1, <2>2, <2>3, <2>4, <2>5, ShareNormalised
<1>2. CASE ~\A t \in Tag : Serviceable(sched, t) /\ Serviceable(sched', t)
  <2>1. share' = NoHistory BY <1>2 DEF Remember
  <2>2. sched' \in Sched BY DEF Wellformed
  <2> QED BY <2>1, <2>2, NoShare
<1> QED BY <1>1, <1>2

\* A step that neither serves nor moves the round robin.
LEMMA IdleShare ==
    ASSUME Wellformed(sched), Wellformed(sched'), WithinQuantum(sched), WithinQuantum(sched'),
           share \in [Tag -> Nat], ShareHolds(sched, share), Remember({}),
           sched'.Config = sched.Config,
           (\A t \in Tag : Serviceable(sched, t)) =>
               /\ sched'.m_TagOrder = sched.m_TagOrder
               /\ sched'.m_iTagCursor = sched.m_iTagCursor
               /\ sched'.iDeficit = sched.iDeficit
    PROVE  ShareHolds(sched', share')
<1>1. Added(share, {}) = share BY DEF Added
<1>2. PICK k \in [Tag -> Int] : Rotation(sched, share, k) BY DEF ShareHolds
<1>3. (\A t \in Tag : Serviceable(sched, t)) => Rotation(sched', share, k)
  BY <1>2, SameRotation
<1> QED BY <1>1, <1>3, RememberShare

\* A dequeue keeps the shares, whichever branch of sched_dequeue it takes.
LEMMA ServeShare ==
    ASSUME Wellformed(sched), Wellformed(sched'), WithinQuantum(sched), WithinQuantum(sched'),
           share \in [Tag -> Nat], ShareHolds(sched, share), Serve, Tag # {}
    PROVE  ShareHolds(sched', share')
<1>1. sched \in Sched /\ WellKept(sched) BY DEF Wellformed
<1>2. PICK r : r = sched_dequeue(sched) OBVIOUS
<1>3. sched' = r.sched /\ Remember(IF r.bFound THEN {r.tag} ELSE {})
  BY <1>2 DEF Serve
<1>4. sched'.Config = sched.Config BY <1>2, <1>3, DequeueForm
<1>5. CASE ~r.bFound
  <2>1. CASE sched.m_bQueuePaused
    <3>1. r = Nothing(sched) BY <1>2, <2>1 DEF sched_dequeue
    <3>2. sched' = sched BY <1>3, <3>1 DEF Nothing
    <3> QED BY <1>3, <1>5, <3>2, IdleShare
  <2>2. CASE ~sched.m_bQueuePaused
    <3>1. \A t \in Tag : ~Serviceable(sched, t)
      BY <1>1, <1>2, <1>5, <2>2, DequeueSteps DEF DequeueStep
    <3> QED BY <1>3, <1>4, <1>5, <3>1, IdleShare
  <2> QED BY <2>1, <2>2
<1>6. CASE r.bFound
  <2>1. SUFFICES ASSUME \A t \in Tag : Serviceable(sched, t), \A t \in Tag : Serviceable(sched', t)
                 PROVE  \E k \in [Tag -> Int] : Rotation(sched', Added(share, {r.tag}), k)
    BY <1>3, <1>4, <1>6, RememberShare
  <2>2. PICK tag \in Tag : tag = r.tag BY <1>2, <1>6, DequeueForm
  <2>3. Added(share, {r.tag}) = [share EXCEPT ![r.tag] = @ + 1] BY <2>2 DEF Added
  <2>4. PICK k \in [Tag -> Int] : Rotation(sched, share, k) BY DEF ShareHolds
  <2>5. CASE \E f, moved \in Nat : Visit(sched, r, f, moved)
    <3>1. PICK f \in Nat, moved \in Nat : Visit(sched, r, f, moved) BY <2>5
    <3>2. /\ r.sched.Config = sched.Config
          /\ \A t \in Tag : Serviceable(r.sched, t)
      BY <1>3, <1>4, <2>1
    <3>3. \E k2 \in [Tag -> Int] : Rotation(r.sched, [share EXCEPT ![r.tag] = @ + 1], k2)
      BY <2>1, <2>4, <3>1, <3>2, VisitRotates
    <3> QED BY <1>3, <2>3, <3>3
  <2>6. CASE ~\E f, moved \in Nat : Visit(sched, r, f, moved)
    <3>1. /\ r.sched.m_TagOrder = sched.m_TagOrder
          /\ Registered(sched) = {tag} /\ r.sched.iDeficit = sched.iDeficit
      BY <1>1, <1>2, <1>6, <2>2, <2>6, DequeueVisit
    <3>2. Tag = {tag}
      <4>1. ASSUME NEW t \in Tag PROVE t \in Registered(sched)
        BY <1>1, <2>1, ServiceableRegistered
      <4> QED BY <3>1, <4>1
    <3>3. Wellformed(r.sched) /\ r.sched.Config = sched.Config BY <1>2, DequeueForm
    <3>4. \E k2 \in [Tag -> Int] : Rotation(r.sched, [share EXCEPT ![tag] = @ + 1], k2)
      BY <2>4, <3>1, <3>2, <3>3, OnlyTagRotates
    <3> QED BY <1>3, <2>2, <2>3, <3>4
  <2> QED BY <2>5, <2>6
<1> QED BY <1>5, <1>6

\* So does every other step.
LEMMA DRRShare ==
    ASSUME Wellformed(sched), Wellformed(sched'), WithinQuantum(sched), WithinQuantum(sched'),
           share \in [Tag -> Nat], ShareHolds(sched, share), [DRRNext]_drr_vars
    PROVE  ShareHolds(sched', share')
<1>1. sched \in Sched /\ sched' \in Sched /\ WellKept(sched) BY DEF Wellformed
<1>2. CASE Tag = {} BY <1>1, <1>2, NoTags
<1> SUFFICES ASSUME Tag # {} PROVE ShareHolds(sched', share') BY <1>2
<1>3. ASSUME NEW t \in Tag, Push(t) PROVE ShareHolds(sched', share')
  <2>1. PICK k \in Task : sched' = sched_enqueue(sched, t, k).sched BY <1>3 DEF Push
  <2>2. /\ sched'.m_TagOrder = sched_tag(sched, t).m_TagOrder
        /\ sched'.m_iTagCursor = sched.m_iTagCursor
        /\ sched'.iDeficit = sched.iDeficit /\ sched'.Config = sched.Config
    BY <2>1, EnqueueForm
  <2>3. ASSUME \A u \in Tag : Serviceable(sched, u)
        PROVE  sched'.m_TagOrder = sched.m_TagOrder
    <3>1. t \in Registered(sched) BY <1>1, <2>3, ServiceableRegistered
    <3> QED BY <2>2, <3>1 DEF sched_tag
  <2>4. Remember({}) BY <1>3 DEF Push
  <2> QED BY <2>2, <2>3, <2>4, IdleShare
<1>4. ASSUME NEW t \in Tag, Finish(t) PROVE ShareHolds(sched', share')
  <2>1. sched' = sched_task_done(sched, t).sched /\ Remember({}) BY <1>4 DEF Finish
  <2>2. /\ sched'.m_TagOrder = sched.m_TagOrder /\ sched'.m_iTagCursor = sched.m_iTagCursor
        /\ sched'.iDeficit = sched.iDeficit /\ sched'.Config = sched.Config
    BY <2>1, TaskDoneForm
  <2> QED BY <2>1, <2>2, IdleShare
<1>5. CASE Serve BY <1>5, ServeShare
<1>6. ASSUME NEW c \in LaterConfigs, Configure(c[1], c[2]) PROVE ShareHolds(sched', share')
  <2>1. share' = NoHistory BY <1>6 DEF Configure
  <2> QED BY <1>1, <2>1, NoShare
<1>7. ASSUME NEW b \in BOOLEAN, Pause(b) PROVE ShareHolds(sched', share')
  <2>1. sched' = [sched EXCEPT !.m_bQueuePaused = b] /\ Remember({}) BY <1>7 DEF Pause
  <2>2. /\ sched'.m_TagOrder = sched.m_TagOrder /\ sched'.m_iTagCursor = sched.m_iTagCursor
        /\ sched'.iDeficit = sched.iDeficit /\ sched'.Config = sched.Config
    BY <2>1, PausedForm
  <2> QED BY <2>1, <2>2, IdleShare
<1>8. CASE Clear
  <2>1. Remember({}) BY <1>8 DEF Clear
  <2>2. \A t \in Tag : ~Serviceable(sched', t) BY <1>8, ClearedForm DEF Clear
  <2>3. share' = NoHistory BY <2>1, <2>2 DEF Remember
  <2> QED BY <1>1, <2>3, NoShare
<1>9. CASE UNCHANGED drr_vars BY <1>9 DEF drr_vars
<1> QED BY <1>3, <1>4, <1>5, <1>6, <1>7, <1>8, <1>9 DEF DRRNext

\* What the visits say of two tags' shares.
LEMMA AtMost ==
    ASSUME NEW w \in Nat \ {0}, NEW d \in 0 .. w, NEW s \in Nat, NEW k \in Int,
           Visits(s, d, w, k), NEW m \in Int, k <= m + 1, d # 0 => k <= m
    PROVE  s <= (m + 1) * w
<1>1. PICK p \in Int : p = k * w BY Z3
<1>2. (k + 1) * w = p + w BY <1>1, Z3
<1>3. CASE d = 0
  <2>1. s <= p BY <1>1, <1>3 DEF Visits
  <2>2. p <= (m + 1) * w BY <1>1, Z3
  <2>3. (m + 1) * w \in Int BY Z3
  <2> QED BY <2>1, <2>2, <2>3
<1>4. CASE d # 0
  <2>1. s + d <= p + w BY <1>1, <1>2, <1>4 DEF Visits
  <2>2. p <= m * w BY <1>1, <1>4, Z3
  <2>3. PICK q \in Int : q = m * w BY Z3
  <2>4. (m + 1) * w = q + w BY <2>3, Z3
  <2> QED BY <1>4, <2>1, <2>2, <2>3, <2>4
<1> QED BY <1>3, <1>4

\* The least a tag has been served after k visits.
LEMMA AtLeast ==
    ASSUME NEW w \in Nat \ {0}, NEW d \in 0 .. w, NEW s \in Nat, NEW k \in Int,
           Visits(s, d, w, k)
    PROVE  (k - 1) * w < s
<1>1. PICK p \in Int : p = k * w BY Z3
<1>2. (k - 1) * w = p - w BY <1>1, Z3
<1>3. CASE d = 0 BY <1>2, <1>3 DEF Visits
<1>4. CASE d # 0
  <2>1. p < s + d BY <1>1, <1>4 DEF Visits
  <2> QED BY <1>1, <1>2, <2>1
<1> QED BY <1>3, <1>4

\* From visits to weighted shares.
LEMMA TwoRounds ==
    ASSUME NEW v \in Nat \ {0}, NEW w \in Nat \ {0}, NEW x \in Nat, NEW y \in Nat, NEW m \in Int,
           x <= (m + 1) * v, (m - 1) * w < y
    PROVE  x * w - y * v < 2 * v * w
<1>1. PICK p \in Int : p = v * w BY Z3
<1>2. PICK q \in Int : q = m * p BY Z3
<1>3. x * w <= ((m + 1) * v) * w BY Z3
<1>4. ((m + 1) * v) * w = q + p BY <1>1, <1>2, Z3
<1>5. ((m - 1) * w) * v < y * v BY Z3
<1>6. ((m - 1) * w) * v = q - p BY <1>1, <1>2, Z3
<1>7. 2 * v * w = 2 * p BY <1>1, Z3
<1>8. x * w \in Int /\ y * v \in Int BY Z3
<1> QED BY <1>1, <1>2, <1>3, <1>4, <1>5, <1>6, <1>7, <1>8

\* Two tags whose visits differ by at most one round.
LEMMA RotationShares ==
    ASSUME NEW S, Wellformed(S), WithinQuantum(S), NEW s \in [Tag -> Nat], ShareHolds(S, s),
           NEW t \in Tag, NEW u \in Tag
    PROVE  s[t] * S.Config[u].iWeight - s[u] * S.Config[t].iWeight
               < 2 * S.Config[t].iWeight * S.Config[u].iWeight
<1>1. S \in Sched BY DEF Wellformed
<1>2. PICK v \in Nat \ {0}, w \in Nat \ {0} : v = S.Config[t].iWeight /\ w = S.Config[u].iWeight
  BY <1>1, ChargedRange
<1>3. PICK c \in 0 .. v, d \in 0 .. w : c = S.iDeficit[t] /\ d = S.iDeficit[u]
  BY <1>1, <1>2, ChargedRange
<1>4. PICK x \in Nat, y \in Nat : x = s[t] /\ y = s[u] OBVIOUS
<1> SUFFICES ASSUME TRUE PROVE x * w - y * v < 2 * v * w BY <1>2, <1>4
<1>5. PICK k \in [Tag -> Int] : Rotation(S, s, k) BY DEF ShareHolds
<1>6. PICK l \in Int, m \in Int : l = k[t] /\ m = k[u] OBVIOUS
<1>7. Visits(x, c, v, l) /\ Visits(y, d, w, m)
  BY <1>2, <1>3, <1>4, <1>5, <1>6 DEF Rotation
<1>8. (m - 1) * w < y BY <1>7, AtLeast
<1>9. CASE x = 0
  <2>1. x * w = 0 /\ y * v >= 0 /\ 2 * v * w > 0 /\ y * v \in Int /\ 2 * v * w \in Int
    BY <1>9, Z3
  <2> QED BY <2>1
<1>10. CASE x # 0
  <2>1. PICK n \in Nat : n = Len(S.m_TagOrder) BY <1>1, SchedFields, LenProperties
  <2>2. t \in Registered(S) /\ u \in Registered(S) BY <1>4, <1>10 DEF ShareHolds
  <2>3. PICK i \in 0 .. n - 1 : TagAt(S, i) = t BY <1>1, <2>1, <2>2, ScanReaches
  <2>4. PICK j \in 0 .. n - 1 : TagAt(S, j) = u BY <1>1, <2>1, <2>2, ScanReaches
  <2>5. i <= j => l <= m BY <1>5, <1>6, <2>1, <2>3, <2>4 DEF Rotation
  <2>6. j <= i => l <= m + 1 BY <1>5, <1>6, <2>1, <2>3, <2>4 DEF Rotation
  <2>7. i # 0 => c = 0
    <3>1. i # 0 => i \in 1 .. n - 1 OBVIOUS
    <3> QED BY <1>3, <1>4, <1>5, <1>10, <2>1, <2>3, <3>1 DEF Rotation
  <2>8. l <= m + 1 /\ (c # 0 => l <= m) BY <2>5, <2>6, <2>7
  <2>9. x <= (m + 1) * v BY <1>7, <2>8, AtMost
  <2> QED BY <1>8, <2>9, TwoRounds
<1> QED BY <1>9, <1>10

\* The inductive invariant of the shares.
ShareInv == TurnInv /\ ShareHolds(sched, share)

LEMMA ShareInvStart == DRRInit => ShareInv
<1> SUFFICES ASSUME DRRInit PROVE ShareInv OBVIOUS
<1>1. TurnInv BY TurnInvStart
<1>2. ShareHolds(sched, share)
  BY <1>1, NoShare DEF DRRInit, TurnInv, Wellformed
<1> QED BY <1>1, <1>2 DEF ShareInv

LEMMA ShareInvNext == ShareInv /\ [DRRNext]_drr_vars /\ [WeightsKept]_drr_vars => ShareInv'
<1> SUFFICES ASSUME ShareInv, [DRRNext]_drr_vars, [WeightsKept]_drr_vars PROVE ShareInv'
  OBVIOUS
<1>1. TurnInv' BY TurnInvNext DEF ShareInv
<1>2. Wellformed(sched') BY DRRForm DEF ShareInv, TurnInv
<1>3. WithinQuantum(sched') BY DRRQuantum DEF ShareInv, TurnInv
<1>4. ShareHolds(sched', share')
  BY <1>2, <1>3, DRRShare DEF ShareInv, TurnInv, DRRTypeOK
<1>5. ShareHolds(sched, share)'
  BY <1>4 DEF ShareHolds, Rotation, Visits, TagAt, Registered
<1> QED BY <1>1, <1>5 DEF ShareInv

\* While all tags stay backlogged and below their caps, each is served in the ratio of
\* its weight: no tag gets two rounds ahead of another, for any number of tags, weights
\* and bounds, and wherever the turn stood when the backlog began - as long as no weight
\* is lowered.
THEOREM TagsShareByWeight ==
    DRRSpec /\ [][WeightsKept]_drr_vars => []WeightedShare
<1>1. ShareInv => WeightedShare
  BY RotationShares DEF ShareInv, TurnInv, DRRTypeOK, WeightedShare
<1> QED BY <1>1, ShareInvStart, ShareInvNext, PTL DEF DRRSpec


\* A worker inside a task knows which one.
JobKnown == \A w \in Worker : pc[w] = "run" => job[w] # <<>>

\* Outside stop(), a thread in the table is alive, unaborted and not leaving.
SlotsLive ==
    ~ma_interrupt => \A w \in Worker : slot[w] # 0 =>
        abort[w] = "None" /\ pc[w] \in {"start", "run", "wait", "woken"}

\* The interrupt is raised exactly while stop() runs, and behind its joins no
\* thread of the table is alive.
StopPhase ==
    /\ ma_interrupt <=> stopPc # "idle"
    /\ stopPc = "detached" => \A w \in Worker : slot[w] # 0 => pc[w] = "free"

\* the conjuncts about the threads, which the control calls leave alone
ThreadInv ==
    /\ RunningExact
    /\ IdleExact
    /\ DetachedExact
    /\ EveryThreadAccountedFor
    /\ JobKnown
    /\ SlotsLive

IInv == TypeOK /\ ThreadInv /\ StopPhase

IdleSet     == {w \in Worker : pc[w] \in {"wait", "woken"}}
DetachedSet == {w \in Worker : pc[w] # "free" /\ abort[w] = "Resize"}

\* q is p after some sleepers were woken
Wakes(p, q) ==
    /\ q \in [Worker -> PC]
    /\ \A w \in Worker : q[w] = p[w] \/ (p[w] = "wait" /\ q[w] = "woken")

-----------------------------------------------------------------------------
\* Finite sets of workers

\* Every set of workers is finite.
LEMMA WorkerSets ==
    ASSUME NEW S \in SUBSET Worker
    PROVE  IsFiniteSet(S) /\ Cardinality(S) \in Nat
BY PoolAssumption, FS_Subset, FS_CardinalityType

\* The sets the counters count.
LEMMA CountedSets ==
    /\ IsFiniteSet(IdleSet) /\ Cardinality(IdleSet) \in Nat
    /\ IsFiniteSet(DetachedSet) /\ Cardinality(DetachedSet) \in Nat
    /\ \A t : IsFiniteSet(RunningFor(t)) /\ Cardinality(RunningFor(t)) \in Nat
<1>1. IdleSet \in SUBSET Worker /\ DetachedSet \in SUBSET Worker
  BY DEF IdleSet, DetachedSet
<1>2. \A t : RunningFor(t) \in SUBSET Worker
  BY DEF RunningFor
<1> QED BY <1>1, <1>2, WorkerSets

-----------------------------------------------------------------------------
\* The condition variable

\* notify_one() wakes a sleeper or nobody.
LEMMA NotifyOneWakes ==
    ASSUME TypeOK, NEW p \in AfterNotifyOne
    PROVE  Wakes(pc, p)
<1>1. pc \in [Worker -> PC]
  BY DEF TypeOK
<1>2. CASE p = pc
  BY <1>1, <1>2 DEF Wakes
<1>3. CASE \E w \in Sleepers : p = [pc EXCEPT ![w] = "woken"]
  BY <1>1, <1>3 DEF Wakes, Sleepers, PC
<1> QED BY <1>2, <1>3 DEF AfterNotifyOne

\* notify_all() wakes them all.
LEMMA NotifyAllWakes ==
    ASSUME TypeOK
    PROVE  Wakes(pc, AfterNotifyAll(pc))
BY DEF TypeOK, Wakes, AfterNotifyAll, PC

-----------------------------------------------------------------------------
\* A step that does no more to the threads than to wake some

LEMMA WakeStep ==
    ASSUME IInv, Wakes(pc, pc'), sched'.iRunning = sched.iRunning,
           UNCHANGED <<size, slot, abort, job, ma_n_idle, ma_interrupt,
                       ma_iDetachedThreadsToFinish>>
    PROVE  ThreadInv'
<1>1. \A w \in Worker : /\ pc'[w] = "run" <=> pc[w] = "run"
                        /\ pc'[w] = "free" <=> pc[w] = "free"
                        /\ pc'[w] \in {"wait", "woken"} <=> pc[w] \in {"wait", "woken"}
  BY DEF Wakes
<1>2. \A t : RunningFor(t)' = RunningFor(t)
  BY <1>1 DEF RunningFor
<1>3. IdleSet' = IdleSet /\ DetachedSet' = DetachedSet
  BY <1>1 DEF IdleSet, DetachedSet
<1>4. RunningExact'
  BY <1>2 DEF IInv, ThreadInv, RunningExact
<1>5. IdleExact'
  BY <1>3 DEF IInv, ThreadInv, IdleExact, IdleSet
<1>6. DetachedExact'
  BY <1>3 DEF IInv, ThreadInv, DetachedExact, DetachedSet
<1>7. EveryThreadAccountedFor'
  BY <1>1 DEF IInv, ThreadInv, EveryThreadAccountedFor
<1>8. JobKnown' /\ SlotsLive'
  BY <1>1 DEF IInv, ThreadInv, JobKnown, SlotsLive, Wakes
<1> QED BY <1>4, <1>5, <1>6, <1>7, <1>8 DEF ThreadInv

-----------------------------------------------------------------------------
\* Growing and shrinking

\* Threads are started in the slots above the last one.
LEMMA StartStep ==
    ASSUME IInv, ~ma_interrupt, NEW n, StartThreads(n),
           sched'.iRunning = sched.iRunning,
           UNCHANGED <<job, ma_n_idle, ma_interrupt, ma_iDetachedThreadsToFinish>>
    PROVE  /\ ThreadInv'
           /\ size' \in Nat /\ slot' \in [Worker -> Nat]
           /\ abort' \in [Worker -> Abort] /\ pc' \in [Worker -> PC]
<1>1. PICK T \in SUBSET Unused :
        /\ \E place \in [T -> (size + 1) .. (size + Cardinality(T))] :
             /\ \A v, w \in T : place[v] = place[w] => v = w
             /\ slot' = [w \in Worker |-> IF w \in T THEN place[w] ELSE slot[w]]
        /\ size'  = size + Cardinality(T)
        /\ abort' = [w \in Worker |-> IF w \in T THEN "None" ELSE abort[w]]
        /\ pc'    = [w \in Worker |-> IF w \in T THEN "start" ELSE pc[w]]
  BY DEF StartThreads
<1>2. PICK place \in [T -> (size + 1) .. (size + Cardinality(T))] :
             /\ \A v, w \in T : place[v] = place[w] => v = w
             /\ slot' = [w \in Worker |-> IF w \in T THEN place[w] ELSE slot[w]]
  BY <1>1
<1> DEFINE c == Cardinality(T)
<1>3. /\ T \in SUBSET Worker /\ IsFiniteSet(T) /\ c \in Nat
      /\ \A w \in T : pc[w] = "free" /\ slot[w] = 0
  BY WorkerSets DEF Unused
<1>4. /\ size \in Nat /\ slot \in [Worker -> Nat]
      /\ abort \in [Worker -> Abort] /\ pc \in [Worker -> PC]
  BY DEF IInv, TypeOK
<1>5. \A i \in (size + 1) .. (size + c) : \E w \in T : place[w] = i
  <2> DEFINE I == (size + 1) .. (size + c)
  <2>1. IsFiniteSet(I) /\ Cardinality(I) = c
    <3>1. PICK a \in Int, b \in Int : a = size + 1 /\ b = size + c BY <1>3, <1>4
    <3>2. IsFiniteSet(a .. b) /\ Cardinality(a .. b) = IF a > b THEN 0 ELSE b - a + 1
      BY FS_Interval
    <3>3. (IF a > b THEN 0 ELSE b - a + 1) = c BY <1>3, <1>4, <3>1
    <3> QED BY <3>1, <3>2, <3>3
  <2>2. place \in Injection(T, I)
    <3>1. place \in [T -> I] /\ \A v, w \in T : place[v] = place[w] => v = w
      BY <1>2
    <3>2. IsInjective(place) BY <3>1, Zenon DEF IsInjective
    <3> QED BY <3>1, <3>2, Zenon DEF Injection
  <2>3. place \in Surjection(T, I)
    <3> HIDE DEF I
    <3> QED BY <2>1, <2>2, FS_Injection
  <2> QED BY <2>3 DEF Surjection
<1>6. \A w \in Worker : slot'[w] = IF w \in T THEN place[w] ELSE slot[w]
  BY <1>2
<1>7. \A w \in T : place[w] \in (size + 1) .. (size + c)
  BY <1>2
<1> HIDE DEF c
<1>8. /\ size' \in Nat /\ slot' \in [Worker -> Nat]
      /\ abort' \in [Worker -> Abort] /\ pc' \in [Worker -> PC]
  <2>1. size' = size + c
    BY <1>1 DEF c
  <2>2. \A w \in T : place[w] \in Nat
    BY <1>3, <1>4, <1>7
  <2> QED BY <1>1, <1>2, <1>3, <1>4, <2>1, <2>2 DEF Abort, PC
<1>9. RunningExact'
  <2>1. \A t : RunningFor(t)' = RunningFor(t)
    BY <1>1, <1>3 DEF RunningFor
  <2> QED BY <2>1 DEF IInv, ThreadInv, RunningExact
<1>10. IdleExact'
  <2>1. IdleSet' = IdleSet
    BY <1>1, <1>3 DEF IdleSet
  <2> QED BY <2>1 DEF IInv, ThreadInv, IdleExact, IdleSet
<1>11. DetachedExact'
  <2>1. DetachedSet' = DetachedSet
    BY <1>1, <1>3 DEF DetachedSet
  <2> QED BY <2>1 DEF IInv, ThreadInv, DetachedExact, DetachedSet
<1>12. EveryThreadAccountedFor'
  <2>1. size' = size + c
    BY <1>1 DEF c
  <2>2. \A i \in 1 .. size' : \E w \in Worker : slot'[w] = i
    <3> TAKE i \in 1 .. size'
    <3>1. CASE i <= size
      <4>1. PICK w \in Worker : slot[w] = i
        BY <1>4, <2>1, <3>1, <1>3 DEF IInv, ThreadInv, EveryThreadAccountedFor
      <4>2. w \notin T
        BY <1>3, <4>1
      <4> QED BY <1>6, <4>1, <4>2
    <3>2. CASE i > size
      <4>1. i \in (size + 1) .. (size + c)
        BY <1>3, <1>4, <2>1, <3>2
      <4>2. PICK w \in T : place[w] = i
        BY <1>5, <4>1
      <4> QED BY <1>3, <1>6, <4>2
    <3> QED BY <3>1, <3>2, <1>4
  <2>3. ASSUME NEW v \in Worker, NEW w \in Worker, slot'[v] = slot'[w], slot'[v] # 0
        PROVE  v = w
    <3>1. slot[v] <= size /\ slot[w] <= size /\ (slot[v] = slot[w] /\ slot[v] # 0 => v = w)
      BY DEF IInv, ThreadInv, EveryThreadAccountedFor
    <3>2. slot[v] \in Nat /\ slot[w] \in Nat
      BY <1>4
    <3>3. CASE v \in T /\ w \in T
      BY <1>2, <1>6, <2>3, <3>3
    <3>4. CASE v \in T /\ w \notin T
      BY <1>3, <1>4, <1>6, <1>7, <2>3, <3>1, <3>2, <3>4
    <3>5. CASE v \notin T /\ w \in T
      BY <1>3, <1>4, <1>6, <1>7, <2>3, <3>1, <3>2, <3>5
    <3>6. CASE v \notin T /\ w \notin T
      BY <1>6, <2>3, <3>1, <3>6
    <3> QED BY <3>3, <3>4, <3>5, <3>6
  <2>4. ASSUME NEW w \in Worker
        PROVE  /\ slot'[w] <= size'
               /\ pc'[w] # "free" => (slot'[w] = 0 <=> abort'[w] = "Resize")
    <3>1. slot[w] <= size /\ (pc[w] # "free" => (slot[w] = 0 <=> abort[w] = "Resize"))
      BY DEF IInv, ThreadInv, EveryThreadAccountedFor
    <3>2. CASE w \in T
      BY <1>1, <1>3, <1>4, <1>6, <1>7, <2>1, <3>2
    <3>3. CASE w \notin T
      BY <1>1, <1>3, <1>4, <1>6, <2>1, <3>1, <3>3
    <3> QED BY <3>2, <3>3
  <2> QED BY <2>2, <2>3, <2>4 DEF EveryThreadAccountedFor
<1>13. JobKnown'
  BY <1>1, <1>4 DEF IInv, ThreadInv, JobKnown
<1>14. SlotsLive'
  BY <1>1, <1>3, <1>4, <1>6 DEF IInv, ThreadInv, SlotsLive
<1> QED BY <1>8, <1>9, <1>10, <1>11, <1>12, <1>13, <1>14 DEF ThreadInv

\* The slots above keep hold exactly size - keep threads.
LEMMA SlotsAbove ==
    ASSUME TypeOK, EveryThreadAccountedFor, NEW keep \in 0 .. size
    PROVE  Cardinality({w \in Worker : slot[w] > keep}) = size - keep
<1> DEFINE out == {w \in Worker : slot[w] > keep}
           I   == (keep + 1) .. size
           f   == [w \in out |-> slot[w]]
<1>1. size \in Nat /\ slot \in [Worker -> Nat] /\ keep \in Nat /\ keep <= size
  BY DEF TypeOK
<1>2. f \in [out -> I]
  BY <1>1 DEF EveryThreadAccountedFor
<1>3. f \in Injection(out, I)
  <2>1. \A v, w \in out : f[v] = f[w] => v = w
    BY <1>1 DEF EveryThreadAccountedFor
  <2> QED BY <1>2, <2>1 DEF Injection, IsInjective
<1>4. f \in Surjection(out, I)
  <2>1. \A i \in I : \E w \in out : f[w] = i
    <3> TAKE i \in I
    <3>1. i \in 1 .. size /\ i > keep
      BY <1>1
    <3>2. PICK w \in Worker : slot[w] = i
      BY <3>1 DEF EveryThreadAccountedFor
    <3> QED BY <3>1, <3>2
  <2> QED BY <1>2, <2>1 DEF Surjection
<1>5. IsFiniteSet(I) /\ Cardinality(I) = size - keep
  <2>1. keep + 1 \in Int /\ size \in Int
    BY <1>1
  <2>2. /\ IsFiniteSet(I)
        /\ Cardinality(I) = IF keep + 1 > size THEN 0 ELSE size - (keep + 1) + 1
    BY <2>1, FS_Interval
  <2> HIDE DEF I
  <2> QED BY <1>1, <2>2
<1>6. Cardinality(out) = Cardinality(I)
  <2> HIDE DEF out, I, f
  <2> QED BY <1>3, <1>4, <1>5, FS_Injection
<1> QED BY <1>5, <1>6

\* Adding disjoint finite sets adds their cardinalities.
LEMMA DisjointUnion ==
    ASSUME NEW S \in SUBSET Worker, NEW T \in SUBSET Worker, S \cap T = {}
    PROVE  Cardinality(S \cup T) = Cardinality(S) + Cardinality(T)
<1>1. /\ IsFiniteSet(S) /\ Cardinality(S) \in Nat
      /\ IsFiniteSet(T) /\ Cardinality(T) \in Nat
  BY WorkerSets
<1>2. Cardinality(S \cup T) = Cardinality(S) + Cardinality(T) - Cardinality(S \cap T)
  BY <1>1, FS_Union
<1>3. Cardinality(S \cap T) = 0
  BY FS_EmptySet
<1> QED BY <1>1, <1>2, <1>3

\* A shrink detaches the threads above the size it keeps, and counts them.
LEMMA DetachStep ==
    ASSUME IInv, ~ma_interrupt, NEW keep \in 0 .. size, DetachAbove(keep),
           sched'.iRunning = sched.iRunning,
           UNCHANGED <<job, ma_n_idle, ma_interrupt>>
    PROVE  /\ ThreadInv'
           /\ size' \in Nat /\ slot' \in [Worker -> Nat]
           /\ abort' \in [Worker -> Abort] /\ pc' \in [Worker -> PC]
           /\ ma_iDetachedThreadsToFinish' \in Nat
<1> DEFINE out == {w \in Worker : slot[w] > keep}
<1>1. /\ size \in Nat /\ slot \in [Worker -> Nat] /\ keep \in Nat /\ keep <= size
      /\ abort \in [Worker -> Abort] /\ pc \in [Worker -> PC]
      /\ ma_iDetachedThreadsToFinish \in Nat
  BY DEF IInv, TypeOK
<1>2. /\ size'  = keep
      /\ slot'  = [w \in Worker |-> IF w \in out THEN 0 ELSE slot[w]]
      /\ abort' = [w \in Worker |-> IF w \in out THEN "Resize" ELSE abort[w]]
      /\ pc'    = AfterNotifyAll(pc)
      /\ ma_iDetachedThreadsToFinish' = ma_iDetachedThreadsToFinish + (size - keep)
  BY DEF DetachAbove
<1>3. Wakes(pc, pc')
  BY <1>2, NotifyAllWakes DEF IInv
<1>4. \A w \in Worker : /\ pc'[w] = "run" <=> pc[w] = "run"
                        /\ pc'[w] = "free" <=> pc[w] = "free"
                        /\ pc'[w] \in {"wait", "woken"} <=> pc[w] \in {"wait", "woken"}
  BY <1>3 DEF Wakes
<1>5. \A w \in out : abort[w] = "None" /\ pc[w] # "free"
  BY <1>1 DEF IInv, ThreadInv, SlotsLive
<1>6. /\ size' \in Nat /\ slot' \in [Worker -> Nat]
      /\ abort' \in [Worker -> Abort] /\ pc' \in [Worker -> PC]
      /\ ma_iDetachedThreadsToFinish' \in Nat
  BY <1>1, <1>2, <1>3 DEF Wakes, Abort
<1>7. RunningExact'
  <2>1. \A t : RunningFor(t)' = RunningFor(t)
    BY <1>4 DEF RunningFor
  <2> QED BY <2>1 DEF IInv, ThreadInv, RunningExact
<1>8. IdleExact'
  <2>1. IdleSet' = IdleSet
    BY <1>4 DEF IdleSet
  <2> QED BY <2>1 DEF IInv, ThreadInv, IdleExact, IdleSet
<1>9. DetachedExact'
  <2>1. DetachedSet' = DetachedSet \cup out
    BY <1>2, <1>4, <1>5 DEF DetachedSet
  <2>2. DetachedSet \cap out = {}
    BY <1>5 DEF DetachedSet
  <2>3. Cardinality(out) = size - keep
    BY SlotsAbove DEF IInv, ThreadInv
  <2>4. DetachedSet \in SUBSET Worker /\ out \in SUBSET Worker
    BY DEF DetachedSet
  <2>5. ma_iDetachedThreadsToFinish = Cardinality(DetachedSet)
    BY DEF IInv, ThreadInv, DetachedExact, DetachedSet
  <2> HIDE DEF out
  <2>6. Cardinality(DetachedSet') = Cardinality(DetachedSet) + Cardinality(out)
    BY <2>1, <2>2, <2>4, DisjointUnion
  <2>7. ma_iDetachedThreadsToFinish' = Cardinality(DetachedSet')
    BY <1>2, <2>3, <2>5, <2>6
  <2> QED BY <2>7 DEF DetachedExact, DetachedSet
<1>10. EveryThreadAccountedFor'
  <2>1. \A w \in Worker : slot'[w] = IF slot[w] > keep THEN 0 ELSE slot[w]
    BY <1>2
  <2>2. \A w \in Worker : abort'[w] = IF slot[w] > keep THEN "Resize" ELSE abort[w]
    BY <1>2
  <2>3. \A i \in 1 .. size' : \E w \in Worker : slot'[w] = i
    BY <1>1, <1>2, <2>1 DEF IInv, ThreadInv, EveryThreadAccountedFor
  <2>4. \A v, w \in Worker : slot'[v] = slot'[w] /\ slot'[v] # 0 => v = w
    BY <1>1, <2>1 DEF IInv, ThreadInv, EveryThreadAccountedFor
  <2>5. \A w \in Worker : /\ slot'[w] <= size'
                          /\ pc'[w] # "free" => (slot'[w] = 0 <=> abort'[w] = "Resize")
    BY <1>1, <1>2, <1>4, <2>1, <2>2 DEF IInv, ThreadInv, EveryThreadAccountedFor
  <2> QED BY <2>3, <2>4, <2>5 DEF EveryThreadAccountedFor
<1>11. JobKnown'
  BY <1>4 DEF IInv, ThreadInv, JobKnown
<1>12. SlotsLive'
  BY <1>1, <1>2, <1>3 DEF IInv, ThreadInv, SlotsLive, Wakes
<1> QED BY <1>6, <1>7, <1>8, <1>9, <1>10, <1>11, <1>12 DEF ThreadInv

\* grow() and shrink() keep the facts about the threads.
LEMMA GrowStep ==
    ASSUME IInv, ~ma_interrupt, NEW iQueued, NEW growth, NEW iMaxThreads,
           grow(iQueued, growth, iMaxThreads),
           sched'.iRunning = sched.iRunning,
           UNCHANGED <<job, ma_n_idle, ma_interrupt, ma_iDetachedThreadsToFinish>>
    PROVE  /\ ThreadInv'
           /\ size' \in Nat /\ slot' \in [Worker -> Nat]
           /\ abort' \in [Worker -> Abort] /\ pc' \in [Worker -> PC]
<1>1. CASE size < iMaxThreads
  BY <1>1, StartStep DEF grow
<1>2. CASE ~(size < iMaxThreads)
  <2>1. UNCHANGED <<size, slot, abort, pc>>
    BY <1>2 DEF grow, threadVars
  <2>2. Wakes(pc, pc')
    BY <2>1 DEF IInv, TypeOK, Wakes
  <2> QED BY <2>1, <2>2, WakeStep DEF IInv, TypeOK
<1> QED BY <1>1, <1>2

LEMMA ShrinkStep ==
    ASSUME IInv, ~ma_interrupt, NEW iQueued \in Nat, NEW policy \in Shrink,
           NEW iMaxThreads \in Nat, NEW bElapsed,
           shrink(iQueued, policy, iMaxThreads, bElapsed),
           sched'.iRunning = sched.iRunning,
           UNCHANGED <<job, ma_n_idle, ma_interrupt>>
    PROVE  /\ ThreadInv'
           /\ size' \in Nat /\ slot' \in [Worker -> Nat]
           /\ abort' \in [Worker -> Abort] /\ pc' \in [Worker -> PC]
           /\ ma_iDetachedThreadsToFinish' \in Nat
<1> DEFINE forced == IF size > iMaxThreads THEN size - iMaxThreads ELSE 0
           idle   == ma_n_idle - Lesser(ma_n_idle, forced)
           extra  == IF policy = "ShrinkNever" \/ idle = 0 THEN 0
                     ELSE calc_shrink(policy, idle - Lesser(idle, iQueued))
           n      == forced + extra
<1>1. size \in Nat /\ ma_n_idle \in Nat
  BY DEF IInv, TypeOK
<1>2. n \in Nat
  <2>1. forced \in Nat
    BY <1>1
  <2>2. \A x, y \in Nat : x - Lesser(x, y) \in Nat
    BY DEF Lesser
  <2>3. idle \in Nat
    <3> HIDE DEF forced
    <3> QED BY <1>1, <2>1, <2>2
  <2>4. idle - Lesser(idle, iQueued) \in Nat
    <3> HIDE DEF idle
    <3> QED BY <2>2, <2>3
  <2>5. \A x \in Nat : calc_shrink(policy, x) \in Nat
    <3> TAKE x \in Nat
    <3>1. CASE x = 0
      BY <3>1 DEF calc_shrink
    <3>2. CASE x # 0
      BY <3>2 DEF calc_shrink, Shrink
    <3> QED BY <3>1, <3>2
  <2>6. extra \in Nat
    <3> HIDE DEF idle
    <3> QED BY <2>4, <2>5
  <2> HIDE DEF forced, extra
  <2> QED BY <2>1, <2>6
<1>3. CASE n # 0 /\ (forced # 0 \/ bElapsed) /\ n <= size
  <2>1. DetachAbove(size - n)
    BY <1>3 DEF shrink
  <2> HIDE DEF n
  <2>2. size - n \in 0 .. size
    BY <1>1, <1>2, <1>3
  <2> QED BY <2>1, <2>2, DetachStep
<1>4. CASE ~(n # 0 /\ (forced # 0 \/ bElapsed) /\ n <= size)
  <2>1. UNCHANGED <<size, slot, abort, pc, ma_iDetachedThreadsToFinish>>
    BY <1>4 DEF shrink, threadVars
  <2>2. Wakes(pc, pc')
    BY <2>1 DEF IInv, TypeOK, Wakes
  <2> QED BY <2>1, <2>2, WakeStep DEF IInv, TypeOK
<1> QED BY <1>3, <1>4

-----------------------------------------------------------------------------
\* A worker takes a step; its notify_one() may wake others

LEMMA MovePlaces ==
    ASSUME IInv, NEW w \in Worker, NEW p, NEW to \in PC,
           Wakes(pc, p), pc[w] # "wait", pc' = [p EXCEPT ![w] = to]
    PROVE  /\ pc' \in [Worker -> PC]
           /\ pc'[w] = to
           /\ \A v \in Worker : v # w =>
                pc'[v] = pc[v] \/ (pc[v] = "wait" /\ pc'[v] = "woken")
BY DEF Wakes

\* ... the workers inside tasks of t afterwards: w only if it goes on with one
LEMMA MoveRunning ==
    ASSUME IInv, NEW w \in Worker, NEW p, NEW to \in PC,
           Wakes(pc, p), pc[w] # "wait", pc' = [p EXCEPT ![w] = to],
           \A v \in Worker : v # w => job'[v] = job[v],
           NEW Released \in [Tag -> Nat],
           \A t \in Tag : Released[t] = Cardinality(RunningFor(t) \ {w}),
           to = "run" => /\ job'[w][1] \in Tag
                         /\ sched'.iRunning = [Released EXCEPT ![job'[w][1]] = @ + 1],
           to # "run" => sched'.iRunning = Released
    PROVE  RunningExact'
<1>1. \A v \in Worker : v # w => (pc'[v] = "run" <=> pc[v] = "run")
  BY MovePlaces
<1>2. pc'[w] = to
  BY MovePlaces
<1>3. SUFFICES ASSUME NEW t \in Tag
               PROVE  sched'.iRunning[t] = Cardinality(RunningFor(t)')
  BY DEF RunningExact
<1> DEFINE rest == RunningFor(t) \ {w}
<1>4. IsFiniteSet(rest) /\ w \notin rest
  BY CountedSets, FS_RemoveElement
<1>5. CASE to = "run" /\ job'[w][1] = t
  <2>1. RunningFor(t)' = rest \cup {w}
    BY <1>1, <1>2, <1>5 DEF RunningFor
  <2>2. Cardinality(rest \cup {w}) = Cardinality(rest) + 1
    <3> HIDE DEF rest
    <3> QED BY <1>4, FS_AddElement
  <2> QED BY <1>5, <2>1, <2>2
<1>6. CASE ~(to = "run" /\ job'[w][1] = t)
  <2>1. RunningFor(t)' = rest
    BY <1>1, <1>2, <1>6 DEF RunningFor
  <2>2. sched'.iRunning[t] = Released[t]
    BY <1>6
  <2> QED BY <2>1, <2>2
<1> QED BY <1>5, <1>6

\* ... the idle ones
LEMMA MoveIdle ==
    ASSUME IInv, NEW w \in Worker, NEW p, NEW to \in PC,
           Wakes(pc, p), pc[w] # "wait", pc' = [p EXCEPT ![w] = to],
           ma_n_idle' = (ma_n_idle - (IF pc[w] = "woken" THEN 1 ELSE 0))
                        + (IF to \in {"wait", "woken"} THEN 1 ELSE 0)
    PROVE  IdleExact' /\ ma_n_idle' \in Nat
<1>1. \A v \in Worker : v # w =>
        (pc'[v] \in {"wait", "woken"} <=> pc[v] \in {"wait", "woken"})
  BY MovePlaces
<1>2. pc'[w] = to
  BY MovePlaces
<1> DEFINE rest == IdleSet \ {w}
           from == IF pc[w] = "woken" THEN 1 ELSE 0
<1>3. IsFiniteSet(rest) /\ w \notin rest /\ Cardinality(rest) \in Nat
  BY CountedSets, FS_RemoveElement, FS_CardinalityType
<1>4. w \in IdleSet <=> pc[w] = "woken"
  BY DEF IdleSet
<1>5. Cardinality(rest) = ma_n_idle - from
  <2>1. ma_n_idle = Cardinality(IdleSet) /\ ma_n_idle \in Nat
    BY DEF IInv, TypeOK, ThreadInv, IdleExact, IdleSet
  <2>2. Cardinality(rest) = IF w \in IdleSet THEN Cardinality(IdleSet) - 1
                                              ELSE Cardinality(IdleSet)
    BY CountedSets, FS_RemoveElement
  <2> HIDE DEF rest
  <2> QED BY <1>4, <2>1, <2>2
<1>6. CASE to \in {"wait", "woken"}
  <2>1. IdleSet' = rest \cup {w}
    BY <1>1, <1>2, <1>6 DEF IdleSet
  <2>2. Cardinality(rest \cup {w}) = Cardinality(rest) + 1
    <3> HIDE DEF rest
    <3> QED BY <1>3, FS_AddElement
  <2>3. ma_n_idle' = Cardinality(IdleSet') /\ ma_n_idle' \in Nat
    <3> HIDE DEF rest
    <3> QED BY <1>3, <1>5, <1>6, <2>1, <2>2
  <2> QED BY <2>3 DEF IdleExact, IdleSet
<1>7. CASE to \notin {"wait", "woken"}
  <2>1. IdleSet' = rest
    BY <1>1, <1>2, <1>7 DEF IdleSet
  <2>2. ma_n_idle' = Cardinality(IdleSet') /\ ma_n_idle' \in Nat
    <3> HIDE DEF rest
    <3> QED BY <1>3, <1>5, <1>7, <2>1
  <2> QED BY <2>2 DEF IdleExact, IdleSet
<1> QED BY <1>6, <1>7

\* ... and the table of threads, unless w ends: it may leave only when aborted or
\* interrupted
LEMMA MoveThreads ==
    ASSUME IInv, NEW w \in Worker, NEW p, NEW to \in PC,
           Wakes(pc, p), pc[w] \notin {"wait", "free"}, pc' = [p EXCEPT ![w] = to],
           to # "free",
           to \in {"baton", "exit"} =>
                \/ abort[w] # "None" \/ ma_interrupt
                \/ pc[w] = "baton",
           UNCHANGED <<size, slot, abort, ma_interrupt, ma_iDetachedThreadsToFinish>>
    PROVE  DetachedExact' /\ EveryThreadAccountedFor' /\ SlotsLive'
<1>1. /\ \A v \in Worker : v # w =>
            pc'[v] = pc[v] \/ (pc[v] = "wait" /\ pc'[v] = "woken")
      /\ pc'[w] = to
  BY MovePlaces
<1>2. \A v \in Worker : pc'[v] = "free" <=> pc[v] = "free"
  BY <1>1
<1>3. DetachedExact'
  <2>1. DetachedSet' = DetachedSet
    BY <1>2 DEF DetachedSet
  <2> QED BY <2>1 DEF IInv, ThreadInv, DetachedExact, DetachedSet
<1>4. EveryThreadAccountedFor'
  BY <1>2 DEF IInv, ThreadInv, EveryThreadAccountedFor
<1>5. SlotsLive'
  <2> SUFFICES ASSUME ~ma_interrupt, NEW v \in Worker, slot[v] # 0
               PROVE  abort[v] = "None" /\ pc'[v] \in {"start", "run", "wait", "woken"}
    BY DEF SlotsLive
  <2>1. abort[v] = "None" /\ pc[v] \in {"start", "run", "wait", "woken"}
    BY DEF IInv, ThreadInv, SlotsLive
  <2>2. CASE v # w
    BY <1>1, <2>1, <2>2
  <2>3. CASE v = w
    BY <1>1, <2>1, <2>3 DEF PC
  <2> QED BY <2>2, <2>3
<1> QED BY <1>3, <1>4, <1>5

-----------------------------------------------------------------------------
\* Every step keeps IInv: pushing

LEMMA BookkeepStep ==
    ASSUME IInv, NEW iWaiting \in Nat, bookkeep_enqueue(iWaiting),
           sched'.iRunning = sched.iRunning,
           UNCHANGED <<job, ma_n_idle, ma_interrupt>>
    PROVE  /\ ThreadInv'
           /\ size' \in Nat /\ slot' \in [Worker -> Nat]
           /\ abort' \in [Worker -> Abort] /\ pc' \in [Worker -> PC]
           /\ ma_iDetachedThreadsToFinish' \in Nat
           /\ ma_interrupt => UNCHANGED <<slot, pc>>
<1>1. ASSUME UNCHANGED <<threadVars, ma_iDetachedThreadsToFinish>>
      PROVE  /\ ThreadInv'
             /\ size' \in Nat /\ slot' \in [Worker -> Nat]
             /\ abort' \in [Worker -> Abort] /\ pc' \in [Worker -> PC]
             /\ ma_iDetachedThreadsToFinish' \in Nat
             /\ UNCHANGED <<slot, pc>>
  <2>1. UNCHANGED <<size, slot, abort, pc, ma_iDetachedThreadsToFinish>>
    BY <1>1 DEF threadVars
  <2>2. Wakes(pc, pc')
    BY <2>1 DEF IInv, TypeOK, Wakes
  <2> QED BY <2>1, <2>2, WakeStep DEF IInv, TypeOK
<1>2. CASE ma_interrupt
  BY <1>1, <1>2 DEF bookkeep_enqueue
<1>3. CASE ~ma_interrupt /\ ma_n_idle = 0
  <2>1. /\ grow(iWaiting, m_Growth, ma_iMaxThreads)
        /\ UNCHANGED ma_iDetachedThreadsToFinish
    BY <1>3 DEF bookkeep_enqueue
  <2> QED BY <1>3, <2>1, GrowStep DEF IInv, TypeOK
<1>4. CASE ~ma_interrupt /\ ma_n_idle # 0
  <2>1. CASE UNCHANGED <<threadVars, ma_iDetachedThreadsToFinish>>
    BY <1>1, <1>4, <2>1
  <2>2. CASE \E bElapsed \in {FALSE, AbortedHaveWoken} :
                 shrink(iWaiting, m_Shrink, ma_iMaxThreads, bElapsed)
    <3>1. m_Shrink \in Shrink /\ ma_iMaxThreads \in Nat
      BY DEF IInv, TypeOK
    <3>2. PICK bElapsed \in {FALSE, AbortedHaveWoken} :
                 shrink(iWaiting, m_Shrink, ma_iMaxThreads, bElapsed)
      BY <2>2
    <3> QED BY <1>4, <3>1, <3>2, ShrinkStep
  <2> QED BY <1>4, <2>1, <2>2 DEF bookkeep_enqueue
<1> QED BY <1>2, <1>3, <1>4

LEMMA PushStep ==
    ASSUME IInv, NEW tag \in Tag, NEW k \in Task, push_to_tag(tag, k)
    PROVE  IInv'
<1> DEFINE r == sched_enqueue(sched, tag, k)
<1>1. /\ r.sched \in Sched /\ r.bAccepted \in BOOLEAN
      /\ r.sched.iRunning = sched.iRunning
  BY EnqueueType DEF IInv, TypeOK
<1>2. /\ sched' = r.sched
      /\ UNCHANGED <<job, ma_n_idle, ma_interrupt, poolVars,
                     unpausing, stopPc, resizing, calls, toDrain>>
  BY DEF push_to_tag
<1>3. /\ r.bAccepted  => /\ status' = [j \in Task |->
                                 CASE j = k -> "queued"
                                   [] r.dropped = <<j>> -> "broken"
                                   [] OTHER -> status[j]]
                         /\ bookkeep_enqueue(r.sched.m_iTotalQueued)
                         /\ notify' = notify + 1
      /\ ~r.bAccepted => /\ status' = [status EXCEPT ![k] = "broken"]
                         /\ UNCHANGED <<threadVars, ma_iDetachedThreadsToFinish, notify>>
  BY DEF push_to_tag
<1>4. r.sched.m_iTotalQueued \in Nat
  BY <1>1, SchedFields
<1> HIDE DEF r
<1>5. /\ ThreadInv'
      /\ size' \in Nat /\ slot' \in [Worker -> Nat]
      /\ abort' \in [Worker -> Abort] /\ pc' \in [Worker -> PC]
      /\ ma_iDetachedThreadsToFinish' \in Nat
      /\ ma_interrupt => UNCHANGED <<slot, pc>>
  <2>1. CASE r.bAccepted
    BY <1>1, <1>2, <1>3, <1>4, <2>1, BookkeepStep
  <2>2. CASE ~r.bAccepted
    <3>1. UNCHANGED <<size, slot, abort, pc, ma_iDetachedThreadsToFinish>>
      BY <1>3, <2>2 DEF threadVars
    <3>2. Wakes(pc, pc')
      BY <3>1 DEF IInv, TypeOK, Wakes
    <3> QED BY <1>1, <1>2, <3>1, <3>2, WakeStep DEF IInv, TypeOK
  <2> QED BY <2>1, <2>2
<1>6. TypeOK'
  <2>1. notify' \in Nat
    BY <1>1, <1>3 DEF IInv, TypeOK
  <2>2. status' \in [Task -> {"new", "queued", "running", "done", "broken"}]
    <3>1. status \in [Task -> {"new", "queued", "running", "done", "broken"}]
      BY DEF IInv, TypeOK
    <3>2. CASE r.bAccepted
      BY <1>3, <3>1, <3>2
    <3>3. CASE ~r.bAccepted
      BY <1>3, <3>1, <3>3
    <3> QED BY <3>2, <3>3
  <2> QED BY <1>1, <1>2, <1>5, <2>1, <2>2 DEF IInv, TypeOK, poolVars
<1>7. StopPhase'
  BY <1>2, <1>5 DEF IInv, StopPhase
<1> QED BY <1>5, <1>6, <1>7 DEF IInv

-----------------------------------------------------------------------------
\* ... a worker's steps

\* the counts without w, which is in no task
LEMMA NotRunning ==
    ASSUME IInv, NEW w \in Worker, pc[w] # "run"
    PROVE  /\ sched.iRunning \in [Tag -> Nat]
           /\ \A t \in Tag : sched.iRunning[t] = Cardinality(RunningFor(t) \ {w})
<1>1. \A t \in Tag : RunningFor(t) \ {w} = RunningFor(t)
  BY DEF RunningFor
<1> QED BY <1>1, SchedFields DEF IInv, TypeOK, ThreadInv, RunningExact

\* the pair of tag and task a dequeue returns
LEMMA PairType ==
    ASSUME NEW tag \in Tag, NEW task \in Task
    PROVE  /\ <<tag, task>> \in Tag \X Task /\ <<tag, task>> # <<>>
           /\ <<tag, task>>[1] = tag
OBVIOUS

Statuses == {"new", "queued", "running", "done", "broken"}

\* w goes to another place, with another task or none; p is pc after its
\* notify_one(), Released the counts without its old task
Moves(w, p, to, Released) ==
    /\ to \in PC /\ to # "free"
    /\ Wakes(pc, p) /\ pc[w] \notin {"wait", "free"} /\ pc' = [p EXCEPT ![w] = to]
    /\ sched' \in Sched
    /\ job' \in [Worker -> {<<>>} \cup (Tag \X Task)]
    /\ \A v \in Worker : v # w => job'[v] = job[v]
    /\ Released \in [Tag -> Nat]
    /\ \A t \in Tag : Released[t] = Cardinality(RunningFor(t) \ {w})
    /\ to = "run" =>
         /\ job'[w] \in Tag \X Task /\ job'[w] # <<>>
         /\ sched'.iRunning = [Released EXCEPT ![job'[w][1]] = @ + 1]
    /\ to # "run" => sched'.iRunning = Released
    /\ to \in {"baton", "exit"} =>
         abort[w] # "None" \/ ma_interrupt \/ pc[w] = "baton"
    /\ ma_n_idle' = (ma_n_idle - (IF pc[w] = "woken" THEN 1 ELSE 0))
                     + (IF to \in {"wait", "woken"} THEN 1 ELSE 0)
    /\ status' \in [Task -> Statuses]
    /\ UNCHANGED <<size, slot, abort, ma_interrupt, ma_iDetachedThreadsToFinish,
                   poolVars, callVars, toDrain>>

LEMMA MoveStep ==
    ASSUME IInv, NEW w \in Worker, NEW p, NEW to, NEW Released,
           Moves(w, p, to, Released)
    PROVE  IInv'
<1> USE DEF Moves
<1>1. /\ pc' \in [Worker -> PC]
      /\ pc'[w] = to
      /\ \A v \in Worker : v # w =>
            pc'[v] = pc[v] \/ (pc[v] = "wait" /\ pc'[v] = "woken")
  BY MovePlaces
<1>2. RunningExact'
  BY MoveRunning
<1>3. IdleExact' /\ ma_n_idle' \in Nat
  BY MoveIdle
<1>4. DetachedExact' /\ EveryThreadAccountedFor' /\ SlotsLive'
  BY MoveThreads
<1>5. JobKnown'
  <2> SUFFICES ASSUME NEW v \in Worker, pc'[v] = "run" PROVE job'[v] # <<>>
    BY DEF JobKnown
  <2>1. CASE v = w
    BY <1>1, <2>1
  <2>2. CASE v # w
    BY <1>1, <2>2 DEF IInv, ThreadInv, JobKnown
  <2> QED BY <2>1, <2>2
<1>6. StopPhase'
  <2>1. UNCHANGED <<slot, stopPc, ma_interrupt>>
    BY DEF callVars
  <2>2. ASSUME stopPc = "detached", NEW v \in Worker, slot[v] # 0 PROVE pc'[v] = "free"
    <3>1. pc[v] = "free"
      BY <2>2 DEF IInv, StopPhase
    <3> QED BY <1>1, <3>1
  <2> QED BY <2>1, <2>2 DEF IInv, StopPhase
<1>7. TypeOK'
  BY <1>1, <1>3 DEF IInv, TypeOK, Statuses, poolVars, callVars
<1> QED BY <1>2, <1>3, <1>4, <1>5, <1>6, <1>7 DEF IInv, ThreadInv

\* w takes a task, or finds nothing and goes idle: the end of two critical sections
LEMMA LookForWork ==
    ASSUME IInv, NEW w \in Worker, NEW p,
           Wakes(pc, p), pc[w] \in {"start", "run"},
           NEW S \in Sched,
           \A t \in Tag : S.iRunning[t] = Cardinality(RunningFor(t) \ {w}),
           NEW r, DequeueOK(S, r),
           \/ r.bFound /\ TakeTask(w, r, p) /\ UNCHANGED ma_n_idle
           \/ ~r.bFound /\ GoIdle(w, r, p),
           status' \in [Task -> Statuses],
           UNCHANGED <<size, slot, abort, ma_interrupt, ma_iDetachedThreadsToFinish,
                       poolVars, callVars, toDrain>>
    PROVE  IInv'
<1>1. S.iRunning \in [Tag -> Nat] /\ r.sched \in Sched
  BY SchedFields DEF DequeueOK
<1>2. job \in [Worker -> {<<>>} \cup (Tag \X Task)] /\ ma_n_idle \in Nat
  BY DEF IInv, TypeOK
<1>3. CASE r.bFound
  <2>1. r.tag \in Tag /\ r.task \in Task /\ r.sched.iRunning = [S.iRunning EXCEPT ![r.tag] = @ + 1]
    BY <1>3 DEF DequeueOK
  <2>2. /\ sched' = r.sched
        /\ pc'  = [p EXCEPT ![w] = "run"]
        /\ job' = [job EXCEPT ![w] = <<r.tag, r.task>>]
        /\ ma_n_idle' = ma_n_idle
    BY <1>3 DEF TakeTask
  <2>3. /\ job' \in [Worker -> {<<>>} \cup (Tag \X Task)]
        /\ job'[w] = <<r.tag, r.task>>
        /\ \A v \in Worker : v # w => job'[v] = job[v]
    BY <1>2, <2>1, <2>2
  <2>4. job'[w] \in Tag \X Task /\ job'[w] # <<>> /\ job'[w][1] = r.tag
    BY <2>1, <2>3, PairType
  <2>5. "run" \in PC
    BY DEF PC
  <2>6. sched'.iRunning = [S.iRunning EXCEPT ![job'[w][1]] = @ + 1]
    BY <2>1, <2>2, <2>4
  <2>7. ma_n_idle' = (ma_n_idle - (IF pc[w] = "woken" THEN 1 ELSE 0))
                        + (IF "run" \in {"wait", "woken"} THEN 1 ELSE 0)
    BY <1>2, <2>2
  <2>8. Moves(w, p, "run", S.iRunning)
    BY <1>1, <2>2, <2>3, <2>4, <2>5, <2>6, <2>7 DEF Moves
  <2> QED BY <2>8, MoveStep
<1>4. CASE ~r.bFound
  <2>1. GoIdle(w, r, p)
    BY <1>4
  <2>2. PICK to \in {"exit", "baton", "wait"} :
          /\ pc' = [p EXCEPT ![w] = to]
          /\ to = "wait"  => ma_n_idle' = ma_n_idle + 1
          /\ to # "wait" => /\ ma_n_idle' = ma_n_idle
                            /\ abort[w] # "None" \/ ma_interrupt
    BY <2>1 DEF GoIdle
  <2>3. sched' = r.sched /\ job' = [job EXCEPT ![w] = <<>>]
    BY <2>1 DEF GoIdle
  <2>4. /\ job' \in [Worker -> {<<>>} \cup (Tag \X Task)]
        /\ \A v \in Worker : v # w => job'[v] = job[v]
    BY <1>2, <2>3
  <2>5. sched'.iRunning = S.iRunning
    BY <1>4, <2>3 DEF DequeueOK
  <2>6. to \in PC /\ to # "free" /\ to # "run" /\ to # "woken"
    BY DEF PC
  <2>7. ma_n_idle' = (ma_n_idle - (IF pc[w] = "woken" THEN 1 ELSE 0))
                        + (IF to \in {"wait", "woken"} THEN 1 ELSE 0)
    BY <1>2, <2>2, <2>6
  <2>8. Moves(w, p, to, S.iRunning)
    BY <1>1, <2>2, <2>3, <2>4, <2>5, <2>6, <2>7 DEF Moves
  <2> QED BY <2>8, MoveStep
<1> QED BY <1>3, <1>4

LEMMA StartWorkerStep ==
    ASSUME IInv, NEW w \in Worker, WorkerStart(w)
    PROVE  IInv'
<1> DEFINE r == sched_dequeue(sched)
<1>1. sched \in Sched /\ DequeueOK(sched, r)
  BY DequeueType DEF IInv, TypeOK
<1>2. /\ pc[w] = "start"
      /\ UNCHANGED <<size, slot, abort, ma_interrupt, ma_iDetachedThreadsToFinish,
                     poolVars, callVars, toDrain>>
  BY DEF WorkerStart
<1>3. /\ r.bFound  => /\ TakeTask(w, r, pc)
                      /\ status' = [status EXCEPT ![r.task] = "running"]
                      /\ UNCHANGED ma_n_idle
      /\ ~r.bFound => GoIdle(w, r, pc) /\ UNCHANGED status
  BY DEF WorkerStart
<1> HIDE DEF r
<1>4. Wakes(pc, pc)
  BY DEF IInv, TypeOK, Wakes
<1>5. status' \in [Task -> Statuses]
  BY <1>1, <1>3 DEF IInv, TypeOK, Statuses, DequeueOK
<1>6. \A t \in Tag : sched.iRunning[t] = Cardinality(RunningFor(t) \ {w})
  BY <1>2, NotRunning
<1> QED BY <1>1, <1>2, <1>3, <1>4, <1>5, <1>6, LookForWork

LEMMA FinishWorkerStep ==
    ASSUME IInv, NEW w \in Worker, WorkerFinish(w)
    PROVE  IInv'
<1> DEFINE done == sched_task_done(sched, job[w][1])
           r    == sched_dequeue(done.sched)
           ran  == [status EXCEPT ![job[w][2]] = "done"]
<1>1. pc[w] = "run" /\ sched \in Sched
  BY DEF WorkerFinish, IInv, TypeOK
<1>2. job[w] \in Tag \X Task /\ job[w][1] \in Tag /\ job[w][2] \in Task
  <2>1. job[w] \in Tag \X Task
    BY <1>1 DEF IInv, TypeOK, ThreadInv, JobKnown
  <2> QED BY <2>1
<1>3. sched.iRunning \in [Tag -> Nat]
  BY <1>1, SchedFields
<1>4. sched.iRunning[job[w][1]] > 0
  <2>1. w \in RunningFor(job[w][1])
    BY <1>1 DEF RunningFor
  <2>2. IsFiniteSet(RunningFor(job[w][1])) /\ Cardinality(RunningFor(job[w][1])) # 0
    BY <2>1, CountedSets, FS_EmptySet
  <2> QED BY <1>2, <1>3, <2>2 DEF IInv, ThreadInv, RunningExact
<1>5. /\ done.sched \in Sched /\ done.bWake \in BOOLEAN
      /\ done.sched.iRunning = [sched.iRunning EXCEPT ![job[w][1]] = @ - 1]
  BY <1>1, <1>2, <1>4, TaskDoneType
<1>6. PICK p \in (IF done.bWake THEN AfterNotifyOne ELSE {pc}) :
             IF abort[w] # "None"
             THEN /\ sched' = done.sched
                  /\ pc'  = [p EXCEPT ![w] = "exit"]
                  /\ job' = [job EXCEPT ![w] = <<>>]
                  /\ status' = ran
                  /\ UNCHANGED ma_n_idle
             ELSE IF r.bFound
             THEN /\ TakeTask(w, r, p)
                  /\ status' = [ran EXCEPT ![r.task] = "running"]
                  /\ UNCHANGED ma_n_idle
             ELSE GoIdle(w, r, p) /\ status' = ran
  BY DEF WorkerFinish
<1>7. UNCHANGED <<size, slot, abort, ma_interrupt, ma_iDetachedThreadsToFinish,
                  poolVars, callVars, toDrain>>
  BY DEF WorkerFinish
<1>8. DequeueOK(done.sched, r)
  BY <1>5, DequeueType
<1> HIDE DEF done, r
<1>9. Wakes(pc, p)
  <2>1. Wakes(pc, pc)
    BY DEF IInv, TypeOK, Wakes
  <2> QED BY <1>6, <2>1, NotifyOneWakes DEF IInv
<1>10. \A t \in Tag : done.sched.iRunning[t] = Cardinality(RunningFor(t) \ {w})
  <2> TAKE t \in Tag
  <2>1. /\ IsFiniteSet(RunningFor(t)) /\ Cardinality(RunningFor(t)) \in Nat
        /\ sched.iRunning[t] = Cardinality(RunningFor(t))
    BY CountedSets DEF IInv, ThreadInv, RunningExact
  <2>2. w \in RunningFor(t) <=> t = job[w][1]
    BY <1>1 DEF RunningFor
  <2>3. Cardinality(RunningFor(t) \ {w}) = IF w \in RunningFor(t)
             THEN Cardinality(RunningFor(t)) - 1 ELSE Cardinality(RunningFor(t))
    BY <2>1, FS_RemoveElement
  <2> QED BY <1>2, <1>3, <1>5, <2>1, <2>2, <2>3
<1>11. ran \in [Task -> Statuses]
  BY <1>2 DEF IInv, TypeOK, Statuses
<1> HIDE DEF ran
<1>12. status' \in [Task -> Statuses]
  BY <1>6, <1>8, <1>11 DEF Statuses, DequeueOK
<1>13. CASE abort[w] # "None"
  <2>1. /\ sched' = done.sched
        /\ pc'  = [p EXCEPT ![w] = "exit"]
        /\ job' = [job EXCEPT ![w] = <<>>]
        /\ ma_n_idle' = ma_n_idle
    BY <1>6, <1>13
  <2>2. /\ job' \in [Worker -> {<<>>} \cup (Tag \X Task)]
        /\ \A v \in Worker : v # w => job'[v] = job[v]
    BY <2>1 DEF IInv, TypeOK
  <2>3. done.sched.iRunning \in [Tag -> Nat]
    BY <1>5, SchedFields
  <2>4. "exit" \in PC /\ ma_n_idle \in Nat
    BY DEF PC, IInv, TypeOK
  <2>5. ma_n_idle' = (ma_n_idle - (IF pc[w] = "woken" THEN 1 ELSE 0))
                        + (IF "exit" \in {"wait", "woken"} THEN 1 ELSE 0)
    BY <1>1, <2>1, <2>4
  <2>6. Moves(w, p, "exit", done.sched.iRunning)
    BY <1>1, <1>5, <1>7, <1>9, <1>10, <1>12, <1>13, <2>1, <2>2, <2>3, <2>4, <2>5 DEF Moves
  <2> QED BY <2>6, MoveStep
<1>14. CASE abort[w] = "None"
  BY <1>1, <1>5, <1>6, <1>7, <1>8, <1>9, <1>10, <1>12, <1>14, LookForWork
<1> QED BY <1>13, <1>14

LEMMA WakeWorkerStep ==
    ASSUME IInv, NEW w \in Worker, WorkerWake(w)
    PROVE  IInv'
<1> DEFINE r == sched_dequeue(sched)
<1>1. sched \in Sched /\ DequeueOK(sched, r)
  BY DequeueType DEF IInv, TypeOK
<1>2. /\ pc[w] = "woken"
      /\ UNCHANGED <<size, slot, abort, ma_interrupt, ma_iDetachedThreadsToFinish,
                     poolVars, callVars, toDrain>>
  BY DEF WorkerWake
<1>3. \/ /\ abort[w] # "None"
         /\ pc' = [pc EXCEPT ![w] = "baton"] /\ ma_n_idle' = ma_n_idle - 1
         /\ UNCHANGED <<sched, job, status>>
      \/ /\ r.bFound
         /\ TakeTask(w, r, pc) /\ ma_n_idle' = ma_n_idle - 1
         /\ status' = [status EXCEPT ![r.task] = "running"]
      \/ /\ ~r.bFound /\ sched' = r.sched /\ UNCHANGED <<job, status>>
         /\ ma_interrupt
         /\ pc' = [pc EXCEPT ![w] = "baton"] /\ ma_n_idle' = ma_n_idle - 1
      \/ /\ ~r.bFound /\ sched' = r.sched /\ UNCHANGED <<job, status>>
         /\ pc' = [pc EXCEPT ![w] = "wait"] /\ ma_n_idle' = ma_n_idle
  BY DEF WorkerWake
<1> HIDE DEF r
<1>4. /\ Wakes(pc, pc) /\ ma_n_idle \in Nat
      /\ job \in [Worker -> {<<>>} \cup (Tag \X Task)]
      /\ status \in [Task -> Statuses]
      /\ r.sched \in Sched
  BY <1>1 DEF IInv, TypeOK, Wakes, Statuses, DequeueOK
<1>5. /\ sched.iRunning \in [Tag -> Nat]
      /\ \A t \in Tag : sched.iRunning[t] = Cardinality(RunningFor(t) \ {w})
  BY <1>2, NotRunning
<1>6. "baton" \in PC /\ "wait" \in PC /\ "run" \in PC
  BY DEF PC
<1>7. ASSUME pc' = [pc EXCEPT ![w] = "baton"], ma_n_idle' = ma_n_idle - 1,
             abort[w] # "None" \/ ma_interrupt,
             UNCHANGED <<job, status>>, sched' \in Sched, sched'.iRunning = sched.iRunning
      PROVE  IInv'
  <2>1. ma_n_idle' = (ma_n_idle - (IF pc[w] = "woken" THEN 1 ELSE 0))
                        + (IF "baton" \in {"wait", "woken"} THEN 1 ELSE 0)
    BY <1>2, <1>4, <1>7
  <2>2. Moves(w, pc, "baton", sched.iRunning)
    BY <1>2, <1>4, <1>5, <1>6, <1>7, <2>1 DEF Moves
  <2> QED BY <2>2, MoveStep
<1>8. CASE /\ abort[w] # "None"
           /\ pc' = [pc EXCEPT ![w] = "baton"] /\ ma_n_idle' = ma_n_idle - 1
           /\ UNCHANGED <<sched, job, status>>
  BY <1>1, <1>7, <1>8
<1>9. CASE /\ ~r.bFound /\ sched' = r.sched /\ UNCHANGED <<job, status>>
           /\ ma_interrupt
           /\ pc' = [pc EXCEPT ![w] = "baton"] /\ ma_n_idle' = ma_n_idle - 1
  BY <1>1, <1>7, <1>9 DEF DequeueOK
<1>10. CASE /\ ~r.bFound /\ sched' = r.sched /\ UNCHANGED <<job, status>>
            /\ pc' = [pc EXCEPT ![w] = "wait"] /\ ma_n_idle' = ma_n_idle
  <2>1. ma_n_idle' = (ma_n_idle - (IF pc[w] = "woken" THEN 1 ELSE 0))
                        + (IF "wait" \in {"wait", "woken"} THEN 1 ELSE 0)
    BY <1>2, <1>4, <1>10
  <2>2. sched'.iRunning = sched.iRunning
    BY <1>1, <1>10 DEF DequeueOK
  <2>3. Moves(w, pc, "wait", sched.iRunning)
    BY <1>2, <1>4, <1>5, <1>6, <1>10, <2>1, <2>2 DEF Moves
  <2> QED BY <2>3, MoveStep
<1>11. CASE /\ r.bFound
            /\ TakeTask(w, r, pc) /\ ma_n_idle' = ma_n_idle - 1
            /\ status' = [status EXCEPT ![r.task] = "running"]
  <2>1. r.tag \in Tag /\ r.task \in Task /\ r.sched.iRunning = [sched.iRunning EXCEPT ![r.tag] = @ + 1]
    BY <1>1, <1>11 DEF DequeueOK
  <2>2. /\ sched' = r.sched
        /\ pc'  = [pc EXCEPT ![w] = "run"]
        /\ job' = [job EXCEPT ![w] = <<r.tag, r.task>>]
    BY <1>11 DEF TakeTask
  <2>3. /\ job' \in [Worker -> {<<>>} \cup (Tag \X Task)]
        /\ job'[w] = <<r.tag, r.task>>
        /\ \A v \in Worker : v # w => job'[v] = job[v]
    BY <1>4, <2>1, <2>2
  <2>4. job'[w] \in Tag \X Task /\ job'[w] # <<>> /\ job'[w][1] = r.tag
    BY <2>1, <2>3, PairType
  <2>5. sched'.iRunning = [sched.iRunning EXCEPT ![job'[w][1]] = @ + 1]
    BY <2>1, <2>2, <2>4
  <2>6. ma_n_idle' = (ma_n_idle - (IF pc[w] = "woken" THEN 1 ELSE 0))
                        + (IF "run" \in {"wait", "woken"} THEN 1 ELSE 0)
    BY <1>2, <1>4, <1>11
  <2>7. status' \in [Task -> Statuses]
    BY <1>4, <1>11, <2>1 DEF Statuses
  <2>8. Moves(w, pc, "run", sched.iRunning)
    BY <1>2, <1>4, <1>5, <1>6, <2>2, <2>3, <2>4, <2>5, <2>6, <2>7 DEF Moves
  <2> QED BY <2>8, MoveStep
<1> QED BY <1>3, <1>8, <1>9, <1>10, <1>11

LEMMA BatonWorkerStep ==
    ASSUME IInv, NEW w \in Worker, WorkerBaton(w)
    PROVE  IInv'
<1>1. /\ pc[w] = "baton"
      /\ UNCHANGED <<sched, size, slot, abort, job, ma_n_idle, ma_interrupt,
                     ma_iDetachedThreadsToFinish, poolVars, callVars, history>>
  BY DEF WorkerBaton
<1>2. PICK p \in AfterNotifyOne : pc' = [p EXCEPT ![w] = "exit"]
  BY DEF WorkerBaton
<1>3. Wakes(pc, p)
  BY NotifyOneWakes DEF IInv
<1>4. /\ sched' \in Sched /\ job' \in [Worker -> {<<>>} \cup (Tag \X Task)]
      /\ ma_n_idle \in Nat /\ status' \in [Task -> Statuses] /\ toDrain' = toDrain
  BY <1>1 DEF IInv, TypeOK, Statuses, history
<1>5. /\ sched.iRunning \in [Tag -> Nat]
      /\ \A t \in Tag : sched.iRunning[t] = Cardinality(RunningFor(t) \ {w})
  BY <1>1, NotRunning
<1>6. ma_n_idle' = (ma_n_idle - (IF pc[w] = "woken" THEN 1 ELSE 0))
                        + (IF "exit" \in {"wait", "woken"} THEN 1 ELSE 0)
  BY <1>1, <1>4
<1>7. "exit" \in PC
  BY DEF PC
<1>8. Moves(w, p, "exit", sched.iRunning)
  BY <1>1, <1>2, <1>3, <1>4, <1>5, <1>6, <1>7 DEF Moves
<1> QED BY <1>8, MoveStep

\* w ends; a detached thread drops its flag and is no longer counted
LEMMA ExitWorkerStep ==
    ASSUME IInv, NEW w \in Worker, WorkerExit(w)
    PROVE  IInv'
<1>1. /\ pc[w] = "exit"
      /\ pc' = [pc EXCEPT ![w] = "free"]
      /\ UNCHANGED <<sched, size, slot, job, ma_n_idle, ma_interrupt,
                     poolVars, callVars, history>>
  BY DEF WorkerExit
<1>2. /\ abort[w] = "Resize" =>
            /\ ma_iDetachedThreadsToFinish' = ma_iDetachedThreadsToFinish - 1
            /\ abort' = [abort EXCEPT ![w] = "None"]
      /\ abort[w] # "Resize" => UNCHANGED <<ma_iDetachedThreadsToFinish, abort>>
  BY DEF WorkerExit
<1>3. /\ pc \in [Worker -> PC] /\ abort \in [Worker -> Abort]
      /\ ma_iDetachedThreadsToFinish \in Nat
  BY DEF IInv, TypeOK
<1>4. \A v \in Worker : v # w => pc'[v] = pc[v] /\ abort'[v] = abort[v]
  BY <1>1, <1>2, <1>3
<1>5. pc'[w] = "free"
  BY <1>1, <1>3
<1>6. RunningExact'
  <2>1. \A t : RunningFor(t)' = RunningFor(t)
    BY <1>1, <1>4, <1>5 DEF RunningFor
  <2> QED BY <1>1, <2>1 DEF IInv, ThreadInv, RunningExact
<1>7. IdleExact'
  <2>1. IdleSet' = IdleSet
    BY <1>1, <1>4, <1>5 DEF IdleSet
  <2> QED BY <1>1, <2>1 DEF IInv, ThreadInv, IdleExact, IdleSet
<1>8. DetachedExact' /\ ma_iDetachedThreadsToFinish' \in Nat
  <2>1. /\ ma_iDetachedThreadsToFinish = Cardinality(DetachedSet)
        /\ IsFiniteSet(DetachedSet)
    BY CountedSets DEF IInv, ThreadInv, DetachedExact, DetachedSet
  <2>2. DetachedSet' = DetachedSet \ {w}
    BY <1>4, <1>5 DEF DetachedSet
  <2>3. w \in DetachedSet <=> abort[w] = "Resize"
    BY <1>1 DEF DetachedSet
  <2>4. /\ IsFiniteSet(DetachedSet \ {w})
        /\ Cardinality(DetachedSet \ {w}) = IF w \in DetachedSet
             THEN Cardinality(DetachedSet) - 1 ELSE Cardinality(DetachedSet)
    BY <2>1, FS_RemoveElement
  <2>5. Cardinality(DetachedSet \ {w}) \in Nat
    BY <2>4, FS_CardinalityType
  <2>6. ma_iDetachedThreadsToFinish' = Cardinality(DetachedSet \ {w})
    BY <1>2, <1>3, <2>1, <2>3, <2>4
  <2>7. ma_iDetachedThreadsToFinish' = Cardinality(DetachedSet')
    BY <2>2, <2>6
  <2> QED BY <2>5, <2>6, <2>7 DEF DetachedExact, DetachedSet
<1>9. EveryThreadAccountedFor'
  BY <1>1, <1>4, <1>5 DEF IInv, ThreadInv, EveryThreadAccountedFor
<1>10. JobKnown'
  BY <1>1, <1>4, <1>5 DEF IInv, ThreadInv, JobKnown
<1>11. SlotsLive'
  BY <1>1, <1>4 DEF IInv, ThreadInv, SlotsLive
<1>12. StopPhase'
  <2>1. UNCHANGED <<slot, stopPc, ma_interrupt>>
    BY <1>1 DEF callVars
  <2> QED BY <1>4, <1>5, <2>1 DEF IInv, StopPhase
<1>13. TypeOK'
  <2>1. pc' \in [Worker -> PC]
    BY <1>1, <1>3 DEF PC
  <2>2. abort' \in [Worker -> Abort]
    BY <1>2, <1>3 DEF Abort
  <2> QED BY <1>1, <1>8, <2>1, <2>2 DEF IInv, TypeOK, poolVars, callVars, history
<1> QED BY <1>6, <1>7, <1>8, <1>9, <1>10, <1>11, <1>12, <1>13 DEF IInv, ThreadInv

-----------------------------------------------------------------------------
\* ... the wakeups

\* a step that wakes and leaves everything but the calls under way as it is
LEMMA OnlyWakes ==
    ASSUME IInv, Wakes(pc, pc'),
           UNCHANGED <<sched, size, slot, abort, job, ma_n_idle, ma_interrupt,
                       ma_iDetachedThreadsToFinish, poolVars, resizing, calls, history>>,
           notify' \in Nat, unpausing' \in BOOLEAN,
           \/ stopPc' = stopPc
           \/ stopPc = "notify" /\ stopPc' = "join"
    PROVE  IInv'
<1>1. ThreadInv'
  BY WakeStep
<1>2. StopPhase'
  <2>1. \A w \in Worker : pc[w] = "free" => pc'[w] = "free"
    BY DEF Wakes
  <2> QED BY <2>1 DEF IInv, StopPhase
<1>3. TypeOK'
  BY DEF IInv, TypeOK, Wakes, poolVars, history
<1> QED BY <1>1, <1>2, <1>3 DEF IInv

LEMMA NotifySteps ==
    ASSUME IInv,
           \/ NotifyPushed \/ NotifyUnpaused \/ StopNotify
           \/ \E w \in Worker : SpuriousWakeup(w)
    PROVE  IInv'
<1>1. CASE NotifyPushed
  <2>1. Wakes(pc, pc')
    BY <1>1, NotifyOneWakes DEF NotifyPushed, IInv
  <2>2. notify' \in Nat /\ unpausing' \in BOOLEAN
    BY <1>1 DEF NotifyPushed, IInv, TypeOK
  <2> QED BY <1>1, <2>1, <2>2, OnlyWakes DEF NotifyPushed
<1>2. CASE NotifyUnpaused
  <2>1. Wakes(pc, pc')
    BY <1>2, NotifyAllWakes DEF NotifyUnpaused, IInv
  <2>2. notify' \in Nat /\ unpausing' \in BOOLEAN
    BY <1>2 DEF NotifyUnpaused, IInv, TypeOK
  <2> QED BY <1>2, <2>1, <2>2, OnlyWakes DEF NotifyUnpaused
<1>3. CASE StopNotify
  <2>1. Wakes(pc, pc')
    BY <1>3, NotifyAllWakes DEF StopNotify, IInv
  <2>2. notify' \in Nat /\ unpausing' \in BOOLEAN
    BY <1>3 DEF StopNotify, IInv, TypeOK
  <2> QED BY <1>3, <2>1, <2>2, OnlyWakes DEF StopNotify
<1>4. CASE \E w \in Worker : SpuriousWakeup(w)
  <2>1. PICK w \in Worker : SpuriousWakeup(w)
    BY <1>4
  <2>2. Wakes(pc, pc')
    BY <2>1 DEF SpuriousWakeup, Wakes, PC, IInv, TypeOK
  <2>3. notify' \in Nat /\ unpausing' \in BOOLEAN /\ stopPc' = stopPc
    BY <2>1 DEF SpuriousWakeup, IInv, TypeOK, callVars
  <2> QED BY <2>1, <2>2, <2>3, OnlyWakes DEF SpuriousWakeup, callVars
<1> QED BY <1>1, <1>2, <1>3, <1>4

-----------------------------------------------------------------------------
\* ... and the control calls

\* a call that leaves the threads alone
LEMMA CallStep ==
    ASSUME IInv, sched' \in Sched, sched'.iRunning = sched.iRunning,
           UNCHANGED <<threadVars, job, ma_n_idle, ma_interrupt,
                       ma_iDetachedThreadsToFinish, stopPc>>
    PROVE  ThreadInv' /\ StopPhase'
<1>1. UNCHANGED <<size, slot, abort, pc>>
  BY DEF threadVars
<1>2. Wakes(pc, pc')
  BY <1>1 DEF IInv, TypeOK, Wakes
<1>3. ThreadInv'
  BY <1>1, <1>2, WakeStep
<1>4. StopPhase'
  BY <1>1 DEF IInv, StopPhase
<1> QED BY <1>3, <1>4

LEMMA ResizeBeginStep ==
    ASSUME IInv, NEW args \in Resizes, ResizeBegin(args)
    PROVE  IInv'
<1>1. sched \in Sched /\ sched.m_iTotalQueued \in Nat
  BY SchedFields DEF IInv, TypeOK
<1>2. args \in [nThreads : Nat, Growth : Growth, Shrink : Shrink]
  BY PoolAssumption
<1>3. [args |-> args, iQueued |-> sched.m_iTotalQueued] \in
          [args : [nThreads : Nat, Growth : Growth, Shrink : Shrink], iQueued : Nat]
  BY <1>1, <1>2
<1>4. ThreadInv' /\ StopPhase'
  BY <1>1, CallStep DEF ResizeBegin
<1>5. TypeOK'
  BY <1>3 DEF IInv, TypeOK, ResizeBegin, Call, threadVars, poolVars, history
<1> QED BY <1>4, <1>5 DEF IInv

LEMMA ResizeLockedStep ==
    ASSUME IInv, NEW call \in resizing, ResizeLocked(call)
    PROVE  IInv'
<1>1. /\ call \in [args : [nThreads : Nat, Growth : Growth, Shrink : Shrink], iQueued : Nat]
      /\ sched \in Sched
  BY DEF IInv, TypeOK
<1>2. /\ call.args.nThreads \in Nat /\ call.args.Growth \in Growth
      /\ call.args.Shrink \in Shrink /\ call.iQueued \in Nat
  BY <1>1
<1>3. /\ resizing' = resizing \ {call}
      /\ UNCHANGED <<sched, job, ma_n_idle, ma_interrupt, notify, unpausing,
                     stopPc, calls, history>>
  BY DEF ResizeLocked
<1>4. CASE ma_interrupt
  <2>1. UNCHANGED <<threadVars, poolVars, ma_iDetachedThreadsToFinish>>
    BY <1>4 DEF ResizeLocked
  <2>2. ThreadInv' /\ StopPhase'
    BY <1>1, <1>3, <2>1, CallStep
  <2>3. TypeOK'
    BY <1>3, <2>1 DEF IInv, TypeOK, threadVars, poolVars, history
  <2> QED BY <2>2, <2>3 DEF IInv
<1>5. CASE ~ma_interrupt
  <2>1. /\ m_Growth' = call.args.Growth
        /\ m_Shrink' = call.args.Shrink
        /\ ma_iMaxThreads' = call.args.nThreads
    BY <1>5 DEF ResizeLocked
  <2>2. /\ ThreadInv'
        /\ size' \in Nat /\ slot' \in [Worker -> Nat]
        /\ abort' \in [Worker -> Abort] /\ pc' \in [Worker -> PC]
        /\ ma_iDetachedThreadsToFinish' \in Nat
    <3>1. CASE size <= call.args.nThreads
      <4>1. /\ grow(call.iQueued, call.args.Growth, call.args.nThreads)
            /\ UNCHANGED ma_iDetachedThreadsToFinish
        BY <1>5, <3>1 DEF ResizeLocked
      <4> QED BY <1>3, <1>5, <4>1, GrowStep DEF IInv, TypeOK
    <3>2. CASE ~(size <= call.args.nThreads)
      <4>1. shrink(call.iQueued, call.args.Shrink, call.args.nThreads, FALSE)
        BY <1>5, <3>2 DEF ResizeLocked
      <4> QED BY <1>2, <1>3, <1>5, <4>1, ShrinkStep
    <3> QED BY <3>1, <3>2
  <2>3. StopPhase'
    BY <1>3, <1>5 DEF IInv, StopPhase
  <2>4. TypeOK'
    BY <1>2, <1>3, <2>1, <2>2 DEF IInv, TypeOK, history
  <2> QED BY <2>2, <2>3, <2>4 DEF IInv
<1> QED BY <1>4, <1>5

LEMMA StopBeginStep ==
    ASSUME IInv, NEW bKill \in Kills, StopBegin(bKill)
    PROVE  IInv'
<1>1. /\ stopPc = "idle" /\ stopPc' = "notify" /\ ma_interrupt' = TRUE
      /\ abort' = IF bKill
                  THEN [w \in Worker |-> IF slot[w] # 0 THEN "Stop" ELSE abort[w]]
                  ELSE abort
      /\ calls' \in Nat
      /\ UNCHANGED <<sched, size, slot, pc, job, ma_n_idle,
                     ma_iDetachedThreadsToFinish, poolVars, notify, unpausing,
                     resizing, status>>
  BY DEF StopBegin, Call, IInv, TypeOK
<1>2. /\ pc \in [Worker -> PC] /\ abort \in [Worker -> Abort]
      /\ slot \in [Worker -> Nat]
  BY DEF IInv, TypeOK
<1>3. /\ abort' \in [Worker -> Abort]
      /\ \A w \in Worker : pc[w] # "free" =>
            (abort'[w] = "Resize" <=> abort[w] = "Resize")
  BY <1>1, <1>2 DEF Abort, IInv, ThreadInv, EveryThreadAccountedFor
<1>4. RunningExact' /\ IdleExact' /\ JobKnown'
  BY <1>1 DEF IInv, ThreadInv, RunningExact, RunningFor, IdleExact, JobKnown
<1>5. DetachedExact'
  <2>1. DetachedSet' = DetachedSet
    BY <1>1, <1>3 DEF DetachedSet
  <2> QED BY <1>1, <2>1 DEF IInv, ThreadInv, DetachedExact, DetachedSet
<1>6. EveryThreadAccountedFor'
  BY <1>1, <1>3 DEF IInv, ThreadInv, EveryThreadAccountedFor
<1>7. SlotsLive' /\ StopPhase'
  BY <1>1 DEF SlotsLive, StopPhase
<1>8. toDrain' \in [tasks : SUBSET Task, whole : BOOLEAN]
  <2> DEFINE tasks == {k \in Task : status[k] = "queued"}
             whole == /\ ~sched.m_bQueuePaused
                      /\ \A w \in Worker : abort[w] # "Resize"
  <2>1. tasks \in SUBSET Task /\ whole \in BOOLEAN
    OBVIOUS
  <2>2. toDrain' = IF bKill \/ size = 0 THEN NothingToDrain
                   ELSE [tasks |-> tasks, whole |-> whole]
    BY DEF StopBegin
  <2>3. [tasks |-> tasks, whole |-> whole] \in [tasks : SUBSET Task, whole : BOOLEAN]
    <3> HIDE DEF tasks, whole
    <3> QED BY <2>1
  <2>4. NothingToDrain \in [tasks : SUBSET Task, whole : BOOLEAN]
    BY DEF NothingToDrain
  <2> HIDE DEF tasks, whole
  <2> QED BY <2>2, <2>3, <2>4
<1>9. TypeOK'
  BY <1>1, <1>3, <1>8 DEF IInv, TypeOK, poolVars
<1> QED BY <1>4, <1>5, <1>6, <1>7, <1>9 DEF IInv, ThreadInv

LEMMA StopJoinStep ==
    ASSUME IInv, StopJoin
    PROVE  IInv'
<1>1. /\ stopPc = "join" /\ stopPc' = "detached"
      /\ \A w \in Worker : slot[w] # 0 => pc[w] = "free"
      /\ UNCHANGED <<sched, size, slot, abort, pc, job, ma_n_idle, ma_interrupt,
                     ma_iDetachedThreadsToFinish, poolVars, notify, unpausing,
                     resizing, calls, history>>
  BY DEF StopJoin, threadVars
<1>2. Wakes(pc, pc')
  BY <1>1 DEF IInv, TypeOK, Wakes
<1>3. ThreadInv'
  BY <1>1, <1>2, WakeStep
<1>4. StopPhase'
  BY <1>1 DEF IInv, StopPhase
<1>5. TypeOK'
  BY <1>1 DEF IInv, TypeOK, poolVars, history
<1> QED BY <1>3, <1>4, <1>5 DEF IInv

\* The two joins of stop() - of the threads in the table, and of the detached ones
\* it counts - have left no thread.
LEMMA NoThreadLeft ==
    ASSUME IInv, StopReturn
    PROVE  \A w \in Worker : pc[w] = "free"
<1>1. stopPc = "detached" /\ ma_iDetachedThreadsToFinish = 0
  BY DEF StopReturn
<1>2. DetachedSet = {}
  <2>1. Cardinality(DetachedSet) = 0
    BY <1>1 DEF IInv, ThreadInv, DetachedExact, DetachedSet
  <2> QED BY <2>1, CountedSets, FS_EmptySet
<1> TAKE w \in Worker
<1>3. CASE slot[w] # 0
  BY <1>1, <1>3 DEF IInv, StopPhase
<1>4. CASE slot[w] = 0
  BY <1>2, <1>4 DEF DetachedSet, IInv, ThreadInv, EveryThreadAccountedFor
<1> QED BY <1>3, <1>4

LEMMA StopReturnStep ==
    ASSUME IInv, StopReturn
    PROVE  IInv'
<1>1. /\ stopPc' = "idle" /\ size' = 0 /\ slot' = [w \in Worker |-> 0]
      /\ abort' = [w \in Worker |-> IF pc[w] = "free" THEN "None" ELSE abort[w]]
      /\ ma_n_idle' = 0 /\ ma_interrupt' = FALSE /\ toDrain' = NothingToDrain
      /\ UNCHANGED <<sched, pc, job, ma_iDetachedThreadsToFinish, poolVars, notify,
                     unpausing, resizing, calls, status>>
  BY DEF StopReturn
<1>2. \A w \in Worker : pc[w] = "free"
  BY NoThreadLeft
<1>3. \A w \in Worker : slot'[w] = 0 /\ pc'[w] = "free"
  BY <1>1, <1>2
<1>4. RunningExact' /\ JobKnown'
  BY <1>1 DEF IInv, ThreadInv, RunningExact, RunningFor, JobKnown
<1>5. IdleExact'
  <2>1. IdleSet' = {}
    BY <1>3 DEF IdleSet
  <2> QED BY <1>1, <2>1, FS_EmptySet DEF IdleExact, IdleSet
<1>6. DetachedExact'
  <2>1. DetachedSet = {} /\ DetachedSet' = {}
    BY <1>2, <1>3 DEF DetachedSet
  <2> QED BY <1>1, <2>1 DEF IInv, ThreadInv, DetachedExact, DetachedSet
<1>7. EveryThreadAccountedFor' /\ SlotsLive' /\ StopPhase'
  BY <1>1, <1>3 DEF EveryThreadAccountedFor, SlotsLive, StopPhase
<1>8. TypeOK'
  <2>1. abort' \in [Worker -> Abort]
    BY <1>1 DEF IInv, TypeOK, Abort
  <2>2. toDrain' \in [tasks : SUBSET Task, whole : BOOLEAN]
    BY <1>1 DEF NothingToDrain
  <2> QED BY <1>1, <2>1, <2>2 DEF IInv, TypeOK, poolVars
<1> QED BY <1>4, <1>5, <1>6, <1>7, <1>8 DEF IInv, ThreadInv

LEMMA PauseStep ==
    ASSUME IInv, NEW b \in BOOLEAN, pause(b)
    PROVE  IInv'
<1> DEFINE S == [sched EXCEPT !.m_bQueuePaused = b]
<1>1. sched \in Sched
  BY DEF IInv, TypeOK
<1>2. S \in Sched /\ S.iRunning = sched.iRunning
  BY <1>1 DEF Sched
<1>3. sched' = S
  BY DEF pause
<1> HIDE DEF S
<1>4. ThreadInv' /\ StopPhase'
  BY <1>2, <1>3, CallStep DEF pause
<1>5. toDrain' \in [tasks : SUBSET Task, whole : BOOLEAN]
  <2> DEFINE whole == toDrain.whole /\ ~b
  <2>1. whole \in BOOLEAN /\ toDrain \in [tasks : SUBSET Task, whole : BOOLEAN]
    BY DEF IInv, TypeOK
  <2>2. toDrain' = [toDrain EXCEPT !.whole = whole]
    BY DEF pause
  <2> HIDE DEF whole
  <2> QED BY <2>1, <2>2
<1>6. unpausing' \in BOOLEAN
  BY DEF pause, IInv, TypeOK
<1>7. calls' \in Nat
  BY DEF pause, Call, IInv, TypeOK
<1>8. UNCHANGED <<size, slot, abort, pc, job, ma_n_idle, ma_interrupt,
                  ma_iDetachedThreadsToFinish, ma_iMaxThreads, m_Growth, m_Shrink,
                  notify, stopPc, resizing, status>>
  BY DEF pause, threadVars, poolVars
<1>9. TypeOK'
  BY <1>2, <1>3, <1>5, <1>6, <1>7, <1>8 DEF IInv, TypeOK
<1> QED BY <1>4, <1>9 DEF IInv

LEMMA ClearStep ==
    ASSUME IInv, clear
    PROVE  IInv'
<1>1. sched' \in Sched /\ sched'.iRunning = sched.iRunning
  BY ClearedType DEF clear, IInv, TypeOK
<1>2. ThreadInv' /\ StopPhase'
  BY <1>1, CallStep DEF clear
<1>3. status' \in [Task -> {"new", "queued", "running", "done", "broken"}]
  BY DEF clear, IInv, TypeOK
<1>4. TypeOK'
  BY <1>1, <1>3 DEF IInv, TypeOK, clear, Call, threadVars, poolVars
<1> QED BY <1>2, <1>4 DEF IInv

LEMMA SetStrategyStep ==
    ASSUME IInv, NEW s \in Strategies, set_strategy(s[1], s[2])
    PROVE  IInv'
<1>1. s[1] \in Growth /\ s[2] \in Shrink
  BY PoolAssumption
<1>2. sched' \in Sched /\ sched'.iRunning = sched.iRunning
  BY DEF set_strategy, IInv, TypeOK
<1>3. ThreadInv' /\ StopPhase'
  BY <1>2, CallStep DEF set_strategy
<1>4. TypeOK'
  BY <1>1, <1>2 DEF IInv, TypeOK, set_strategy, Call, threadVars, history
<1> QED BY <1>3, <1>4 DEF IInv

LEMMA ConfigureTagStep ==
    ASSUME IInv, NEW c \in Reconfigs, ConfigureTag(c[1], c[2])
    PROVE  IInv'
<1>1. c[1] \in Tag /\ c[2] \in TagConfig
  BY PoolAssumption
<1>2. sched' \in Sched /\ sched'.iRunning = sched.iRunning
  BY <1>1, ConfigureTagType DEF ConfigureTag, IInv, TypeOK
<1>3. ThreadInv' /\ StopPhase'
  BY <1>2, CallStep DEF ConfigureTag
<1>4. TypeOK'
  BY <1>2 DEF IInv, TypeOK, ConfigureTag, Call, threadVars, poolVars, history
<1> QED BY <1>3, <1>4 DEF IInv

-----------------------------------------------------------------------------
\* The theorems

LEMMA InitInv == Init => IInv
<1> SUFFICES ASSUME Init PROVE IInv
  OBVIOUS
<1> DEFINE n == Lesser(GrowBy(InitGrowth, 0, InitSize), Cardinality(Worker))
<1>1. n \in Nat
  <2>1. GrowBy(InitGrowth, 0, InitSize) \in Nat
    BY PoolAssumption DEF GrowBy, Lesser, Growth
  <2>2. Cardinality(Worker) \in Nat
    BY WorkerSets
  <2> QED BY <2>1, <2>2 DEF Lesser
<1>2. PICK place \in [Worker -> 0 .. n] :
             /\ \A i \in 1 .. n : \E w \in Worker : place[w] = i
             /\ \A v, w \in Worker : place[v] = place[w] /\ place[v] # 0 => v = w
             /\ slot = place
             /\ size = n
             /\ pc = [w \in Worker |-> IF place[w] = 0 THEN "free" ELSE "start"]
  BY DEF Init
<1> HIDE DEF n
<1>3. /\ sched \in Sched
      /\ sched.iRunning = [t \in Tag |-> 0]
  BY EmptyType, PoolAssumption DEF Init
<1>4. /\ job \in [Worker -> {<<>>}] /\ \A w \in Worker : abort[w] = "None"
      /\ ma_n_idle = 0 /\ ma_interrupt = FALSE /\ ma_iDetachedThreadsToFinish = 0
      /\ stopPc = "idle"
  BY DEF Init
<1>5. \A w \in Worker : /\ pc[w] \in {"free", "start"} /\ slot[w] \in 0 .. n
                        /\ slot[w] = 0 <=> pc[w] = "free"
  BY <1>2
<1>6. TypeOK
  <2>1. size \in Nat /\ slot \in [Worker -> Nat] /\ pc \in [Worker -> PC]
    BY <1>1, <1>2 DEF PC
  <2>2. toDrain \in [tasks : SUBSET Task, whole : BOOLEAN]
    BY DEF Init, NothingToDrain
  <2>3. abort \in [Worker -> Abort]
    BY DEF Init, Abort
  <2>4. status \in [Task -> {"new", "queued", "running", "done", "broken"}]
    BY DEF Init
  <2>5. job \in [Worker -> {<<>>} \cup (Tag \X Task)]
    BY <1>4
  <2>6. /\ ma_iMaxThreads \in Nat /\ m_Growth \in Growth /\ m_Shrink \in Shrink
        /\ notify \in Nat /\ unpausing \in BOOLEAN /\ resizing = {} /\ calls \in Nat
    BY PoolAssumption DEF Init
  <2> QED BY <1>3, <1>4, <2>1, <2>2, <2>3, <2>4, <2>5, <2>6 DEF TypeOK
<1>7. RunningExact
  <2>1. \A t : RunningFor(t) = {}
    BY <1>5 DEF RunningFor
  <2> QED BY <1>3, <2>1, FS_EmptySet DEF RunningExact
<1>8. IdleExact
  <2>1. IdleSet = {}
    BY <1>5 DEF IdleSet
  <2> QED BY <1>4, <2>1, FS_EmptySet DEF IdleExact, IdleSet
<1>9. DetachedExact
  <2>1. DetachedSet = {}
    BY <1>4 DEF DetachedSet
  <2> QED BY <1>4, <2>1, FS_EmptySet DEF DetachedExact, DetachedSet
<1>10. EveryThreadAccountedFor
  BY <1>1, <1>2, <1>4, <1>5 DEF EveryThreadAccountedFor
<1>11. JobKnown /\ SlotsLive /\ StopPhase
  BY <1>4, <1>5 DEF JobKnown, SlotsLive, StopPhase
<1> QED BY <1>6, <1>7, <1>8, <1>9, <1>10, <1>11 DEF IInv, ThreadInv

LEMMA NextInv == IInv /\ [Next]_vars => IInv'
<1> SUFFICES ASSUME IInv, [Next]_vars PROVE IInv'
  OBVIOUS
<1>1. ASSUME NEW t \in Tag, NEW k \in Task, push_to_tag(t, k) PROVE IInv'
  BY <1>1, PushStep
<1>2. ASSUME NEW w \in Worker, WorkerStep(w) PROVE IInv'
  BY <1>2, StartWorkerStep, FinishWorkerStep, WakeWorkerStep, BatonWorkerStep,
     ExitWorkerStep DEF WorkerStep
<1>3. CASE \/ NotifyPushed \/ NotifyUnpaused \/ StopNotify
           \/ \E w \in Worker : SpuriousWakeup(w)
  BY <1>3, NotifySteps
<1>4. ASSUME NEW args \in Resizes, ResizeBegin(args) PROVE IInv'
  BY <1>4, ResizeBeginStep
<1>5. ASSUME NEW call \in resizing, ResizeLocked(call) PROVE IInv'
  BY <1>5, ResizeLockedStep
<1>6. ASSUME NEW bKill \in Kills, StopBegin(bKill) PROVE IInv'
  BY <1>6, StopBeginStep
<1>7. CASE StopJoin
  BY <1>7, StopJoinStep
<1>8. CASE StopReturn
  BY <1>8, StopReturnStep
<1>9. ASSUME NEW b \in BOOLEAN, pause(b) PROVE IInv'
  BY <1>9, PauseStep
<1>10. CASE clear
  BY <1>10, ClearStep
<1>11. ASSUME NEW s \in Strategies, set_strategy(s[1], s[2]) PROVE IInv'
  BY <1>11, SetStrategyStep
<1>12. ASSUME NEW c \in Reconfigs, ConfigureTag(c[1], c[2]) PROVE IInv'
  BY <1>12, ConfigureTagStep
<1>13. CASE UNCHANGED vars
  BY <1>13 DEF vars, threadVars, poolVars, callVars, history, IInv, TypeOK, ThreadInv,
     RunningExact, RunningFor, IdleExact, DetachedExact, EveryThreadAccountedFor,
     JobKnown, SlotsLive, StopPhase
<1> QED BY <1>1, <1>2, <1>3, <1>4, <1>5, <1>6, <1>7, <1>8, <1>9, <1>10, <1>11, <1>12,
           <1>13 DEF Next

THEOREM Invariance == Spec => []IInv
<1>1. Init => IInv
  BY InitInv
<1>2. IInv /\ [Next]_vars => IInv'
  BY NextInv
<1> QED BY <1>1, <1>2, PTL DEF Spec

\* Type correctness of the pool, the scheduler included.
THEOREM TypeCorrect == Spec => []TypeOK
<1>1. IInv => TypeOK
  BY DEF IInv
<1> QED BY <1>1, Invariance, PTL

\* The counters kthreadpool.cpp decides by - iRunning for the caps, ma_n_idle for
\* growing, ma_iDetachedThreadsToFinish for stop() - are what they stand for, however
\* pushes, shrinks, kills and restarts interleave with the workers.
THEOREM CountsAreExact == Spec => []CountersExact
<1>1. IInv => CountersExact
  BY DEF IInv, ThreadInv, CountersExact
<1> QED BY <1>1, Invariance, PTL

\* The table of threads: every live thread is in it once, or was detached by a shrink.
THEOREM NoThreadForgotten == Spec => []EveryThreadAccountedFor
<1>1. IInv => EveryThreadAccountedFor
  BY DEF IInv, ThreadInv
<1> QED BY <1>1, Invariance, PTL

\* When stop() returns, no worker thread is alive, detached ones included.
THEOREM StopIsFinal == Spec => StopLeavesNoThread
<1> DEFINE A == ma_interrupt /\ ~ma_interrupt' => \A w \in Worker : pc'[w] = "free"
<1>1. IInv /\ [Next]_vars => [A]_vars
  <2> SUFFICES ASSUME IInv, Next, ma_interrupt, ~ma_interrupt'
               PROVE  \A w \in Worker : pc'[w] = "free"
    OBVIOUS
  <2>1. StopReturn
    BY DEF Next, push_to_tag, NotifyPushed, WorkerStep, WorkerStart, WorkerFinish,
       WorkerWake, WorkerBaton, WorkerExit, SpuriousWakeup, ResizeBegin, ResizeLocked,
       StopBegin, StopNotify, StopJoin, pause, NotifyUnpaused, clear, set_strategy,
       ConfigureTag
  <2>2. pc' = pc
    BY <2>1 DEF StopReturn
  <2> QED BY <2>1, <2>2, NoThreadLeft
<1> QED BY <1>1, Invariance, PTL DEF Spec, StopLeavesNoThread

-----------------------------------------------------------------------------
\* The caps

\* No ConfigureTag call changes the cap a tag started with.
CapsKept == \A c \in Reconfigs :
                c[2].iMaxConcurrency = InitConfig[c[1]].iMaxConcurrency

\* a scheduler that counts no tag above its cap
CapsHold(S) ==
    \A t \in Tag :
        /\ S.Config[t].iMaxConcurrency = InitConfig[t].iMaxConcurrency
        /\ S.Config[t].iMaxConcurrency # 0 => S.iRunning[t] <= S.Config[t].iMaxConcurrency

\* A dequeue starts a task below its tag's cap, or none.
LEMMA DequeueCaps ==
    ASSUME NEW S \in Sched, CapsHold(S), NEW r, DequeueOK(S, r)
    PROVE  CapsHold(r.sched)
<1>1. S.iRunning \in [Tag -> Nat] /\ S.Config \in [Tag -> TagConfig]
  BY SchedFields
<1>2. r.sched.Config = S.Config /\ r.bFound \in BOOLEAN
  BY DEF DequeueOK
<1>3. CASE ~r.bFound
  BY <1>2, <1>3 DEF DequeueOK, CapsHold
<1>4. CASE r.bFound
  <2>1. r.tag \in Tag /\ BelowCap(S, r.tag) /\ r.sched.iRunning = [S.iRunning EXCEPT ![r.tag] = @ + 1]
    BY <1>4 DEF DequeueOK
  <2>2. ASSUME NEW t \in Tag, S.Config[t].iMaxConcurrency # 0
        PROVE  r.sched.iRunning[t] <= S.Config[t].iMaxConcurrency
    <3>1. S.iRunning[t] \in Nat /\ S.Config[t].iMaxConcurrency \in Nat
      BY <1>1 DEF TagConfig
    <3>2. S.iRunning[t] <= S.Config[t].iMaxConcurrency
      BY <2>2 DEF CapsHold
    <3>3. CASE t = r.tag
      BY <1>1, <2>1, <2>2, <3>1, <3>3 DEF BelowCap
    <3>4. CASE t # r.tag
      BY <1>1, <2>1, <3>2, <3>4
    <3> QED BY <3>3, <3>4
  <2> QED BY <1>2, <2>2 DEF CapsHold
<1> QED BY <1>2, <1>3, <1>4

\* A finished task frees its slot, and another one may take it.
LEMMA FinishCaps ==
    ASSUME IInv, CapsHold(sched), NEW w \in Worker, WorkerFinish(w)
    PROVE  CapsHold(sched')
<1> DEFINE done == sched_task_done(sched, job[w][1])
           r    == sched_dequeue(done.sched)
<1>1. pc[w] = "run" /\ sched \in Sched /\ job[w] \in Tag \X Task /\ job[w][1] \in Tag
  <2>1. pc[w] = "run" /\ sched \in Sched
    BY DEF WorkerFinish, IInv, TypeOK
  <2>2. job[w] \in Tag \X Task
    BY <2>1 DEF IInv, TypeOK, ThreadInv, JobKnown
  <2> QED BY <2>1, <2>2
<1>2. sched.iRunning \in [Tag -> Nat] /\ sched.Config \in [Tag -> TagConfig]
  BY <1>1, SchedFields
<1>3. sched.iRunning[job[w][1]] > 0
  <2>1. w \in RunningFor(job[w][1])
    BY <1>1 DEF RunningFor
  <2>2. IsFiniteSet(RunningFor(job[w][1])) /\ Cardinality(RunningFor(job[w][1])) # 0
    BY <2>1, CountedSets, FS_EmptySet
  <2> QED BY <1>1, <1>2, <2>2 DEF IInv, ThreadInv, RunningExact
<1>4. /\ done.sched \in Sched /\ done.sched.Config = sched.Config
      /\ done.sched.iRunning = [sched.iRunning EXCEPT ![job[w][1]] = @ - 1]
  BY <1>1, <1>3, TaskDoneType
<1>5. DequeueOK(done.sched, r)
  BY <1>4, DequeueType
<1>6. sched' = done.sched \/ sched' = r.sched
  BY DEF WorkerFinish, TakeTask, GoIdle
<1> HIDE DEF done, r
<1>7. CapsHold(done.sched)
  <2>1. ASSUME NEW t \in Tag, sched.Config[t].iMaxConcurrency # 0
        PROVE  done.sched.iRunning[t] <= sched.Config[t].iMaxConcurrency
    <3>1. /\ sched.iRunning[t] \in Nat /\ sched.Config[t].iMaxConcurrency \in Nat
          /\ sched.iRunning[t] <= sched.Config[t].iMaxConcurrency
      BY <1>2, <2>1 DEF TagConfig, CapsHold
    <3>2. done.sched.iRunning[t] = IF t = job[w][1] THEN sched.iRunning[t] - 1
                                                    ELSE sched.iRunning[t]
      BY <1>2, <1>4
    <3> QED BY <3>1, <3>2
  <2> QED BY <1>4, <2>1 DEF CapsHold
<1>8. CapsHold(r.sched)
  BY <1>4, <1>5, <1>7, DequeueCaps
<1> QED BY <1>6, <1>7, <1>8

LEMMA CapsInit == Init => CapsHold(sched)
<1> SUFFICES ASSUME Init PROVE CapsHold(sched)
  OBVIOUS
<1>1. sched.iRunning = [t \in Tag |-> 0] /\ sched.Config = InitConfig
  BY EmptyType, PoolAssumption DEF Init
<1>2. \A t \in Tag : InitConfig[t].iMaxConcurrency \in Nat
  BY PoolAssumption DEF TagConfig
<1>3. ASSUME NEW t \in Tag
      PROVE  /\ sched.Config[t].iMaxConcurrency = InitConfig[t].iMaxConcurrency
             /\ sched.iRunning[t] <= sched.Config[t].iMaxConcurrency
  BY <1>1, <1>2
<1> QED BY <1>3 DEF CapsHold

\* No step changes that, if the caps are kept.
LEMMA CapsNext ==
    ASSUME CapsKept
    PROVE  IInv /\ CapsHold(sched) /\ [Next]_vars => CapsHold(sched')
<1> SUFFICES ASSUME IInv, CapsHold(sched), [Next]_vars PROVE CapsHold(sched')
  OBVIOUS
<1>0. sched \in Sched
  BY DEF IInv, TypeOK
<1>1. DequeueOK(sched, sched_dequeue(sched))
  BY <1>0, DequeueType
<1>2. CapsHold(sched_dequeue(sched).sched)
  BY <1>0, <1>1, DequeueCaps
<1>3. ASSUME NEW t \in Tag, NEW k \in Task, push_to_tag(t, k) PROVE CapsHold(sched')
  <2> DEFINE r == sched_enqueue(sched, t, k)
  <2>1. r.sched.iRunning = sched.iRunning /\ r.sched.Config = sched.Config
    BY <1>0, EnqueueType
  <2>2. sched' = r.sched
    BY <1>3 DEF push_to_tag
  <2> HIDE DEF r
  <2> QED BY <2>1, <2>2 DEF CapsHold
<1>4. ASSUME NEW w \in Worker, WorkerStep(w) PROVE CapsHold(sched')
  <2>1. CASE WorkerStart(w)
    <3>1. sched' = sched_dequeue(sched).sched
      BY <2>1 DEF WorkerStart, TakeTask, GoIdle
    <3> QED BY <1>2, <3>1
  <2>2. CASE WorkerFinish(w)
    BY <2>2, FinishCaps
  <2>3. CASE WorkerWake(w)
    <3>1. sched' = sched_dequeue(sched).sched \/ sched' = sched
      BY <2>3 DEF WorkerWake, TakeTask
    <3> QED BY <1>2, <3>1
  <2>4. CASE WorkerBaton(w) \/ WorkerExit(w)
    BY <2>4 DEF WorkerBaton, WorkerExit
  <2> QED BY <1>4, <2>1, <2>2, <2>3, <2>4 DEF WorkerStep
<1>5. ASSUME NEW b \in BOOLEAN, pause(b) PROVE CapsHold(sched')
  <2> DEFINE S == [sched EXCEPT !.m_bQueuePaused = b]
  <2>1. S.iRunning = sched.iRunning /\ S.Config = sched.Config
    BY <1>0 DEF Sched
  <2>2. sched' = S
    BY <1>5 DEF pause
  <2> HIDE DEF S
  <2> QED BY <2>1, <2>2 DEF CapsHold
<1>6. CASE clear
  <2>1. sched'.iRunning = sched.iRunning /\ sched'.Config = sched.Config
    BY <1>0, <1>6, ClearedType DEF clear
  <2> QED BY <2>1 DEF CapsHold
<1>7. ASSUME NEW c \in Reconfigs, ConfigureTag(c[1], c[2]) PROVE CapsHold(sched')
  <2>1. /\ c[1] \in Tag /\ c[2] \in TagConfig
        /\ c[2].iMaxConcurrency = InitConfig[c[1]].iMaxConcurrency
    BY PoolAssumption DEF CapsKept
  <2>2. /\ sched'.iRunning = sched.iRunning
        /\ sched'.Config = [sched.Config EXCEPT ![c[1]] = c[2]]
    BY <1>0, <1>7, <2>1, ConfigureTagType DEF ConfigureTag
  <2>3. sched.Config \in [Tag -> TagConfig]
    BY <1>0, SchedFields
  <2>4. \A t \in Tag : sched'.Config[t].iMaxConcurrency = sched.Config[t].iMaxConcurrency
    BY <2>1, <2>2, <2>3 DEF CapsHold
  <2> QED BY <2>2, <2>4 DEF CapsHold
<1>8. CASE UNCHANGED sched
  BY <1>8
<1>9. UNCHANGED vars => UNCHANGED sched
  BY DEF vars
<1>10. NotifyPushed \/ NotifyUnpaused \/ StopNotify \/ StopJoin \/ StopReturn
          => UNCHANGED sched
  BY DEF NotifyPushed, NotifyUnpaused, StopNotify, StopJoin, StopReturn
<1>11. /\ \A w \in Worker : SpuriousWakeup(w) => UNCHANGED sched
       /\ \A args \in Resizes : ResizeBegin(args) => UNCHANGED sched
       /\ \A call \in resizing : ResizeLocked(call) => UNCHANGED sched
       /\ \A bKill \in Kills : StopBegin(bKill) => UNCHANGED sched
       /\ \A s \in Strategies : set_strategy(s[1], s[2]) => UNCHANGED sched
  BY DEF SpuriousWakeup, ResizeBegin, ResizeLocked, StopBegin, set_strategy
<1> QED BY <1>3, <1>4, <1>5, <1>6, <1>7, <1>8, <1>9, <1>10, <1>11 DEF Next

\* "at most 4 of these run at once": a capped tag is never served beyond its cap, by
\* any number of threads, through every resize(), stop() and restart - as long as
\* nobody changes the cap.
THEOREM CapsAreKept ==
    ASSUME CapsKept
    PROVE  Spec => []CapRespected
<1>1. Init => CapsHold(sched)
  BY CapsInit
<1>2. IInv /\ CapsHold(sched) /\ [Next]_vars => CapsHold(sched')
  BY CapsNext
<1>3. IInv /\ CapsHold(sched) => CapRespected
  BY DEF IInv, ThreadInv, RunningExact, CapsHold, CapRespected
<1>4. CapsHold(sched') <=> CapsHold(sched)'
  BY DEF CapsHold
<1> QED BY <1>1, <1>2, <1>3, <1>4, Invariance, PTL DEF Spec

-----------------------------------------------------------------------------
\* The deficits

\* A ConfigureTag call may raise the weight a tag started with, and no later one lowers it.
WeightsRaised == \A c \in Reconfigs :
    /\ InitConfig[c[1]].iWeight <= c[2].iWeight
    /\ \A d \in Reconfigs : d[1] = c[1] => d[2].iWeight = c[2].iWeight

\* the weights still to be configured are no lower than those in use
QuantumHolds(S) ==
    /\ WithinQuantum(S)
    /\ \A c \in Reconfigs : S.Config[c[1]].iWeight <= c[2].iWeight

LEMMA QuantumInit ==
    ASSUME WeightsRaised
    PROVE  Init => QuantumHolds(sched)
<1> SUFFICES ASSUME Init PROVE QuantumHolds(sched)
  OBVIOUS
<1>1. sched = EmptySched(InitConfig, InitOrder) BY DEF Init
<1>2. sched \in Sched /\ sched.Config = InitConfig
  BY <1>1, PoolAssumption, EmptyType
<1>3. sched.iDeficit = [t \in Tag |-> 0] BY <1>1 DEF EmptySched
<1>4. WithinQuantum(sched) BY <1>2, <1>3, NoDeficit
<1> QED BY <1>2, <1>4 DEF QuantumHolds, WeightsRaised

LEMMA QuantumNext ==
    ASSUME WeightsRaised
    PROVE  IInv /\ QuantumHolds(sched) /\ [Next]_vars => QuantumHolds(sched')
<1> SUFFICES ASSUME IInv, QuantumHolds(sched), [Next]_vars PROVE QuantumHolds(sched')
  OBVIOUS
<1>0. sched \in Sched /\ WithinQuantum(sched) BY DEF IInv, TypeOK, QuantumHolds
<1>1. ASSUME NEW S, S.Config = sched.Config, WithinQuantum(S) PROVE QuantumHolds(S)
  BY <1>1 DEF QuantumHolds
<1>2. QuantumHolds(sched_dequeue(sched).sched)
  <2>1. PICK r : r = sched_dequeue(sched) OBVIOUS
  <2>2. r.sched.Config = sched.Config BY <1>0, <2>1, DequeueType DEF DequeueOK
  <2>3. WithinQuantum(r.sched) BY <1>0, <2>1, DequeueQuantum
  <2> QED BY <1>1, <2>1, <2>2, <2>3
<1>3. ASSUME NEW t \in Tag, NEW k \in Task, push_to_tag(t, k) PROVE QuantumHolds(sched')
  <2>1. PICK r : r = sched_enqueue(sched, t, k) OBVIOUS
  <2>2. r.sched.Config = sched.Config BY <1>0, <2>1, EnqueueType
  <2>3. WithinQuantum(r.sched) BY <1>0, <2>1, EnqueueQuantum
  <2>4. sched' = r.sched BY <1>3, <2>1 DEF push_to_tag
  <2> QED BY <1>1, <2>2, <2>3, <2>4
<1>4. ASSUME NEW w \in Worker, WorkerStep(w) PROVE QuantumHolds(sched')
  <2>1. CASE WorkerStart(w)
    <3>1. sched' = sched_dequeue(sched).sched
      BY <2>1 DEF WorkerStart, TakeTask, GoIdle
    <3> QED BY <1>2, <3>1
  <2>2. CASE WorkerFinish(w)
    <3>1. job[w] \in Tag \X Task
      BY <2>2 DEF WorkerFinish, IInv, TypeOK, ThreadInv, JobKnown
    <3>2. PICK tag \in Tag : tag = job[w][1] BY <3>1
    <3>3. PICK done : done = sched_task_done(sched, tag) OBVIOUS
    <3>4. done.sched \in Sched /\ done.sched.Config = sched.Config
      BY <1>0, <3>3, TaskDoneType
    <3>5. WithinQuantum(done.sched) BY <1>0, <3>3, TaskDoneQuantum
    <3>6. PICK r : r = sched_dequeue(done.sched) OBVIOUS
    <3>7. r.sched.Config = sched.Config BY <3>4, <3>6, DequeueType DEF DequeueOK
    <3>8. WithinQuantum(r.sched) BY <3>4, <3>5, <3>6, DequeueQuantum
    <3>9. sched' = done.sched \/ sched' = r.sched
      BY <2>2, <3>2, <3>3, <3>6 DEF WorkerFinish, TakeTask, GoIdle
    <3> QED BY <1>1, <3>4, <3>5, <3>7, <3>8, <3>9
  <2>3. CASE WorkerWake(w)
    <3>1. sched' = sched_dequeue(sched).sched \/ sched' = sched
      BY <2>3 DEF WorkerWake, TakeTask
    <3> QED BY <1>2, <3>1
  <2>4. CASE WorkerBaton(w) \/ WorkerExit(w)
    BY <2>4 DEF WorkerBaton, WorkerExit
  <2> QED BY <1>4, <2>1, <2>2, <2>3, <2>4 DEF WorkerStep
<1>5. ASSUME NEW b \in BOOLEAN, pause(b) PROVE QuantumHolds(sched')
  <2>1. PICK S : S = [sched EXCEPT !.m_bQueuePaused = b] OBVIOUS
  <2>2. S.iDeficit = sched.iDeficit /\ S.Config = sched.Config
    BY <1>0, <2>1 DEF Sched
  <2>3. sched' = S BY <1>5, <2>1 DEF pause
  <2> QED BY <1>0, <1>1, <2>2, <2>3 DEF WithinQuantum
<1>6. CASE clear
  <2>1. PICK S : S = Cleared(sched) OBVIOUS
  <2>2. S \in Sched /\ S.Config = sched.Config BY <1>0, <2>1, ClearedType
  <2>3. S.iDeficit = [t \in Tag |-> 0] BY <1>0, <2>1 DEF Cleared, Sched
  <2>4. WithinQuantum(S) BY <2>2, <2>3, NoDeficit
  <2>5. sched' = S BY <1>6, <2>1 DEF clear
  <2> QED BY <1>1, <2>2, <2>4, <2>5
<1>7. ASSUME NEW c \in Reconfigs, ConfigureTag(c[1], c[2]) PROVE QuantumHolds(sched')
  <2>1. PICK tag \in Tag, config \in TagConfig : tag = c[1] /\ config = c[2]
    BY PoolAssumption
  <2>2. sched.Config[tag].iWeight <= config.iWeight
    BY <2>1 DEF QuantumHolds
  <2>3. PICK S : S = ConfigureTagTo(sched, tag, config) OBVIOUS
  <2>4. WithinQuantum(S) BY <1>0, <2>2, <2>3, ConfigureTagQuantum
  <2>5. S.Config = [sched.Config EXCEPT ![tag] = config]
    BY <1>0, <2>3, ConfigureTagType
  <2>6. ASSUME NEW d \in Reconfigs PROVE S.Config[d[1]].iWeight <= d[2].iWeight
    <3>1. PICK u \in Tag, next \in TagConfig : u = d[1] /\ next = d[2]
      BY PoolAssumption
    <3>2. sched.Config \in [Tag -> TagConfig] BY <1>0, SchedFields
    <3>3. CASE u = tag
      <4>1. next.iWeight = config.iWeight
        BY <2>1, <3>1, <3>3 DEF WeightsRaised
      <4>2. S.Config[u] = config BY <2>5, <3>2, <3>3
      <4>3. config.iWeight \in Nat BY DEF TagConfig
      <4> QED BY <3>1, <4>1, <4>2, <4>3
    <3>4. CASE u # tag
      <4>1. S.Config[u] = sched.Config[u] BY <2>5, <3>2, <3>4
      <4> QED BY <3>1, <4>1 DEF QuantumHolds
    <3> QED BY <3>3, <3>4
  <2>7. sched' = S BY <1>7, <2>1, <2>3 DEF ConfigureTag
  <2> QED BY <2>4, <2>6, <2>7 DEF QuantumHolds
<1>8. CASE UNCHANGED sched
  BY <1>8
<1>9. UNCHANGED vars => UNCHANGED sched
  BY DEF vars
<1>10. NotifyPushed \/ NotifyUnpaused \/ StopNotify \/ StopJoin \/ StopReturn
          => UNCHANGED sched
  BY DEF NotifyPushed, NotifyUnpaused, StopNotify, StopJoin, StopReturn
<1>11. /\ \A w \in Worker : SpuriousWakeup(w) => UNCHANGED sched
       /\ \A args \in Resizes : ResizeBegin(args) => UNCHANGED sched
       /\ \A call \in resizing : ResizeLocked(call) => UNCHANGED sched
       /\ \A bKill \in Kills : StopBegin(bKill) => UNCHANGED sched
       /\ \A s \in Strategies : set_strategy(s[1], s[2]) => UNCHANGED sched
  BY DEF SpuriousWakeup, ResizeBegin, ResizeLocked, StopBegin, set_strategy
<1> QED BY <1>3, <1>4, <1>5, <1>6, <1>7, <1>8, <1>9, <1>10, <1>11 DEF Next

\* However many threads take tasks, finish them and clear the queues at once, no tag
\* overdraws its deficit or saves up more than one quantum - as long as no weight is
\* lowered while the pool runs.
THEOREM DeficitsAreBounded ==
    ASSUME WeightsRaised
    PROVE  Spec => []WithinQuantum(sched)
<1>1. Init => QuantumHolds(sched)
  BY QuantumInit
<1>2. IInv /\ QuantumHolds(sched) /\ [Next]_vars => QuantumHolds(sched')
  BY QuantumNext
<1>3. QuantumHolds(sched) => WithinQuantum(sched)
  BY DEF QuantumHolds
<1>4. QuantumHolds(sched') <=> QuantumHolds(sched)'
  BY DEF QuantumHolds, WithinQuantum
<1> QED BY <1>1, <1>2, <1>3, <1>4, Invariance, PTL DEF Spec

-----------------------------------------------------------------------------
\* The scheduler's total is exact, and what could start is found by sched_dequeue.

LEMMA KeptInit == Init => WellKept(sched)
<1>1. InitConfig \in [Tag -> TagConfig] /\ InitOrder \in Seq(Tag) BY PoolAssumption
<1>2. WellKept(EmptySched(InitConfig, InitOrder)) BY <1>1, EmptyKept
<1>3. Init => sched = EmptySched(InitConfig, InitOrder) BY DEF Init
<1> QED BY <1>2, <1>3

\* What a worker in its task finds when the task has ended: done is the scheduler after
\* sched_task_done.
LEMMA FinishType ==
    ASSUME IInv, NEW w \in Worker, pc[w] = "run"
    PROVE  /\ job[w] \in Tag \X Task /\ job[w][1] \in Tag /\ job[w][2] \in Task
           /\ sched \in Sched
           /\ sched.iRunning[job[w][1]] > 0
           /\ sched_task_done(sched, job[w][1]).sched \in Sched
           /\ sched_task_done(sched, job[w][1]).bWake \in BOOLEAN
<1>1. job[w] \in Tag \X Task BY DEF IInv, TypeOK, ThreadInv, JobKnown
<1>2. job[w][1] \in Tag /\ job[w][2] \in Task /\ sched \in Sched BY <1>1 DEF IInv, TypeOK
<1>3. sched.iRunning[job[w][1]] > 0
  <2>1. w \in RunningFor(job[w][1])
    BY DEF RunningFor
  <2>2. IsFiniteSet(RunningFor(job[w][1])) /\ Cardinality(RunningFor(job[w][1])) # 0
    BY <2>1, CountedSets, FS_EmptySet
  <2>3. sched.iRunning \in [Tag -> Nat] BY <1>2, SchedFields
  <2> QED BY <1>2, <2>2, <2>3 DEF IInv, ThreadInv, RunningExact
<1>4. /\ sched_task_done(sched, job[w][1]).sched \in Sched
      /\ sched_task_done(sched, job[w][1]).bWake \in BOOLEAN
  BY <1>2, TaskDoneType
<1> QED BY <1>1, <1>2, <1>3, <1>4

\* pause() changes a flag of the scheduler.
LEMMA PausedSched ==
    ASSUME NEW S \in Sched, NEW b \in BOOLEAN
    PROVE  LET R == [S EXCEPT !.m_bQueuePaused = b] IN
           /\ R \in Sched /\ R.m_bQueuePaused = b
           /\ R.Queue = S.Queue /\ R.Config = S.Config /\ R.iRunning = S.iRunning
           /\ R.m_TagOrder = S.m_TagOrder /\ R.m_iTotalQueued = S.m_iTotalQueued
BY DEF Sched

\* The steps that do not touch the scheduler
LEMMA SchedAlone ==
    /\ UNCHANGED vars => UNCHANGED sched
    /\ NotifyPushed \/ NotifyUnpaused \/ StopNotify \/ StopJoin \/ StopReturn
          => UNCHANGED sched
    /\ \A w \in Worker : SpuriousWakeup(w) \/ WorkerBaton(w) \/ WorkerExit(w)
          => UNCHANGED sched
    /\ \A args \in Resizes : ResizeBegin(args) => UNCHANGED sched
    /\ \A call \in resizing : ResizeLocked(call) => UNCHANGED sched
    /\ \A bKill \in Kills : StopBegin(bKill) => UNCHANGED sched
    /\ \A s \in Strategies : set_strategy(s[1], s[2]) => UNCHANGED sched
BY DEF vars, NotifyPushed, NotifyUnpaused, StopNotify, StopJoin, StopReturn, SpuriousWakeup,
   WorkerBaton, WorkerExit, ResizeBegin, ResizeLocked, StopBegin, set_strategy

LEMMA KeptNext == IInv /\ WellKept(sched) /\ [Next]_vars => WellKept(sched')
<1> SUFFICES ASSUME IInv, WellKept(sched), [Next]_vars PROVE WellKept(sched')
  OBVIOUS
<1>0. sched \in Sched
  BY DEF IInv, TypeOK
<1>1. WellKept(sched_dequeue(sched).sched)
  BY <1>0, DequeueKept
<1>2. ASSUME NEW t \in Tag, NEW k \in Task, push_to_tag(t, k) PROVE WellKept(sched')
  <2>1. sched' = sched_enqueue(sched, t, k).sched BY <1>2 DEF push_to_tag
  <2> QED BY <1>0, <2>1, EnqueueKept
<1>3. ASSUME NEW w \in Worker, WorkerStep(w) PROVE WellKept(sched')
  <2>1. CASE WorkerStart(w)
    <3>1. sched' = sched_dequeue(sched).sched
      BY <2>1 DEF WorkerStart, TakeTask, GoIdle
    <3> QED BY <1>1, <3>1
  <2>2. CASE WorkerFinish(w)
    <3>1. PICK done : done = sched_task_done(sched, job[w][1]) OBVIOUS
    <3>2. pc[w] = "run" BY <2>2 DEF WorkerFinish
    <3>3. job[w][1] \in Tag /\ done.sched \in Sched BY <3>1, <3>2, FinishType
    <3>4. WellKept(done.sched) BY <1>0, <3>1, <3>3, TaskDoneKept
    <3>5. WellKept(sched_dequeue(done.sched).sched) BY <3>3, <3>4, DequeueKept
    <3>6. sched' = done.sched \/ sched' = sched_dequeue(done.sched).sched
      BY <2>2, <3>1 DEF WorkerFinish, TakeTask, GoIdle
    <3> QED BY <3>4, <3>5, <3>6
  <2>3. CASE WorkerWake(w)
    <3>1. sched' = sched_dequeue(sched).sched \/ sched' = sched
      BY <2>3 DEF WorkerWake, TakeTask
    <3> QED BY <1>1, <3>1
  <2>4. CASE WorkerBaton(w) \/ WorkerExit(w)
    BY <2>4, SchedAlone
  <2> QED BY <1>3, <2>1, <2>2, <2>3, <2>4 DEF WorkerStep
<1>4. ASSUME NEW b \in BOOLEAN, pause(b) PROVE WellKept(sched')
  <2>1. PICK R : R = [sched EXCEPT !.m_bQueuePaused = b] OBVIOUS
  <2>2. /\ R.Queue = sched.Queue /\ R.m_TagOrder = sched.m_TagOrder
        /\ R.m_iTotalQueued = sched.m_iTotalQueued
    BY <1>0, <2>1, PausedSched
  <2>3. Registered(sched) \subseteq Registered(R) BY <2>2 DEF Registered
  <2>4. WellKept(R) BY <2>2, <2>3, SameKept
  <2> QED BY <1>4, <2>1, <2>4 DEF pause
<1>5. CASE clear
  BY <1>0, <1>5, ClearedKept DEF clear
<1>6. ASSUME NEW c \in Reconfigs, ConfigureTag(c[1], c[2]) PROVE WellKept(sched')
  <2>1. c[1] \in Tag /\ c[2] \in TagConfig
    BY PoolAssumption
  <2> QED BY <1>0, <1>6, <2>1, ConfigureTagKept DEF ConfigureTag
<1>7. UNCHANGED sched => WellKept(sched')
  OBVIOUS
<1> QED BY <1>2, <1>3, <1>4, <1>5, <1>6, <1>7, SchedAlone DEF Next


-----------------------------------------------------------------------------
\* Wakeups

\* the workers that will look for a task, or pass their wakeup on, before they sleep
Up    == {"woken", "start", "baton"}
Awake == {w \in Worker : pc[w] \in Up}

Told == \A w \in Sleepers : abort[w] # "None" \/ ma_interrupt => stopPc = "notify"

\* NoLostWakeup alone is not inductive: one wakeup under way is enough for one task, not
\* for the second one.  There are as many as tasks that could start.
WakeupsSuffice ==
    /\ \E w \in Sleepers : abort[w] = "None"
    /\ ~unpausing /\ stopPc # "notify" /\ ~sched.m_bQueuePaused
    => Cardinality(Startable(sched)) <= notify + Cardinality(Awake)

WInv == WellKept(sched) /\ Told /\ WakeupsSuffice

LEMMA AwakeCount == IsFiniteSet(Awake) /\ Cardinality(Awake) \in Nat
<1>1. Awake \in SUBSET Worker BY DEF Awake
<1> QED BY <1>1, WorkerSets

\* Where nobody sleeps, nobody oversleeps.
LEMMA NobodySleeps ==
    ASSUME \A w \in Worker : pc'[w] # "wait"
    PROVE  Told' /\ WakeupsSuffice'
BY DEF Told, WakeupsSuffice, Sleepers

\* A step of others may wake workers and start them, or leave them alone.
Roused == \/ \A w \in Worker : pc'[w] # "wait"
          \/ /\ \A w \in Worker : pc'[w] = "wait" => pc[w] = "wait" /\ abort'[w] = abort[w]
             /\ Awake \subseteq Awake'

LEMMA RousedKeeps ==
    ASSUME IInv, IInv', WInv, WellKept(sched'), Roused,
           ma_interrupt' = ma_interrupt, stopPc' = stopPc, unpausing' = unpausing,
           sched'.m_bQueuePaused = sched.m_bQueuePaused,
           \/ notify' = notify /\ Cardinality(Startable(sched')) <= Cardinality(Startable(sched))
           \/ /\ notify' = notify + 1
              /\ Cardinality(Startable(sched')) <= Cardinality(Startable(sched)) + 1
    PROVE  Told' /\ WakeupsSuffice'
<1>1. CASE \A w \in Worker : pc'[w] # "wait" BY <1>1, NobodySleeps
<1>2. CASE /\ \A w \in Worker : pc'[w] = "wait" => pc[w] = "wait" /\ abort'[w] = abort[w]
           /\ Awake \subseteq Awake'
  <2>1. Told' BY <1>2 DEF WInv, Told, Sleepers
  <2>2. WakeupsSuffice'
    <3> SUFFICES ASSUME (\E w \in Sleepers : abort[w] = "None")', ~unpausing',
                        stopPc' # "notify", ~sched'.m_bQueuePaused
                 PROVE  Cardinality(Startable(sched')) <= notify' + Cardinality(Awake')
      BY DEF WakeupsSuffice, Startable, Backlog
    <3>1. \E w \in Sleepers : abort[w] = "None" BY <1>2 DEF Sleepers
    <3>2. Cardinality(Startable(sched)) <= notify + Cardinality(Awake)
      BY <3>1 DEF WInv, WakeupsSuffice
    <3>3. Awake' \in SUBSET Worker BY DEF Awake
    <3>4. IsFiniteSet(Awake') /\ Cardinality(Awake') \in Nat BY <3>3, WorkerSets
    <3>5. Cardinality(Awake) <= Cardinality(Awake') /\ Cardinality(Awake) \in Nat
      BY <1>2, <3>4, AwakeCount, FS_Subset
    <3>6. Cardinality(Startable(sched)) \in Nat /\ Cardinality(Startable(sched')) \in Nat
      BY StartableFinite DEF WInv
    <3>7. notify \in Nat /\ notify' \in Nat BY DEF IInv, TypeOK
    <3> QED BY <3>2, <3>4, <3>5, <3>6, <3>7
  <2> QED BY <2>1, <2>2
<1> QED BY <1>1, <1>2 DEF Roused

\* notify_one() wakes one sleeper more, or there was none.
LEMMA NotifyOneAwakes ==
    ASSUME TypeOK, NEW p \in AfterNotifyOne
    PROVE  \/ p = pc /\ \A w \in Worker : pc[w] # "wait"
           \/ \E w \in Worker : pc[w] = "wait" /\ p = [pc EXCEPT ![w] = "woken"]
BY DEF AfterNotifyOne, Sleepers

OneIf(b) == IF b THEN 1 ELSE 0

\* Told and WakeupsSuffice while nobody but one worker moves, from pc[w] to to; p is pc
\* after its notify_one(), if it issues one.
LEMMA WorkerKeeps ==
    ASSUME IInv, IInv', WInv, WellKept(sched'), NEW w \in Worker, NEW p \in [Worker -> PC],
           pc[w] # "wait", NEW to, pc' = [p EXCEPT ![w] = to],
           \/ p = pc
           \/ p = pc /\ \A v \in Worker : pc[v] # "wait"
           \/ \E v \in Worker : pc[v] = "wait" /\ p = [pc EXCEPT ![v] = "woken"],
           abort' = abort, UNCHANGED <<ma_interrupt, stopPc, unpausing, notify>>,
           to = "wait" => abort[w] = "None" /\ ~ma_interrupt,
           sched'.m_bQueuePaused = sched.m_bQueuePaused,
           ~sched.m_bQueuePaused =>
               \/ Cardinality(Startable(sched')) = 0
               \/ /\ to # "wait"
                  /\ Cardinality(Startable(sched')) + OneIf(pc[w] \in Up)
                        <= Cardinality(Startable(sched)) + OneIf(to \in Up) + OneIf(p # pc)
               \/ \A v \in Worker : pc'[v] # "wait"
    PROVE  Told' /\ WakeupsSuffice'
<1>1. pc \in [Worker -> PC] BY DEF IInv, TypeOK
<1>2. \A v \in Worker : v # w => /\ pc'[v] = p[v]
                                 /\ pc'[v] = "wait" => pc[v] = "wait"
  BY <1>1
<1>3. pc'[w] = to OBVIOUS
<1>4. Told' BY <1>2, <1>3 DEF WInv, Told, Sleepers
<1>5. WakeupsSuffice'
  <2> SUFFICES ASSUME (\E v \in Sleepers : abort[v] = "None")', ~unpausing',
                      stopPc' # "notify", ~sched'.m_bQueuePaused
               PROVE  Cardinality(Startable(sched')) <= notify' + Cardinality(Awake')
    BY DEF WakeupsSuffice, Startable, Backlog
  <2>1. /\ notify \in Nat /\ notify' = notify
        /\ Cardinality(Startable(sched)) \in Nat /\ Cardinality(Startable(sched')) \in Nat
    BY StartableFinite DEF IInv, TypeOK, WInv
  <2>2. Awake' \in SUBSET Worker BY DEF Awake, Up
  <2>3. IsFiniteSet(Awake') /\ Cardinality(Awake') \in Nat BY <2>2, WorkerSets
  <2>4. ~\A v \in Worker : pc'[v] # "wait" BY DEF Sleepers
  <2>5. CASE Cardinality(Startable(sched')) = 0 BY <2>1, <2>3, <2>5
  <2>6. CASE Cardinality(Startable(sched')) # 0
    <3>1. PICK here \in 0 .. 1, there \in 0 .. 1, more \in 0 .. 1 :
             /\ here = OneIf(pc[w] \in Up) /\ (here = 1 <=> pc[w] \in Up)
             /\ there = OneIf(to \in Up) /\ (there = 1 <=> to \in Up)
             /\ more = OneIf(p # pc) /\ (more = 1 <=> p # pc)
      <4>1. OneIf(pc[w] \in Up) \in 0 .. 1 /\ (OneIf(pc[w] \in Up) = 1 <=> pc[w] \in Up)
        BY DEF OneIf
      <4>2. OneIf(to \in Up) \in 0 .. 1 /\ (OneIf(to \in Up) = 1 <=> to \in Up)
        BY DEF OneIf
      <4>3. OneIf(p # pc) \in 0 .. 1 /\ (OneIf(p # pc) = 1 <=> p # pc)
        BY DEF OneIf
      <4> QED BY <4>1, <4>2, <4>3
    <3>2. /\ to # "wait"
          /\ Cardinality(Startable(sched')) + here <= Cardinality(Startable(sched)) + there + more
      BY <2>4, <2>6, <3>1
    <3>3. \E v \in Sleepers : abort[v] = "None" BY <1>2, <1>3, <3>2 DEF Sleepers
    <3>4. Cardinality(Startable(sched)) <= notify + Cardinality(Awake)
      BY <3>3 DEF WInv, WakeupsSuffice
    \* the others
    <3>5. PICK A : A = Awake \ {w} OBVIOUS
    <3>6. PICK B : B = {v \in Worker : v # w /\ p[v] \in Up} OBVIOUS
    <3>7. /\ IsFiniteSet(A) /\ Cardinality(A) \in Nat
          /\ Cardinality(Awake) = Cardinality(A) + here
      <4>1. /\ IsFiniteSet(A)
            /\ Cardinality(A) = (IF w \in Awake THEN Cardinality(Awake) - 1
                                                ELSE Cardinality(Awake))
        BY <3>5, AwakeCount, FS_RemoveElement
      <4>2. w \in Awake <=> here = 1 BY <3>1 DEF Awake, Up
      <4>3. Cardinality(A) \in Nat BY <4>1, FS_CardinalityType
      <4> QED BY <3>1, <4>1, <4>2, <4>3, AwakeCount
    <3>8. Cardinality(B) = Cardinality(A) + more /\ IsFiniteSet(B)
      <4>1. CASE p = pc
        <5>1. A = B BY <3>5, <3>6, <4>1 DEF Awake, Up
        <5> QED BY <3>1, <3>7, <4>1, <5>1
      <4>2. CASE p # pc
        <5>1. PICK v \in Worker : pc[v] = "wait" /\ p = [pc EXCEPT ![v] = "woken"]
          BY <4>2
        <5>2. v # w /\ v \notin A BY <3>5, <5>1 DEF Awake, Up
        <5>3. B = A \cup {v} BY <1>1, <3>5, <3>6, <5>1, <5>2 DEF Awake, Up
        <5> QED BY <3>1, <3>7, <4>2, <5>2, <5>3, FS_AddElement
      <4> QED BY <4>1, <4>2
    <3>9. Cardinality(Awake') = Cardinality(B) + there
      <4>1. w \notin B BY <3>6
      <4>2. CASE there = 1
        <5>1. Awake' = B \cup {w} BY <1>2, <1>3, <3>1, <3>6, <4>2 DEF Awake, Up
        <5> QED BY <3>8, <4>1, <4>2, <5>1, FS_AddElement
      <4>3. CASE there = 0
        <5>1. Awake' = B BY <1>2, <1>3, <3>1, <3>6, <4>3 DEF Awake, Up
        <5>2. Cardinality(B) \in Nat BY <3>8, FS_CardinalityType
        <5> QED BY <4>3, <5>1, <5>2
      <4> QED BY <3>1, <4>2, <4>3
    <3> QED BY <2>1, <2>3, <3>1, <3>2, <3>4, <3>7, <3>8, <3>9
  <2> QED BY <2>5, <2>6
<1> QED BY <1>4, <1>5

-----------------------------------------------------------------------------
\* ... the steps that start threads, and those that wake them all

LEMMA StartRouses ==
    ASSUME NEW n, StartThreads(n)
    PROVE  Roused
<1>1. PICK T \in SUBSET Unused :
        /\ abort' = [w \in Worker |-> IF w \in T THEN "None" ELSE abort[w]]
        /\ pc'    = [w \in Worker |-> IF w \in T THEN "start" ELSE pc[w]]
  BY DEF StartThreads
<1> QED BY <1>1 DEF Roused, Awake, Up

LEMMA DetachRouses ==
    ASSUME NEW keep, DetachAbove(keep)
    PROVE  Roused
<1>1. pc' = AfterNotifyAll(pc) BY DEF DetachAbove
<1> QED BY <1>1 DEF Roused, AfterNotifyAll

LEMMA GrowRouses ==
    ASSUME NEW iQueued, NEW growth, NEW iMaxThreads, grow(iQueued, growth, iMaxThreads)
    PROVE  Roused
<1>1. UNCHANGED threadVars => Roused BY DEF threadVars, Roused, Awake
<1> QED BY <1>1, StartRouses DEF grow

LEMMA ShrinkRouses ==
    ASSUME NEW iQueued, NEW policy, NEW iMaxThreads, NEW bElapsed,
           shrink(iQueued, policy, iMaxThreads, bElapsed)
    PROVE  Roused
<1>1. UNCHANGED threadVars => Roused BY DEF threadVars, Roused, Awake
<1>2. \/ \E keep : DetachAbove(keep)
      \/ UNCHANGED threadVars
  BY DEF shrink
<1> QED BY <1>1, <1>2, DetachRouses

LEMMA BookkeepRouses ==
    ASSUME NEW iWaiting, bookkeep_enqueue(iWaiting)
    PROVE  Roused
<1>1. UNCHANGED threadVars => Roused BY DEF threadVars, Roused, Awake
<1> QED BY <1>1, GrowRouses, ShrinkRouses DEF bookkeep_enqueue

LEMMA PushWakes ==
    ASSUME IInv, IInv', WInv, WellKept(sched'), NEW tag \in Tag, NEW k \in Task,
           push_to_tag(tag, k)
    PROVE  Told' /\ WakeupsSuffice'
<1>1. PICK r : r = sched_enqueue(sched, tag, k) OBVIOUS
<1>2. /\ sched' = r.sched
      /\ ma_interrupt' = ma_interrupt /\ stopPc' = stopPc /\ unpausing' = unpausing
  BY <1>1 DEF push_to_tag
<1>3. IF r.bAccepted THEN bookkeep_enqueue(r.sched.m_iTotalQueued) /\ notify' = notify + 1
                     ELSE UNCHANGED threadVars /\ notify' = notify
  BY <1>1 DEF push_to_tag
<1>4. Roused
  <2>1. UNCHANGED threadVars => Roused BY DEF threadVars, Roused, Awake
  <2> QED BY <1>3, <2>1, BookkeepRouses
<1>5. sched'.m_bQueuePaused = sched.m_bQueuePaused
  <2>1. sched \in Sched BY DEF IInv, TypeOK
  <2>2. r.sched.m_bQueuePaused = sched.m_bQueuePaused BY <1>1, <2>1, EnqueueQueue
  <2> QED BY <1>2, <2>2
<1>6. IF r.bAccepted THEN Cardinality(Startable(r.sched)) <= Cardinality(Startable(sched)) + 1
                     ELSE Startable(r.sched) = Startable(sched)
  BY <1>1, EnqueueKept DEF IInv, TypeOK, WInv
<1>7. Cardinality(Startable(sched)) \in Nat BY StartableFinite DEF WInv
<1>8. \/ notify' = notify /\ Cardinality(Startable(sched')) <= Cardinality(Startable(sched))
      \/ /\ notify' = notify + 1
         /\ Cardinality(Startable(sched')) <= Cardinality(Startable(sched)) + 1
  BY <1>2, <1>3, <1>6, <1>7
<1> QED BY <1>2, <1>4, <1>5, <1>8, RousedKeeps

-----------------------------------------------------------------------------
\* ... a worker's steps

\* What w finds when it looks for a task in S, which has no more tasks that could start than
\* before, or one more and a notify_one() for it.
LEMMA LookWakes ==
    ASSUME IInv, IInv', WInv, WellKept(sched'), NEW w \in Worker, NEW p \in [Worker -> PC],
           pc[w] \in {"start", "run", "woken"},
           \/ p = pc
           \/ \E v \in Worker : pc[v] = "wait" /\ p = [pc EXCEPT ![v] = "woken"],
           NEW S \in Sched, WellKept(S), S.m_bQueuePaused = sched.m_bQueuePaused,
           ~sched.m_bQueuePaused =>
              \/ Cardinality(Startable(S)) <= Cardinality(Startable(sched)) + OneIf(p # pc)
              \/ \A v \in Worker : pc[v] # "wait",
           NEW r, r = sched_dequeue(S), sched' = r.sched,
           NEW to, pc' = [p EXCEPT ![w] = to],
           r.bFound => to = "run",
           to = "wait" => abort[w] = "None" /\ ~ma_interrupt,
           abort' = abort, UNCHANGED <<ma_interrupt, stopPc, unpausing, notify>>
    PROVE  Told' /\ WakeupsSuffice'
<1>1. /\ r.bFound \in BOOLEAN /\ r.sched.m_bQueuePaused = S.m_bQueuePaused
  <2>1. DequeueOK(S, r) /\ DequeueStep(S, r) BY DequeueType, DequeueSteps
  <2> QED BY <2>1 DEF DequeueOK, DequeueStep
<1>2. /\ r.bFound => Cardinality(Startable(sched')) + 1 <= Cardinality(Startable(S))
      /\ ~r.bFound /\ ~S.m_bQueuePaused => Startable(sched') = {}
  BY DequeueKept
<1>3. /\ Cardinality(Startable(sched)) \in Nat /\ Cardinality(Startable(sched')) \in Nat
      /\ Cardinality(Startable(S)) \in Nat
  BY StartableFinite DEF WInv
<1>4. /\ OneIf(pc[w] \in Up) \in 0 .. 1 /\ OneIf(to \in Up) \in 0 .. 1
      /\ OneIf(p # pc) \in 0 .. 1
  BY DEF OneIf
<1>5. ASSUME ~sched.m_bQueuePaused
      PROVE  \/ Cardinality(Startable(sched')) = 0
             \/ /\ to # "wait"
                /\ Cardinality(Startable(sched')) + OneIf(pc[w] \in Up)
                      <= Cardinality(Startable(sched)) + OneIf(to \in Up) + OneIf(p # pc)
             \/ \A v \in Worker : pc'[v] # "wait"
  <2>1. CASE ~r.bFound
    BY <1>2, <1>5, <2>1, FS_EmptySet
  <2>2. CASE r.bFound /\ Cardinality(Startable(S))
                            <= Cardinality(Startable(sched)) + OneIf(p # pc)
    <3>1. Cardinality(Startable(sched')) + OneIf(pc[w] \in Up)
             <= Cardinality(Startable(sched)) + OneIf(to \in Up) + OneIf(p # pc)
      BY <1>2, <1>3, <1>4, <2>2
    <3> QED BY <2>2, <3>1
  <2>3. CASE r.bFound /\ \A v \in Worker : pc[v] # "wait"
    <3>1. p = pc BY <2>3
    <3>2. \A v \in Worker : pc'[v] # "wait" BY <2>3, <3>1
    <3> QED BY <3>2
  <2> QED BY <1>1, <1>5, <2>1, <2>2, <2>3
<1>6. pc[w] # "wait" /\ sched'.m_bQueuePaused = sched.m_bQueuePaused BY <1>1
<1> QED BY <1>5, <1>6, WorkerKeeps

LEMMA StartWakes ==
    ASSUME IInv, IInv', WInv, WellKept(sched'), NEW w \in Worker, WorkerStart(w)
    PROVE  Told' /\ WakeupsSuffice'
<1>1. PICK r : r = sched_dequeue(sched) OBVIOUS
<1>2. PICK to : to = (IF r.bFound THEN "run" ELSE IF ma_interrupt THEN "exit"
                      ELSE IF abort[w] # "None" THEN "baton" ELSE "wait")
  OBVIOUS
<1>3. /\ sched' = r.sched /\ pc[w] = "start" /\ pc' = [pc EXCEPT ![w] = to]
      /\ abort' = abort /\ UNCHANGED <<ma_interrupt, stopPc, unpausing, notify>>
  <2>1. pc[w] = "start" /\ abort' = abort
        /\ UNCHANGED <<ma_interrupt, stopPc, unpausing, notify>>
    BY DEF WorkerStart, callVars
  <2>2. IF r.bFound THEN TakeTask(w, r, pc) ELSE GoIdle(w, r, pc)
    BY <1>1 DEF WorkerStart
  <2>3. sched' = r.sched /\ pc' = [pc EXCEPT ![w] = to]
    BY <1>2, <2>2 DEF TakeTask, GoIdle
  <2> QED BY <2>1, <2>3
<1>4. /\ r.bFound => to = "run"
      /\ to = "wait" => abort[w] = "None" /\ ~ma_interrupt
  BY <1>2
<1>5. /\ pc \in [Worker -> PC] /\ sched \in Sched /\ WellKept(sched)
      /\ Cardinality(Startable(sched)) \in Nat
  BY StartableFinite DEF IInv, TypeOK, WInv
<1>6. Cardinality(Startable(sched)) <= Cardinality(Startable(sched)) + OneIf(pc # pc)
  BY <1>5 DEF OneIf
<1> QED BY <1>1, <1>3, <1>4, <1>5, <1>6, LookWakes

LEMMA FinishWakes ==
    ASSUME IInv, IInv', WInv, WellKept(sched'), NEW w \in Worker, WorkerFinish(w)
    PROVE  Told' /\ WakeupsSuffice'
<1>1. PICK done : done = sched_task_done(sched, job[w][1]) OBVIOUS
<1>2. PICK r : r = sched_dequeue(done.sched) OBVIOUS
<1>3. PICK p : /\ p \in (IF done.bWake THEN AfterNotifyOne ELSE {pc})
               /\ IF abort[w] # "None"
                  THEN sched' = done.sched /\ pc' = [p EXCEPT ![w] = "exit"]
                  ELSE IF r.bFound THEN TakeTask(w, r, p) ELSE GoIdle(w, r, p)
  BY <1>1, <1>2 DEF WorkerFinish
<1>4. /\ pc[w] = "run" /\ abort' = abort
      /\ UNCHANGED <<ma_interrupt, stopPc, unpausing, notify>>
  BY DEF WorkerFinish, callVars
<1>5. /\ sched \in Sched /\ WellKept(sched) /\ pc \in [Worker -> PC]
      /\ job[w][1] \in Tag /\ done.sched \in Sched /\ done.bWake \in BOOLEAN
  BY <1>1, <1>4, FinishType DEF IInv, TypeOK, WInv
<1>6. /\ WellKept(done.sched)
      /\ Cardinality(Startable(done.sched)) <= Cardinality(Startable(sched)) + 1
      /\ ~done.bWake /\ ~sched.m_bQueuePaused =>
           Cardinality(Startable(done.sched)) <= Cardinality(Startable(sched))
  BY <1>1, <1>5, TaskDoneKept
<1>7. done.sched.m_bQueuePaused = sched.m_bQueuePaused BY <1>1, <1>5, TaskDoneQueue
<1>8. /\ p \in [Worker -> PC]
      /\ \/ p = pc
         \/ \E v \in Worker : pc[v] = "wait" /\ p = [pc EXCEPT ![v] = "woken"]
      /\ done.bWake /\ p = pc => \A v \in Worker : pc[v] # "wait"
  <2>1. CASE done.bWake
    <3>1. p \in AfterNotifyOne BY <1>3, <2>1
    <3>2. Wakes(pc, p) BY <3>1, NotifyOneWakes DEF IInv
    <3>3. \/ p = pc /\ \A v \in Worker : pc[v] # "wait"
          \/ \E v \in Worker : pc[v] = "wait" /\ p = [pc EXCEPT ![v] = "woken"]
      BY <3>1, NotifyOneAwakes DEF IInv
    <3>4. \A v \in Worker : pc[v] = "wait" => p # pc \/ [pc EXCEPT ![v] = "woken"] # p
      BY <1>5
    <3> QED BY <3>2, <3>3, <3>4 DEF Wakes
  <2>2. CASE ~done.bWake
    BY <1>3, <1>5, <2>2
  <2> QED BY <1>5, <2>1, <2>2
<1>9. /\ Cardinality(Startable(sched)) \in Nat /\ Cardinality(Startable(done.sched)) \in Nat
      /\ OneIf(p # pc) \in 0 .. 1 /\ (OneIf(p # pc) = 1 <=> p # pc)
  BY <1>6, StartableFinite DEF WInv, OneIf
<1>10. ~sched.m_bQueuePaused =>
          \/ Cardinality(Startable(done.sched))
                <= Cardinality(Startable(sched)) + OneIf(p # pc)
          \/ \A v \in Worker : pc[v] # "wait"
  BY <1>6, <1>8, <1>9
<1>11. CASE abort[w] = "None"
  <2>1. PICK to : to = (IF r.bFound THEN "run" ELSE IF ma_interrupt THEN "exit"
                        ELSE IF abort[w] # "None" THEN "baton" ELSE "wait")
    OBVIOUS
  <2>2. sched' = r.sched /\ pc' = [p EXCEPT ![w] = to]
    BY <1>3, <1>11, <2>1 DEF TakeTask, GoIdle
  <2>3. /\ r.bFound => to = "run"
        /\ to = "wait" => abort[w] = "None" /\ ~ma_interrupt
    BY <2>1
  <2> QED BY <1>2, <1>4, <1>5, <1>6, <1>7, <1>8, <1>10, <2>2, <2>3, LookWakes
<1>12. CASE abort[w] # "None"
  <2>1. sched' = done.sched /\ pc' = [p EXCEPT ![w] = "exit"] BY <1>3, <1>12
  <2>2. OneIf(pc[w] \in Up) = 0 /\ OneIf("exit" \in Up) = 0 BY <1>4 DEF OneIf, Up
  <2>3. ASSUME ~sched.m_bQueuePaused
        PROVE  \/ /\ "exit" # "wait"
                  /\ Cardinality(Startable(sched')) + OneIf(pc[w] \in Up)
                        <= Cardinality(Startable(sched)) + OneIf("exit" \in Up) + OneIf(p # pc)
               \/ \A v \in Worker : pc'[v] # "wait"
    <3>1. CASE Cardinality(Startable(done.sched))
                  <= Cardinality(Startable(sched)) + OneIf(p # pc)
      BY <1>9, <2>1, <2>2, <3>1
    <3>2. CASE \A v \in Worker : pc[v] # "wait"
      <4>1. p = pc BY <1>8, <3>2
      <4>2. \A v \in Worker : pc'[v] # "wait" BY <2>1, <3>2, <4>1
      <4> QED BY <4>2
    <3> QED BY <1>10, <2>3, <3>1, <3>2
  <2>4. sched'.m_bQueuePaused = sched.m_bQueuePaused BY <1>7, <2>1
  <2>5. PICK to : to = "exit" OBVIOUS
  <2> QED BY <1>4, <1>8, <2>1, <2>3, <2>4, <2>5, WorkerKeeps
<1> QED BY <1>11, <1>12

LEMMA WakeWakes ==
    ASSUME IInv, IInv', WInv, WellKept(sched'), NEW w \in Worker, WorkerWake(w)
    PROVE  Told' /\ WakeupsSuffice'
<1>1. PICK r : r = sched_dequeue(sched) OBVIOUS
<1>2. PICK to : to = (IF abort[w] # "None" THEN "baton" ELSE IF r.bFound THEN "run"
                      ELSE IF ma_interrupt THEN "baton" ELSE "wait")
  OBVIOUS
<1>3. /\ pc[w] = "woken" /\ abort' = abort
      /\ UNCHANGED <<ma_interrupt, stopPc, unpausing, notify>>
  BY DEF WorkerWake, callVars
<1>4. /\ abort[w] # "None" => sched' = sched
      /\ abort[w] = "None" => sched' = r.sched
      /\ pc' = [pc EXCEPT ![w] = to]
  BY <1>1, <1>2 DEF WorkerWake, TakeTask
<1>5. /\ pc \in [Worker -> PC] /\ sched \in Sched /\ WellKept(sched)
      /\ Cardinality(Startable(sched)) \in Nat
  BY StartableFinite DEF IInv, TypeOK, WInv
<1>6. OneIf(pc # pc) = 0 BY DEF OneIf
<1>7. CASE abort[w] = "None"
  <2>1. /\ r.bFound => to = "run"
        /\ to = "wait" => abort[w] = "None" /\ ~ma_interrupt
    BY <1>2, <1>7
  <2>2. Cardinality(Startable(sched)) <= Cardinality(Startable(sched)) + OneIf(pc # pc)
    BY <1>5, <1>6
  <2> QED BY <1>1, <1>3, <1>4, <1>5, <1>7, <2>1, <2>2, LookWakes
<1>8. CASE abort[w] # "None"
  <2>1. to = "baton" BY <1>2, <1>8
  <2>2. OneIf(pc[w] \in Up) = 1 /\ OneIf(to \in Up) = 1 BY <1>3, <2>1 DEF OneIf, Up
  <2>3. Cardinality(Startable(sched')) + OneIf(pc[w] \in Up)
           <= Cardinality(Startable(sched)) + OneIf(to \in Up) + OneIf(pc # pc)
    BY <1>4, <1>5, <1>6, <1>8, <2>2
  <2>4. to # "wait" /\ pc[w] # "wait" /\ sched'.m_bQueuePaused = sched.m_bQueuePaused
    BY <1>3, <1>4, <1>8, <2>1
  <2> QED BY <1>3, <1>4, <1>5, <2>3, <2>4, WorkerKeeps
<1> QED BY <1>7, <1>8

LEMMA BatonWakes ==
    ASSUME IInv, IInv', WInv, WellKept(sched'), NEW w \in Worker, WorkerBaton(w)
    PROVE  Told' /\ WakeupsSuffice'
<1>1. PICK p \in AfterNotifyOne : pc' = [p EXCEPT ![w] = "exit"] BY DEF WorkerBaton
<1>2. /\ pc[w] = "baton" /\ abort' = abort /\ sched' = sched
      /\ UNCHANGED <<ma_interrupt, stopPc, unpausing, notify>>
  BY DEF WorkerBaton, callVars
<1>3. /\ \/ p = pc /\ \A v \in Worker : pc[v] # "wait"
         \/ \E v \in Worker : pc[v] = "wait" /\ p = [pc EXCEPT ![v] = "woken"]
  BY NotifyOneAwakes DEF IInv
<1>4. p \in [Worker -> PC] BY NotifyOneWakes DEF IInv, Wakes
<1>5. pc \in [Worker -> PC] /\ Cardinality(Startable(sched)) \in Nat
  BY StartableFinite DEF IInv, TypeOK, WInv
<1>6. OneIf(pc[w] \in Up) = 1 /\ OneIf("exit" \in Up) = 0 BY <1>2 DEF OneIf, Up
<1>7. \/ /\ "exit" # "wait"
         /\ Cardinality(Startable(sched')) + OneIf(pc[w] \in Up)
               <= Cardinality(Startable(sched)) + OneIf("exit" \in Up) + OneIf(p # pc)
      \/ \A v \in Worker : pc'[v] # "wait"
  <2>1. CASE p = pc
    <3>1. \A v \in Worker : pc[v] # "wait" BY <1>3, <1>5, <2>1
    <3>2. \A v \in Worker : pc'[v] # "wait" BY <1>1, <1>5, <2>1, <3>1
    <3> QED BY <3>2
  <2>2. CASE p # pc
    <3>1. OneIf(p # pc) = 1 BY <2>2 DEF OneIf
    <3>2. Cardinality(Startable(sched')) + OneIf(pc[w] \in Up)
               <= Cardinality(Startable(sched)) + OneIf("exit" \in Up) + OneIf(p # pc)
      BY <1>2, <1>5, <1>6, <3>1
    <3> QED BY <3>2
  <2> QED BY <2>1, <2>2
<1>8. PICK to : to = "exit" OBVIOUS
<1> QED BY <1>1, <1>2, <1>3, <1>4, <1>7, <1>8, WorkerKeeps

-----------------------------------------------------------------------------
\* ... the other steps

\* A worker that ends was not up, and a spurious wakeup is one more that is.
LEMMA OthersRouse ==
    ASSUME TypeOK, NEW w \in Worker, WorkerExit(w) \/ SpuriousWakeup(w)
    PROVE  Roused /\ UNCHANGED <<sched, ma_interrupt, stopPc, unpausing, notify>>
<1>1. UNCHANGED <<sched, ma_interrupt, stopPc, unpausing, notify>>
  BY DEF WorkerExit, SpuriousWakeup, callVars
<1>2. pc \in [Worker -> PC] /\ abort \in [Worker -> Abort] BY DEF TypeOK
<1>3. CASE WorkerExit(w)
  <2>1. pc[w] = "exit" /\ pc' = [pc EXCEPT ![w] = "free"]
    BY <1>3 DEF WorkerExit
  <2>2. \A v \in Worker : v # w => abort'[v] = abort[v]
    BY <1>2, <1>3 DEF WorkerExit
  <2> QED BY <1>1, <1>2, <2>1, <2>2 DEF Roused, Awake, Up
<1>4. CASE SpuriousWakeup(w)
  BY <1>1, <1>2, <1>4 DEF SpuriousWakeup, Roused, Awake, Up
<1> QED BY <1>3, <1>4

\* The notify_one() of a push wakes one worker more, or there was none to wake.
LEMMA NotifyPushedWakes ==
    ASSUME IInv, IInv', WInv, NotifyPushed
    PROVE  Told' /\ WakeupsSuffice'
<1>1. /\ notify > 0 /\ notify' = notify - 1 /\ pc' \in AfterNotifyOne
      /\ UNCHANGED <<sched, abort, ma_interrupt, stopPc, unpausing>>
  BY DEF NotifyPushed
<1>2. pc \in [Worker -> PC] BY DEF IInv, TypeOK
<1>3. CASE \A w \in Worker : pc'[w] # "wait" BY <1>3, NobodySleeps
<1>4. CASE ~\A w \in Worker : pc'[w] # "wait"
  <2>1. PICK v \in Worker : pc[v] = "wait" /\ pc' = [pc EXCEPT ![v] = "woken"]
    BY <1>1, <1>4, NotifyOneAwakes DEF IInv
  <2>2. \A w \in Worker : pc'[w] = "wait" => pc[w] = "wait" BY <1>2, <2>1
  <2>3. Told' BY <1>1, <2>2 DEF WInv, Told, Sleepers
  <2>4. v \notin Awake /\ Awake' = Awake \cup {v} BY <1>2, <2>1 DEF Awake, Up
  <2>5. Cardinality(Awake') = Cardinality(Awake) + 1
    BY <2>4, AwakeCount, FS_AddElement
  <2>6. notify \in Nat /\ Cardinality(Startable(sched)) \in Nat
    BY StartableFinite DEF IInv, TypeOK, WInv
  <2>7. WakeupsSuffice'
    <3> SUFFICES ASSUME (\E w \in Sleepers : abort[w] = "None")', ~unpausing',
                        stopPc' # "notify", ~sched'.m_bQueuePaused
                 PROVE  Cardinality(Startable(sched')) <= notify' + Cardinality(Awake')
      BY DEF WakeupsSuffice, Startable, Backlog
    <3>1. \E w \in Sleepers : abort[w] = "None" BY <1>1, <2>2 DEF Sleepers
    <3>2. Cardinality(Startable(sched)) <= notify + Cardinality(Awake)
      BY <1>1, <3>1 DEF WInv, WakeupsSuffice
    <3> QED BY <1>1, <2>5, <2>6, <3>2, AwakeCount
  <2> QED BY <2>3, <2>7
<1> QED BY <1>3, <1>4

\* A resize() starts threads, or wakes them all.
LEMMA ResizeWakes ==
    ASSUME IInv, IInv', WInv, NEW call \in resizing, ResizeLocked(call)
    PROVE  Told' /\ WakeupsSuffice'
<1>1. UNCHANGED <<sched, ma_interrupt, stopPc, unpausing, notify>> BY DEF ResizeLocked
<1>2. Roused
  <2>1. UNCHANGED threadVars => Roused BY DEF threadVars, Roused, Awake
  <2> QED BY <2>1, GrowRouses, ShrinkRouses DEF ResizeLocked
<1>3. Cardinality(Startable(sched)) \in Nat /\ WellKept(sched')
  BY <1>1, StartableFinite DEF WInv
<1>4. Cardinality(Startable(sched')) <= Cardinality(Startable(sched)) BY <1>1, <1>3
<1> QED BY <1>1, <1>2, <1>3, <1>4, RousedKeeps

\* stop() and pause(FALSE) wake them all, as they said they would.
LEMMA NotifyAllLeavesNone ==
    ASSUME StopNotify \/ NotifyUnpaused
    PROVE  Told' /\ WakeupsSuffice'
<1>1. pc' = AfterNotifyAll(pc) BY DEF StopNotify, NotifyUnpaused
<1> QED BY <1>1, NobodySleeps DEF AfterNotifyAll

\* A call that leaves the threads alone, and lets no task start that could not before
LEMMA CallWakes ==
    ASSUME IInv, IInv', WInv, WellKept(sched'), UNCHANGED <<pc, abort, ma_interrupt, notify>>,
           \/ /\ UNCHANGED <<stopPc, unpausing>>
              /\ sched'.m_bQueuePaused = sched.m_bQueuePaused
              /\ Startable(sched') = Startable(sched) \/ Startable(sched') = {}
           \/ UNCHANGED stopPc /\ (sched'.m_bQueuePaused \/ unpausing')
           \/ UNCHANGED <<sched, unpausing>> /\ stopPc = "join"
    PROVE  Told' /\ WakeupsSuffice'
<1>0. /\ Cardinality(Startable(sched)) \in Nat /\ Cardinality({}) = 0
  BY FS_EmptySet, StartableFinite DEF WInv
<1>1. CASE /\ UNCHANGED <<stopPc, unpausing>>
           /\ sched'.m_bQueuePaused = sched.m_bQueuePaused
           /\ Startable(sched') = Startable(sched) \/ Startable(sched') = {}
  <2>1. Roused BY DEF Roused, Awake
  <2>2. Cardinality(Startable(sched')) <= Cardinality(Startable(sched)) BY <1>0, <1>1
  <2> QED BY <1>1, <2>1, <2>2, RousedKeeps
<1>2. CASE UNCHANGED stopPc /\ (sched'.m_bQueuePaused \/ unpausing')
  BY <1>2 DEF WInv, Told, WakeupsSuffice, Sleepers
<1>3. CASE UNCHANGED <<sched, unpausing>> /\ stopPc = "join"
  <2>1. \A w \in Sleepers : ~(abort[w] # "None" \/ ma_interrupt)
    BY <1>3 DEF WInv, Told
  <2>2. Told' BY <2>1 DEF Told, Sleepers
  <2>3. WakeupsSuffice'
    BY <1>3 DEF WInv, WakeupsSuffice, Sleepers, Awake, Startable, Backlog
  <2> QED BY <2>2, <2>3
<1> QED BY <1>1, <1>2, <1>3

LEMMA WakeNext ==
    ASSUME CapsKept
    PROVE  IInv /\ CapsHold(sched) /\ WInv /\ [Next]_vars => WInv'
<1> SUFFICES ASSUME IInv, CapsHold(sched), WInv, [Next]_vars
             PROVE  Told' /\ WakeupsSuffice'
  <2>1. IInv /\ WInv /\ [Next]_vars => WellKept(sched') BY KeptNext DEF WInv
  <2>2. WellKept(sched') <=> WellKept(sched)'
    BY DEF WellKept, Backlog, Registered
  <2> QED BY <2>1, <2>2 DEF WInv
<1>0. IInv' /\ WellKept(sched') /\ sched \in Sched
  BY NextInv, KeptNext DEF WInv, IInv, TypeOK
<1>1. ASSUME NEW t \in Tag, NEW k \in Task, push_to_tag(t, k) PROVE Told' /\ WakeupsSuffice'
  BY <1>0, <1>1, PushWakes
<1>2. CASE NotifyPushed
  BY <1>0, <1>2, NotifyPushedWakes
<1>3. ASSUME NEW w \in Worker, WorkerExit(w) \/ SpuriousWakeup(w)
      PROVE  Told' /\ WakeupsSuffice'
  <2>1. Roused /\ UNCHANGED <<sched, ma_interrupt, stopPc, unpausing, notify>>
    BY <1>3, OthersRouse DEF IInv
  <2>2. Cardinality(Startable(sched)) \in Nat BY StartableFinite DEF WInv
  <2>3. Cardinality(Startable(sched')) <= Cardinality(Startable(sched)) BY <2>1, <2>2
  <2> QED BY <1>0, <2>1, <2>3, RousedKeeps
<1>4. ASSUME NEW w \in Worker, WorkerStep(w) PROVE Told' /\ WakeupsSuffice'
  BY <1>0, <1>3, <1>4, StartWakes, FinishWakes, WakeWakes, BatonWakes DEF WorkerStep
<1>5. ASSUME NEW args \in Resizes, ResizeBegin(args) PROVE Told' /\ WakeupsSuffice'
  <2>1. UNCHANGED <<sched, pc, abort, ma_interrupt, notify, stopPc, unpausing>>
    BY <1>5 DEF ResizeBegin, threadVars
  <2> QED BY <1>0, <2>1, CallWakes
<1>6. ASSUME NEW call \in resizing, ResizeLocked(call) PROVE Told' /\ WakeupsSuffice'
  BY <1>0, <1>6, ResizeWakes
<1>7. ASSUME NEW bKill \in Kills, StopBegin(bKill) PROVE Told' /\ WakeupsSuffice'
  BY <1>7 DEF StopBegin, Told, WakeupsSuffice
<1>8. CASE StopNotify \/ NotifyUnpaused
  BY <1>8, NotifyAllLeavesNone
<1>9. CASE StopJoin
  <2>1. UNCHANGED <<sched, pc, abort, ma_interrupt, notify, unpausing>> /\ stopPc = "join"
    BY <1>9 DEF StopJoin, threadVars
  <2> QED BY <1>0, <2>1, CallWakes
<1>10. CASE StopReturn
  <2>1. UNCHANGED pc BY <1>10 DEF StopReturn
  <2>2. \A w \in Worker : pc[w] = "free" BY <1>10, NoThreadLeft
  <2> QED BY <2>1, <2>2, NobodySleeps
<1>11. ASSUME NEW b \in BOOLEAN, pause(b) PROVE Told' /\ WakeupsSuffice'
  <2>1. /\ UNCHANGED <<pc, abort, ma_interrupt, notify, stopPc>>
        /\ sched' = [sched EXCEPT !.m_bQueuePaused = b]
        /\ unpausing' = (unpausing \/ ~b)
    BY <1>11 DEF pause, threadVars
  <2>2. sched'.m_bQueuePaused = b BY <1>0, <2>1, PausedSched
  <2>3. sched'.m_bQueuePaused \/ unpausing' BY <2>1, <2>2
  <2> QED BY <1>0, <2>1, <2>3, CallWakes
<1>12. CASE clear
  <2>1. /\ UNCHANGED <<pc, abort, ma_interrupt, notify, stopPc, unpausing>>
        /\ sched' = Cleared(sched)
    BY <1>12 DEF clear, threadVars
  <2>2. sched'.m_bQueuePaused = sched.m_bQueuePaused BY <1>0, <2>1, ClearedQueue
  <2>3. Startable(sched') = {} BY <1>0, <2>1, ClearedKept DEF Startable
  <2> QED BY <1>0, <2>1, <2>2, <2>3, CallWakes
<1>13. ASSUME NEW s \in Strategies, set_strategy(s[1], s[2]) PROVE Told' /\ WakeupsSuffice'
  <2>1. UNCHANGED <<sched, pc, abort, ma_interrupt, notify, stopPc, unpausing>>
    BY <1>13 DEF set_strategy, threadVars
  <2> QED BY <1>0, <2>1, CallWakes
<1>14. ASSUME NEW c \in Reconfigs, ConfigureTag(c[1], c[2]) PROVE Told' /\ WakeupsSuffice'
  <2>1. /\ UNCHANGED <<pc, abort, ma_interrupt, notify, stopPc, unpausing>>
        /\ sched' = ConfigureTagTo(sched, c[1], c[2])
    BY <1>14 DEF ConfigureTag, threadVars
  <2>2. c[1] \in Tag /\ c[2] \in TagConfig BY PoolAssumption
  <2>3. sched'.m_bQueuePaused = sched.m_bQueuePaused BY <1>0, <2>1, <2>2, ConfigureTagQueue
  <2>4. c[2].iMaxConcurrency = sched.Config[c[1]].iMaxConcurrency
    BY <2>2 DEF CapsKept, CapsHold
  <2>5. Startable(sched') = Startable(sched)
    BY <1>0, <2>1, <2>2, <2>4, ConfigureTagKept DEF WInv
  <2> QED BY <1>0, <2>1, <2>3, <2>5, CallWakes
<1>15. CASE UNCHANGED vars
  <2>1. UNCHANGED <<sched, pc, abort, ma_interrupt, notify, stopPc, unpausing>>
    BY <1>15 DEF vars, threadVars, callVars
  <2> QED BY <1>0, <2>1, CallWakes
<1> QED BY <1>1, <1>2, <1>3, <1>4, <1>5, <1>6, <1>7, <1>8, <1>9, <1>10, <1>11, <1>12, <1>13,
           <1>14, <1>15 DEF Next

LEMMA WakeInit == Init => WInv
<1>1. Init => \A w \in Worker : pc[w] # "wait"
  <2> SUFFICES ASSUME Init PROVE \A w \in Worker : pc[w] # "wait"
    OBVIOUS
  <2>1. \E place : pc = [w \in Worker |-> IF place[w] = 0 THEN "free" ELSE "start"]
    BY DEF Init
  <2> QED BY <2>1
<1>2. (\A w \in Worker : pc[w] # "wait") => Told /\ WakeupsSuffice
  BY DEF Told, WakeupsSuffice, Sleepers
<1> QED BY <1>1, <1>2, KeptInit DEF WInv

\* A task that could start has one of the places that could.
LEMMA RunnableStartable ==
    ASSUME NEW S \in Sched, WellKept(S), Runnable(S)
    PROVE  Cardinality(Startable(S)) \in Nat \ {0} /\ ~S.m_bQueuePaused
<1>1. PICK t \in Tag : Serviceable(S, t) BY DEF Runnable
<1>2. PICK cap \in Nat, n \in Nat : cap = S.Config[t].iMaxConcurrency /\ n = S.iRunning[t]
  BY SchedFields DEF TagConfig
<1>3. cap = 0 \/ n < cap BY <1>1, <1>2 DEF Serviceable, BelowCap
<1>4. Len(S.Queue[t]) \in Nat \ {0} BY <1>1, QueueLengths DEF Serviceable
<1>5. <<t, 1>> \in Backlog(S) BY <1>4, BacklogPlaces
<1>6. <<t, 1>> \in Startable(S) BY <1>2, <1>3, <1>5 DEF Startable
<1> QED BY <1>6, StartableFinite, FS_EmptySet DEF Runnable

\* No wakeup is lost, whatever threads start, finish, are told to finish or are stopped
\* meanwhile: no worker sleeps beside a task it could run unless a wakeup is under way, nor
\* through an order to finish.  A changed cap is excluded: ConfigureTag notifies nobody.
THEOREM NoWakeupIsLost ==
    ASSUME CapsKept
    PROVE  Spec => []NoLostWakeup
<1>1. Init => CapsHold(sched) /\ WInv
  BY CapsInit, WakeInit
<1>2. /\ IInv /\ CapsHold(sched) /\ [Next]_vars => CapsHold(sched')
      /\ IInv /\ CapsHold(sched) /\ WInv /\ [Next]_vars => WInv'
  BY CapsNext, WakeNext
<1>3. IInv /\ WInv => NoLostWakeup
  <2> SUFFICES ASSUME IInv, WInv PROVE NoLostWakeup OBVIOUS
  <2>1. \A w \in Sleepers : abort[w] # "None" \/ ma_interrupt => stopPc = "notify"
    BY DEF WInv, Told
  <2>2. ASSUME Runnable(sched), \E w \in Sleepers : abort[w] = "None", ~unpausing,
               stopPc # "notify", notify = 0
        PROVE  \E w \in Worker : pc[w] \in {"woken", "start", "baton"}
    <3>1. Cardinality(Startable(sched)) \in Nat \ {0} /\ ~sched.m_bQueuePaused
      BY <2>2, RunnableStartable DEF IInv, TypeOK, WInv
    <3>2. Cardinality(Startable(sched)) <= notify + Cardinality(Awake)
      BY <2>2, <3>1 DEF WInv, WakeupsSuffice
    <3>3. Cardinality(Awake) # 0 BY <2>2, <3>1, <3>2, AwakeCount
    <3>4. Awake # {} BY <3>3, FS_EmptySet
    <3> QED BY <3>4 DEF Awake, Up
  <2>3. notify \in Nat BY DEF IInv, TypeOK
  <2> QED BY <2>1, <2>2, <2>3 DEF NoLostWakeup, WakeupUnderWay
<1>4. CapsHold(sched') <=> CapsHold(sched)'
  BY DEF CapsHold
<1> QED BY <1>1, <1>2, <1>3, <1>4, Invariance, PTL DEF Spec

-----------------------------------------------------------------------------
\* Every task is in one place: new, in one queue, with one worker, or settled.

TasksPlaced ==
    /\ Distinct(sched.Queue)
    /\ QueuedIn(sched.Queue) = {k \in Task : status[k] = "queued"}
    /\ \A w \in Worker : pc[w] = "run" => status[job[w][2]] = "running"
    /\ \A v, w \in Worker : pc[v] = "run" /\ pc[w] = "run" /\ job[v][2] = job[w][2] => v = w

\* nobody but w enters or leaves a task
OthersRun(w) == \A v \in Worker : v # w => /\ pc'[v] = "run" <=> pc[v] = "run"
                                           /\ job'[v] = job[v]

\* nobody enters or leaves a task
SameRuns == \A v \in Worker : (pc'[v] = "run" <=> pc[v] = "run") /\ job'[v] = job[v]

TaskOf == [w \in Worker |-> job[w][2]]

\* the tasks of each tag that run, and those without w's
Running    == [t \in Tag |-> {TaskOf[v] : v \in RunningFor(t)}]
Without(w) == [t \in Tag |-> {TaskOf[v] : v \in RunningFor(t) \ {w}}]

LEMMA SameRunning ==
    ASSUME SameRuns
    PROVE  Running' = Running
<1>1. \A t : RunningFor(t)' = RunningFor(t) BY DEF SameRuns, RunningFor
<1>2. TaskOf' = TaskOf BY DEF SameRuns, TaskOf
<1> QED BY <1>1, <1>2 DEF Running

\* The image of a set without one element, and of a set with one more
LEMMA ImageWithout ==
    ASSUME NEW f, NEW A, NEW w \in A, \A v \in A : f[v] = f[w] => v = w
    PROVE  {f[v] : v \in A \ {w}} = {f[v] : v \in A} \ {f[w]}
OBVIOUS

LEMMA ImageWith ==
    ASSUME NEW f, NEW g, NEW A, NEW w, \A v \in A : g[v] = f[v]
    PROVE  {g[v] : v \in A \cup {w}} = {f[v] : v \in A} \cup {g[w]}
OBVIOUS

LEMMA ImageSame ==
    ASSUME NEW f, NEW g, NEW A, \A v \in A : g[v] = f[v]
    PROVE  {g[v] : v \in A} = {f[v] : v \in A}
OBVIOUS

LEMMA ImageSize ==
    ASSUME NEW f, NEW A, IsFiniteSet(A), \A u, v \in A : f[u] = f[v] => u = v
    PROVE  Cardinality({f[v] : v \in A}) = Cardinality(A)
<1> DEFINE B == {f[v] : v \in A}
           g == [v \in A |-> f[v]]
<1>1. g \in [A -> B] /\ \A k \in B : \E v \in A : g[v] = k OBVIOUS
<1>2. g \in Surjection(A, B) BY <1>1 DEF Surjection
<1>3. \A u, v \in A : g[u] = g[v] => u = v OBVIOUS
<1>4. g \in Injection(A, B) BY <1>1, <1>3 DEF Injection, IsInjective
<1>5. g \in Bijection(A, B) BY <1>2, <1>4 DEF Bijection
<1> HIDE DEF B, g
<1>6. ExistsBijection(A, B) BY <1>5 DEF ExistsBijection
<1>7. Cardinality(A) = Cardinality(B) BY <1>6, FS_Bijection
<1> QED BY <1>7 DEF B

\* Without w, its task is missing.
LEMMA WithoutOne ==
    ASSUME IInv, TasksPlaced, NEW w \in Worker
    PROVE  /\ pc[w] # "run" => Without(w) = Running
           /\ pc[w] = "run" => Without(w) = [Running EXCEPT ![job[w][1]] = @ \ {job[w][2]}]
           /\ \A t \in Tag : Cardinality(Without(w)[t]) = Cardinality(RunningFor(t) \ {w})
<1>1. ASSUME pc[w] # "run" PROVE Without(w) = Running
  <2>1. \A t \in Tag : RunningFor(t) \ {w} = RunningFor(t) BY <1>1 DEF RunningFor
  <2> QED BY <2>1 DEF Running, Without
<1>2. \A t \in Tag : \A u, v \in RunningFor(t) : TaskOf[u] = TaskOf[v] => u = v
  BY DEF TasksPlaced, RunningFor, TaskOf
<1>3. ASSUME pc[w] = "run"
      PROVE  Without(w) = [Running EXCEPT ![job[w][1]] = @ \ {job[w][2]}]
  <2>1. PICK u \in Tag : u = job[w][1] /\ w \in RunningFor(u)
    BY <1>3, FinishType DEF RunningFor
  <2>2. PICK f : f = TaskOf OBVIOUS
  <2>3. f[w] = job[w][2] BY <2>2 DEF TaskOf
  <2>4. {f[v] : v \in RunningFor(u) \ {w}} = {f[v] : v \in RunningFor(u)} \ {f[w]}
    <3>1. \A v \in RunningFor(u) : f[v] = f[w] => v = w BY <1>2, <2>1, <2>2
    <3> QED BY <2>1, <3>1, ImageWithout
  <2>5. \A t \in Tag : t # u => RunningFor(t) \ {w} = RunningFor(t)
    BY <2>1 DEF RunningFor
  <2>6. ASSUME NEW t \in Tag
        PROVE  Without(w)[t] = IF t = u THEN Running[t] \ {f[w]} ELSE Running[t]
    <3>1. CASE t = u BY <2>2, <2>4, <3>1 DEF Running, Without
    <3>2. CASE t # u BY <2>5, <3>2 DEF Running, Without
    <3> QED BY <3>1, <3>2
  <2>7. Without(w) = [t \in Tag |-> Without(w)[t]] BY DEF Without
  <2>8. [Running EXCEPT ![u] = @ \ {f[w]}]
           = [t \in Tag |-> IF t = u THEN Running[t] \ {f[w]} ELSE Running[t]]
    BY DEF Running
  <2>9. Without(w) = [Running EXCEPT ![u] = @ \ {f[w]}] BY <2>6, <2>7, <2>8
  <2> QED BY <2>1, <2>3, <2>9
<1>4. ASSUME NEW t \in Tag PROVE Cardinality(Without(w)[t]) = Cardinality(RunningFor(t) \ {w})
  <2>1. PICK A : A = RunningFor(t) \ {w} OBVIOUS
  <2>2. PICK f : f = TaskOf OBVIOUS
  <2>3. IsFiniteSet(A) BY <2>1, CountedSets, FS_RemoveElement
  <2>4. \A u, v \in A : f[u] = f[v] => u = v BY <1>2, <2>1, <2>2
  <2>5. Cardinality({f[v] : v \in A}) = Cardinality(A) BY <2>3, <2>4, ImageSize
  <2> QED BY <2>1, <2>2, <2>5 DEF Without
<1> QED BY <1>1, <1>3, <1>4

\* Afterwards w's next task is there.
LEMMA WithOne ==
    ASSUME NEW w \in Worker, OthersRun(w)
    PROVE  /\ pc'[w] # "run" => Running' = Without(w)
           /\ pc'[w] = "run" /\ job'[w][1] \in Tag =>
                Running' = [Without(w) EXCEPT ![job'[w][1]] = @ \cup {job'[w][2]}]
<1>1. PICK f : f = TaskOf OBVIOUS
<1>2. PICK g : g = TaskOf' OBVIOUS
<1>3. \A v \in Worker : v # w => g[v] = f[v] BY <1>1, <1>2 DEF TaskOf, OthersRun
<1>4. \A t : RunningFor(t)' \ {w} = RunningFor(t) \ {w}
  BY DEF OthersRun, RunningFor
<1>5. \A t : \A v \in RunningFor(t) \ {w} : g[v] = f[v]
  BY <1>3 DEF RunningFor
<1>6. Running' = [t \in Tag |-> {g[v] : v \in RunningFor(t)'}] BY <1>2 DEF Running
<1>7. Without(w) = [t \in Tag |-> {f[v] : v \in RunningFor(t) \ {w}}]
  BY <1>1 DEF Without
<1>8. ASSUME pc'[w] # "run" PROVE Running' = Without(w)
  <2>1. \A t : RunningFor(t)' = RunningFor(t) \ {w} BY <1>4, <1>8 DEF RunningFor
  <2>2. ASSUME NEW t \in Tag
        PROVE  {g[v] : v \in RunningFor(t)'} = {f[v] : v \in RunningFor(t) \ {w}}
    BY <1>5, <2>1, ImageSame
  <2> QED BY <1>6, <1>7, <2>2
<1>9. ASSUME pc'[w] = "run", job'[w][1] \in Tag
      PROVE  Running' = [Without(w) EXCEPT ![job'[w][1]] = @ \cup {job'[w][2]}]
  <2>1. PICK u \in Tag : u = job'[w][1] BY <1>9
  <2>2. g[w] = job'[w][2] BY <1>2 DEF TaskOf
  <2>3. \A t : RunningFor(t)' = IF t = u THEN (RunningFor(t) \ {w}) \cup {w}
                                         ELSE RunningFor(t) \ {w}
    BY <1>4, <1>9, <2>1 DEF RunningFor
  <2>4. ASSUME NEW t \in Tag
        PROVE  {g[v] : v \in RunningFor(t)'}
                  = IF t = u THEN Without(w)[t] \cup {g[w]} ELSE Without(w)[t]
    <3>1. PICK A : A = RunningFor(t) \ {w} OBVIOUS
    <3>2. \A v \in A : g[v] = f[v] BY <1>5, <3>1
    <3>3. Without(w)[t] = {f[v] : v \in A} BY <1>7, <3>1
    <3>4. {g[v] : v \in A \cup {w}} = {f[v] : v \in A} \cup {g[w]} BY <3>2, ImageWith
    <3>5. {g[v] : v \in A} = {f[v] : v \in A} BY <3>2, ImageSame
    <3> QED BY <2>3, <3>1, <3>3, <3>4, <3>5
  <2>5. Running' = [t \in Tag |-> IF t = u THEN Without(w)[t] \cup {g[w]} ELSE Without(w)[t]]
    BY <1>6, <2>4
  <2>6. [Without(w) EXCEPT ![u] = @ \cup {g[w]}]
          = [t \in Tag |-> IF t = u THEN Without(w)[t] \cup {g[w]} ELSE Without(w)[t]]
    BY <1>7
  <2> QED BY <2>1, <2>2, <2>5, <2>6
<1> QED BY <1>8, <1>9

-----------------------------------------------------------------------------
\* What a worker's step does to the tasks

\* the count without w's task that a look for the next one goes by
LEMMA FinishCounts ==
    ASSUME IInv, NEW w \in Worker, pc[w] = "run"
    PROVE  \A t \in Tag : sched_task_done(sched, job[w][1]).sched.iRunning[t]
                             = Cardinality(RunningFor(t) \ {w})
<1> PICK done : done = sched_task_done(sched, job[w][1]) OBVIOUS
<1>1. /\ job[w][1] \in Tag /\ sched \in Sched /\ sched.iRunning[job[w][1]] > 0
  BY FinishType
<1>2. sched.iRunning \in [Tag -> Nat] BY <1>1, SchedFields
<1>3. done.sched.iRunning = [sched.iRunning EXCEPT ![job[w][1]] = @ - 1]
  BY <1>1, TaskDoneType
<1> TAKE t \in Tag
<1>4. /\ IsFiniteSet(RunningFor(t)) /\ Cardinality(RunningFor(t)) \in Nat
      /\ sched.iRunning[t] = Cardinality(RunningFor(t))
  BY CountedSets DEF IInv, ThreadInv, RunningExact
<1>5. w \in RunningFor(t) <=> t = job[w][1] BY DEF RunningFor
<1>6. Cardinality(RunningFor(t) \ {w}) = IF w \in RunningFor(t)
           THEN Cardinality(RunningFor(t)) - 1 ELSE Cardinality(RunningFor(t))
  BY <1>4, FS_RemoveElement
<1> QED BY <1>1, <1>2, <1>3, <1>4, <1>5, <1>6

\* beside the other workers, one more task of t may run
Room(w, t) == \/ sched.Config[t].iMaxConcurrency = 0
              \/ Cardinality(RunningFor(t) \ {w}) < sched.Config[t].iMaxConcurrency

\* the task w was in has ended
Ran(w) == IF pc[w] = "run" THEN [status EXCEPT ![job[w][2]] = "done"] ELSE status

\* w starts the oldest task of t
Takes(w, t) ==
    /\ pc'[w] = "run" /\ job'[w] = <<t, Head(sched.Queue[t])>>
    /\ sched.Queue[t] # <<>> /\ Room(w, t)
    /\ sched'.Queue = [sched.Queue EXCEPT ![t] = Tail(@)]
    /\ status' = [Ran(w) EXCEPT ![Head(sched.Queue[t])] = "running"]

\* w starts none; if it looked for one, there is none it could have started
TakesNone(w) ==
    /\ pc'[w] # "run" /\ sched'.Queue = sched.Queue /\ status' = Ran(w)
    /\ pc[w] \in {"start", "run", "woken"} /\ abort[w] = "None" /\ ~sched.m_bQueuePaused =>
         \A t \in Tag : sched.Queue[t] # <<>> => ~Room(w, t)

TaskStep(w) ==
    /\ \A v \in Worker : v # w => /\ job'[v] = job[v]
                                  /\ pc'[v] = pc[v] \/ (pc[v] = "wait" /\ pc'[v] = "woken")
    /\ (\E t \in Tag : Takes(w, t)) \/ TakesNone(w)

\* A look for work in S, the scheduler without w's old task, whose status is ran
LEMMA LookStep ==
    ASSUME IInv, NEW w \in Worker, NEW S \in Sched, WellKept(S),
           S.Queue = sched.Queue, S.Config = sched.Config,
           S.m_bQueuePaused = sched.m_bQueuePaused,
           \A t \in Tag : S.iRunning[t] = Cardinality(RunningFor(t) \ {w}),
           NEW r, r = sched_dequeue(S), sched' = r.sched,
           r.bFound  => /\ pc'[w] = "run" /\ job'[w] = <<r.tag, r.task>>
                        /\ status' = [Ran(w) EXCEPT ![r.task] = "running"],
           ~r.bFound => pc'[w] # "run" /\ status' = Ran(w)
    PROVE  (\E t \in Tag : Takes(w, t)) \/ TakesNone(w)
<1>1. DequeueOK(S, r) /\ DequeueStep(S, r) BY DequeueType, DequeueSteps
<1>2. \A t \in Tag : BelowCap(S, t) <=> Room(w, t) BY DEF BelowCap, Room
<1>3. CASE r.bFound
  <2>1. PICK t \in Tag : t = r.tag BY <1>1, <1>3 DEF DequeueStep
  <2>2. /\ Serviceable(S, t) /\ r.task = Head(sched.Queue[t])
        /\ sched'.Queue = [sched.Queue EXCEPT ![t] = Tail(@)]
    BY <1>1, <1>3, <2>1 DEF DequeueStep
  <2>3. sched.Queue[t] # <<>> /\ Room(w, t) BY <1>2, <2>2 DEF Serviceable
  <2>4. Takes(w, t) BY <1>3, <2>1, <2>2, <2>3 DEF Takes
  <2> QED BY <2>4
<1>4. CASE ~r.bFound
  <2>1. sched'.Queue = sched.Queue BY <1>1, <1>4 DEF DequeueStep
  <2>2. ASSUME ~sched.m_bQueuePaused
        PROVE  \A t \in Tag : sched.Queue[t] # <<>> => ~Room(w, t)
    BY <1>1, <1>2, <1>4, <2>2 DEF DequeueStep, Serviceable
  <2> QED BY <1>4, <2>1, <2>2 DEF TakesNone
<1> QED BY <1>3, <1>4

\* What a goto of w leaves alone, after a notify_one() or none
LEMMA OneMoves ==
    ASSUME IInv, NEW w \in Worker, NEW p, p = pc \/ p \in AfterNotifyOne
    PROVE  /\ p \in [Worker -> PC] /\ job \in [Worker -> {<<>>} \cup (Tag \X Task)]
           /\ \A v \in Worker : p[v] = pc[v] \/ (pc[v] = "wait" /\ p[v] = "woken")
<1>1. pc \in [Worker -> PC] /\ job \in [Worker -> {<<>>} \cup (Tag \X Task)]
  BY DEF IInv, TypeOK
<1>2. Wakes(pc, p)
  <2>1. Wakes(pc, pc) BY <1>1 DEF Wakes
  <2> QED BY <2>1, NotifyOneWakes DEF IInv
<1> QED BY <1>1, <1>2 DEF Wakes

LEMMA StartTask ==
    ASSUME IInv, WellKept(sched), NEW w \in Worker, WorkerStart(w)
    PROVE  TaskStep(w)
<1>1. PICK r : r = sched_dequeue(sched) OBVIOUS
<1>2. /\ pc[w] = "start"
      /\ IF r.bFound THEN TakeTask(w, r, pc) /\ status' = [status EXCEPT ![r.task] = "running"]
                     ELSE GoIdle(w, r, pc) /\ status' = status
  BY <1>1 DEF WorkerStart
<1>3. PICK to : to = (IF r.bFound THEN "run" ELSE IF ma_interrupt THEN "exit"
                      ELSE IF abort[w] # "None" THEN "baton" ELSE "wait")
  OBVIOUS
<1>4. PICK x : x = (IF r.bFound THEN <<r.tag, r.task>> ELSE <<>>) OBVIOUS
<1>5. /\ pc' = [pc EXCEPT ![w] = to] /\ job' = [job EXCEPT ![w] = x]
      /\ sched' = r.sched /\ Ran(w) = status
  BY <1>2, <1>3, <1>4 DEF TakeTask, GoIdle, Ran
<1>6. /\ \A v \in Worker : v # w =>
            /\ job'[v] = job[v]
            /\ pc'[v] = pc[v] \/ (pc[v] = "wait" /\ pc'[v] = "woken")
      /\ pc'[w] = to /\ job'[w] = x
  <2>1. pc \in [Worker -> PC] /\ job \in [Worker -> {<<>>} \cup (Tag \X Task)]
    BY OneMoves
  <2> QED BY <1>5, <2>1
<1>7. /\ sched \in Sched
      /\ \A t \in Tag : sched.iRunning[t] = Cardinality(RunningFor(t) \ {w})
  BY <1>2, NotRunning DEF IInv, TypeOK
<1>8. /\ r.bFound  => /\ pc'[w] = "run" /\ job'[w] = <<r.tag, r.task>>
                      /\ status' = [Ran(w) EXCEPT ![r.task] = "running"]
      /\ ~r.bFound => pc'[w] # "run" /\ status' = Ran(w)
  BY <1>2, <1>3, <1>4, <1>5, <1>6
<1>9. (\E t \in Tag : Takes(w, t)) \/ TakesNone(w)
  BY <1>1, <1>5, <1>7, <1>8, LookStep
<1> QED BY <1>6, <1>9 DEF TaskStep

LEMMA FinishTask ==
    ASSUME IInv, WellKept(sched), NEW w \in Worker, WorkerFinish(w)
    PROVE  TaskStep(w)
<1>1. PICK done : done = sched_task_done(sched, job[w][1]) OBVIOUS
<1>2. PICK r : r = sched_dequeue(done.sched) OBVIOUS
<1>3. pc[w] = "run" BY DEF WorkerFinish
<1>4. Ran(w) = [status EXCEPT ![job[w][2]] = "done"] BY <1>3 DEF Ran
<1>5. PICK p : /\ p \in (IF done.bWake THEN AfterNotifyOne ELSE {pc})
               /\ IF abort[w] # "None"
                  THEN /\ sched' = done.sched
                       /\ pc'  = [p EXCEPT ![w] = "exit"]
                       /\ job' = [job EXCEPT ![w] = <<>>]
                       /\ status' = Ran(w)
                  ELSE IF r.bFound
                  THEN TakeTask(w, r, p) /\ status' = [Ran(w) EXCEPT ![r.task] = "running"]
                  ELSE GoIdle(w, r, p) /\ status' = Ran(w)
  BY <1>1, <1>2, <1>4 DEF WorkerFinish
<1>6. p = pc \/ p \in AfterNotifyOne BY <1>5
<1>7. PICK to, x :
        /\ pc' = [p EXCEPT ![w] = to] /\ job' = [job EXCEPT ![w] = x]
        /\ abort[w] = "None" /\ r.bFound => to = "run" /\ x = <<r.tag, r.task>>
        /\ abort[w] # "None" \/ ~r.bFound => to # "run"
  <2>1. PICK to : to = (IF abort[w] = "None" /\ r.bFound THEN "run"
                        ELSE IF abort[w] # "None" \/ ma_interrupt THEN "exit" ELSE "wait")
    OBVIOUS
  <2>2. PICK x : x = (IF abort[w] = "None" /\ r.bFound THEN <<r.tag, r.task>> ELSE <<>>)
    OBVIOUS
  <2>3. pc' = [p EXCEPT ![w] = to] /\ job' = [job EXCEPT ![w] = x]
    BY <1>5, <2>1, <2>2 DEF TakeTask, GoIdle
  <2>4. abort[w] = "None" /\ r.bFound => to = "run" /\ x = <<r.tag, r.task>>
    BY <2>1, <2>2
  <2>5. abort[w] # "None" \/ ~r.bFound => to # "run"
    BY <2>1
  <2> QED BY <2>3, <2>4, <2>5, Zenon
<1>8. /\ \A v \in Worker : v # w =>
            /\ job'[v] = job[v]
            /\ pc'[v] = pc[v] \/ (pc[v] = "wait" /\ pc'[v] = "woken")
      /\ pc'[w] = to
  <2>1. /\ p \in [Worker -> PC] /\ job \in [Worker -> {<<>>} \cup (Tag \X Task)]
        /\ \A v \in Worker : p[v] = pc[v] \/ (pc[v] = "wait" /\ p[v] = "woken")
    BY <1>6, OneMoves
  <2> QED BY <1>7, <2>1
<1>9. job'[w] = x BY <1>7 DEF IInv, TypeOK
<1>10. /\ sched \in Sched /\ job[w][1] \in Tag /\ done.sched \in Sched
  BY <1>1, <1>3, FinishType
<1>11. /\ done.sched.Queue = sched.Queue
       /\ done.sched.m_bQueuePaused = sched.m_bQueuePaused
       /\ done.sched.Config = sched.Config
       /\ WellKept(done.sched)
  <2>1. PICK t \in Tag : t = job[w][1] BY <1>10
  <2>2. done = sched_task_done(sched, t) BY <1>1, <2>1
  <2>3. /\ done.sched.Queue = sched.Queue
        /\ done.sched.m_bQueuePaused = sched.m_bQueuePaused
    BY <1>10, <2>2, TaskDoneQueue
  <2>4. done.sched.Config = sched.Config BY <1>10, <2>2, TaskDoneType
  <2>5. WellKept(done.sched) BY <1>10, <2>2, TaskDoneKept
  <2> QED BY <2>3, <2>4, <2>5
<1>12. (\E t \in Tag : Takes(w, t)) \/ TakesNone(w)
  <2>1. CASE abort[w] # "None"
    BY <1>5, <1>7, <1>8, <1>11, <2>1 DEF TakesNone
  <2>2. CASE abort[w] = "None"
    <3>1. sched' = r.sched BY <1>5, <2>2 DEF TakeTask, GoIdle
    <3>2. \A t \in Tag : done.sched.iRunning[t] = Cardinality(RunningFor(t) \ {w})
      BY <1>1, <1>3, FinishCounts
    <3>3. /\ r.bFound  => /\ pc'[w] = "run" /\ job'[w] = <<r.tag, r.task>>
                          /\ status' = [Ran(w) EXCEPT ![r.task] = "running"]
          /\ ~r.bFound => pc'[w] # "run" /\ status' = Ran(w)
      BY <1>5, <1>7, <1>8, <1>9, <2>2
    <3> QED BY <1>2, <1>10, <1>11, <3>1, <3>2, <3>3, LookStep
  <2> QED BY <2>1, <2>2
<1> QED BY <1>8, <1>12 DEF TaskStep

LEMMA WakeTask ==
    ASSUME IInv, WellKept(sched), NEW w \in Worker, WorkerWake(w)
    PROVE  TaskStep(w)
<1>1. PICK r : r = sched_dequeue(sched) OBVIOUS
<1>2. PICK to, x :
        /\ pc' = [pc EXCEPT ![w] = to] /\ (job' = job \/ job' = [job EXCEPT ![w] = x])
        /\ abort[w] = "None" /\ r.bFound =>
             /\ to = "run" /\ x = <<r.tag, r.task>> /\ job' = [job EXCEPT ![w] = x]
             /\ status' = [status EXCEPT ![r.task] = "running"]
        /\ abort[w] # "None" \/ ~r.bFound => to # "run" /\ status' = status
        /\ abort[w] = "None" => sched' = r.sched
        /\ abort[w] # "None" => sched' = sched
  <2>1. CASE abort[w] # "None" BY <1>1, <2>1 DEF WorkerWake
  <2>2. CASE abort[w] = "None" /\ r.bFound BY <1>1, <2>2 DEF WorkerWake, TakeTask
  <2>3. CASE abort[w] = "None" /\ ~r.bFound BY <1>1, <2>3 DEF WorkerWake
  <2> QED BY <2>1, <2>2, <2>3
<1>3. pc[w] = "woken" BY DEF WorkerWake
<1>4. Ran(w) = status BY <1>3 DEF Ran
<1>5. /\ \A v \in Worker : v # w =>
            /\ job'[v] = job[v]
            /\ pc'[v] = pc[v] \/ (pc[v] = "wait" /\ pc'[v] = "woken")
      /\ pc'[w] = to
  <2>1. pc \in [Worker -> PC] /\ job \in [Worker -> {<<>>} \cup (Tag \X Task)]
    BY OneMoves
  <2> QED BY <1>2, <2>1
<1>6. (\E t \in Tag : Takes(w, t)) \/ TakesNone(w)
  <2>1. CASE abort[w] # "None" BY <1>2, <1>4, <1>5, <2>1 DEF TakesNone
  <2>2. CASE abort[w] = "None"
    <3>1. /\ sched \in Sched
          /\ \A t \in Tag : sched.iRunning[t] = Cardinality(RunningFor(t) \ {w})
      BY <1>3, NotRunning DEF IInv, TypeOK
    <3>2. /\ r.bFound  => /\ pc'[w] = "run" /\ job'[w] = <<r.tag, r.task>>
                          /\ status' = [Ran(w) EXCEPT ![r.task] = "running"]
          /\ ~r.bFound => pc'[w] # "run" /\ status' = Ran(w)
      BY <1>2, <1>4, <1>5, <2>2 DEF IInv, TypeOK
    <3> QED BY <1>1, <1>2, <2>2, <3>1, <3>2, LookStep
  <2> QED BY <2>1, <2>2
<1> QED BY <1>5, <1>6 DEF TaskStep

LEMMA LeaveTask ==
    ASSUME IInv, NEW w \in Worker, WorkerBaton(w) \/ WorkerExit(w) \/ SpuriousWakeup(w)
    PROVE  TaskStep(w)
<1>1. PICK p, to : /\ p = pc \/ p \in AfterNotifyOne
                   /\ pc' = [p EXCEPT ![w] = to] /\ to # "run"
  BY DEF WorkerBaton, WorkerExit, SpuriousWakeup
<1>2. /\ pc[w] \in {"baton", "exit", "wait"}
      /\ UNCHANGED <<sched, job, status>>
  BY DEF WorkerBaton, WorkerExit, SpuriousWakeup, history
<1>3. /\ \A v \in Worker : v # w =>
            /\ job'[v] = job[v]
            /\ pc'[v] = pc[v] \/ (pc[v] = "wait" /\ pc'[v] = "woken")
      /\ pc'[w] = to
  <2>1. /\ p \in [Worker -> PC]
        /\ \A v \in Worker : p[v] = pc[v] \/ (pc[v] = "wait" /\ p[v] = "woken")
    BY <1>1, OneMoves
  <2> QED BY <1>1, <1>2, <2>1
<1> QED BY <1>1, <1>2, <1>3 DEF TaskStep, TakesNone, Ran

LEMMA TaskSteps ==
    ASSUME IInv, WellKept(sched), NEW w \in Worker, WorkerStep(w) \/ SpuriousWakeup(w)
    PROVE  TaskStep(w)
BY StartTask, FinishTask, WakeTask, LeaveTask DEF WorkerStep

-----------------------------------------------------------------------------
\* What the other steps do to the tasks

Quiet == SameRuns /\ sched'.Queue = sched.Queue /\ status' = status

LEMMA StartRuns ==
    ASSUME NEW n, StartThreads(n)
    PROVE  \A v \in Worker : pc'[v] = "run" <=> pc[v] = "run"
<1>1. PICK T \in SUBSET Unused :
        pc' = [w \in Worker |-> IF w \in T THEN "start" ELSE pc[w]]
  BY DEF StartThreads
<1>2. \A w \in T : pc[w] = "free" BY DEF Unused
<1> QED BY <1>1, <1>2

LEMMA GrowRuns ==
    ASSUME NEW iQueued, NEW growth, NEW iMaxThreads, grow(iQueued, growth, iMaxThreads)
    PROVE  \A v \in Worker : pc'[v] = "run" <=> pc[v] = "run"
BY StartRuns DEF grow, threadVars

LEMMA ShrinkRuns ==
    ASSUME NEW iQueued, NEW policy, NEW iMaxThreads, NEW bElapsed,
           shrink(iQueued, policy, iMaxThreads, bElapsed)
    PROVE  \A v \in Worker : pc'[v] = "run" <=> pc[v] = "run"
<1>1. pc' = AfterNotifyAll(pc) \/ UNCHANGED pc
  BY DEF shrink, DetachAbove, threadVars
<1> QED BY <1>1 DEF AfterNotifyAll

LEMMA PushRuns ==
    ASSUME NEW tag \in Tag, NEW k \in Task, push_to_tag(tag, k)
    PROVE  SameRuns
<1>1. /\ UNCHANGED job
      /\ \/ UNCHANGED threadVars
         \/ \E n : bookkeep_enqueue(n)
  BY DEF push_to_tag
<1>2. ASSUME NEW n, bookkeep_enqueue(n)
      PROVE  \A v \in Worker : pc'[v] = "run" <=> pc[v] = "run"
  BY <1>2, GrowRuns, ShrinkRuns DEF bookkeep_enqueue, threadVars
<1> QED BY <1>1, <1>2 DEF SameRuns, threadVars

LEMMA NotifyRuns ==
    ASSUME TypeOK, pc' \in AfterNotifyOne \/ pc' = AfterNotifyAll(pc)
    PROVE  \A v \in Worker : pc'[v] = "run" <=> pc[v] = "run"
<1>1. Wakes(pc, pc') BY NotifyOneWakes, NotifyAllWakes
<1> QED BY <1>1 DEF Wakes

\* Every step is a push, a worker's, clear(), or one that does nothing to the tasks.
LEMMA StepKinds ==
    ASSUME IInv, WellKept(sched), [Next]_vars
    PROVE  \/ \E t \in Tag, k \in Task : push_to_tag(t, k)
           \/ \E w \in Worker : TaskStep(w)
           \/ clear
           \/ Quiet
<1>0. sched \in Sched /\ TypeOK BY DEF IInv, TypeOK
<1>1. ASSUME NEW w \in Worker, WorkerStep(w) \/ SpuriousWakeup(w) PROVE TaskStep(w)
  BY <1>1, TaskSteps
<1>2. CASE NotifyPushed \/ StopNotify \/ NotifyUnpaused
  <2>1. UNCHANGED <<sched, job, status>> /\ (pc' \in AfterNotifyOne \/ pc' = AfterNotifyAll(pc))
    BY <1>2 DEF NotifyPushed, StopNotify, NotifyUnpaused, history
  <2> QED BY <1>0, <2>1, NotifyRuns DEF Quiet, SameRuns
<1>3. ASSUME NEW args \in Resizes, ResizeBegin(args) PROVE Quiet
  BY <1>3 DEF ResizeBegin, threadVars, history, Quiet, SameRuns
<1>4. ASSUME NEW call \in resizing, ResizeLocked(call) PROVE Quiet
  <2>1. UNCHANGED <<sched, job, status>> BY <1>4 DEF ResizeLocked, history
  <2>2. \A v \in Worker : pc'[v] = "run" <=> pc[v] = "run"
    BY <1>4, GrowRuns, ShrinkRuns DEF ResizeLocked, threadVars
  <2> QED BY <2>1, <2>2 DEF Quiet, SameRuns
<1>5. ASSUME NEW bKill \in Kills, StopBegin(bKill) PROVE Quiet
  BY <1>5 DEF StopBegin, Quiet, SameRuns
<1>6. CASE StopJoin \/ StopReturn
  BY <1>6 DEF StopJoin, StopReturn, threadVars, history, Quiet, SameRuns
<1>7. ASSUME NEW b \in BOOLEAN, pause(b) PROVE Quiet
  <2>1. UNCHANGED <<pc, job, status>> /\ sched' = [sched EXCEPT !.m_bQueuePaused = b]
    BY <1>7 DEF pause, threadVars
  <2>2. sched'.Queue = sched.Queue BY <1>0, <2>1, PausedSched
  <2> QED BY <2>1, <2>2 DEF Quiet, SameRuns
<1>8. ASSUME NEW s \in Strategies, set_strategy(s[1], s[2]) PROVE Quiet
  BY <1>8 DEF set_strategy, threadVars, history, Quiet, SameRuns
<1>9. ASSUME NEW c \in Reconfigs, ConfigureTag(c[1], c[2]) PROVE Quiet
  <2>1. UNCHANGED <<pc, job, status>> /\ sched' = ConfigureTagTo(sched, c[1], c[2])
    BY <1>9 DEF ConfigureTag, threadVars, history
  <2>2. c[1] \in Tag /\ c[2] \in TagConfig BY PoolAssumption
  <2>3. sched'.Queue = sched.Queue BY <1>0, <2>1, <2>2, ConfigureTagQueue
  <2> QED BY <2>1, <2>3 DEF Quiet, SameRuns
<1>10. CASE UNCHANGED vars
  BY <1>10 DEF vars, threadVars, history, Quiet, SameRuns
<1> QED BY <1>1, <1>2, <1>3, <1>4, <1>5, <1>6, <1>7, <1>8, <1>9, <1>10 DEF Next

-----------------------------------------------------------------------------
\* Every task stays in one place.

LEMMA PlacedInit == Init => TasksPlaced
<1>1. Init => sched.Queue = [t \in Tag |-> <<>>]
  <2>1. InitConfig \in [Tag -> TagConfig] /\ InitOrder \in Seq(Tag) BY PoolAssumption
  <2>2. EmptySched(InitConfig, InitOrder).Queue = [t \in Tag |-> <<>>] BY <2>1, EmptyKept
  <2>3. Init => sched = EmptySched(InitConfig, InitOrder) BY DEF Init
  <2> QED BY <2>2, <2>3
<1>2. Init => Distinct(sched.Queue) /\ QueuedIn(sched.Queue) = {} BY <1>1, NoTasks
<1>3. Init => \A w \in Worker : pc[w] # "run"
  <2> SUFFICES ASSUME Init PROVE \A w \in Worker : pc[w] # "run"
    OBVIOUS
  <2>1. \E place : pc = [w \in Worker |-> IF place[w] = 0 THEN "free" ELSE "start"]
    BY DEF Init
  <2> QED BY <2>1
<1>4. Init => \A k \in Task : status[k] # "queued" BY DEF Init
<1> QED BY <1>2, <1>3, <1>4 DEF TasksPlaced

\* A push queues a new task, in place of the oldest or not, or breaks it.
LEMMA PushTasks ==
    ASSUME IInv, TasksPlaced, NEW tag \in Tag, NEW k \in Task, push_to_tag(tag, k)
    PROVE  /\ status[k] = "new"
           /\ k \notin QueuedIn(sched.Queue)
           /\ \/ /\ sched'.Queue = sched.Queue
                 /\ status' = [status EXCEPT ![k] = "broken"]
              \/ /\ sched'.Queue = [sched.Queue EXCEPT ![tag] = Append(@, k)]
                 /\ status' = [status EXCEPT ![k] = "queued"]
              \/ /\ sched.Queue[tag] # <<>>
                 /\ sched'.Queue = [sched.Queue EXCEPT ![tag] = Append(Tail(@), k)]
                 /\ status' = [j \in Task |->
                                  IF j = k THEN "queued"
                                  ELSE IF j = Head(sched.Queue[tag]) THEN "broken"
                                  ELSE status[j]]
<1>1. PICK r : r = sched_enqueue(sched, tag, k) OBVIOUS
<1>2. /\ status[k] = "new" /\ sched' = r.sched
      /\ r.bAccepted => status' = [j \in Task |-> CASE j = k -> "queued"
                                                    [] r.dropped = <<j>> -> "broken"
                                                    [] OTHER -> status[j]]
      /\ ~r.bAccepted => status' = [status EXCEPT ![k] = "broken"]
  BY <1>1 DEF push_to_tag
<1>3. sched \in Sched /\ status \in [Task -> Statuses] BY DEF IInv, TypeOK, Statuses
<1>4. /\ ~r.bAccepted => sched'.Queue = sched.Queue
      /\ r.bAccepted /\ r.dropped = <<>> =>
           sched'.Queue = [sched.Queue EXCEPT ![tag] = Append(@, k)]
      /\ r.bAccepted /\ r.dropped # <<>> =>
           /\ sched.Queue[tag] # <<>> /\ r.dropped = <<Head(sched.Queue[tag])>>
           /\ sched'.Queue = [sched.Queue EXCEPT ![tag] = Append(Tail(@), k)]
  <2>1. /\ ~r.bAccepted => r.sched.Queue = sched.Queue
        /\ r.bAccepted /\ r.dropped = <<>> =>
             r.sched.Queue = [sched.Queue EXCEPT ![tag] = Append(@, k)]
        /\ r.bAccepted /\ r.dropped # <<>> =>
             /\ sched.Queue[tag] # <<>> /\ r.dropped = <<Head(sched.Queue[tag])>>
             /\ r.sched.Queue = [sched.Queue EXCEPT ![tag] = Append(Tail(@), k)]
    BY <1>1, <1>3, EnqueueQueue
  <2> QED BY <1>2, <2>1
<1>5. k \notin QueuedIn(sched.Queue) BY <1>2 DEF TasksPlaced
<1>6. CASE ~r.bAccepted BY <1>2, <1>4, <1>6, <1>5
<1>7. CASE r.bAccepted /\ r.dropped = <<>>
  <2>1. status' = [status EXCEPT ![k] = "queued"]
    <3>1. \A j \in Task : r.dropped # <<j>> BY <1>7
    <3>2. status' = [j \in Task |-> IF j = k THEN "queued" ELSE status[j]]
      BY <1>2, <1>7, <3>1
    <3> QED BY <1>3, <3>2
  <2> QED BY <1>2, <1>4, <1>7, <1>5, <2>1
<1>8. CASE r.bAccepted /\ r.dropped # <<>>
  <2>1. PICK h : h = Head(sched.Queue[tag]) OBVIOUS
  <2>2. r.dropped = <<h>> BY <1>4, <1>8, <2>1
  <2>3. \A j : <<h>> = <<j>> <=> j = h OBVIOUS
  <2>4. \A j : r.dropped = <<j>> <=> j = h BY <2>2, <2>3
  <2>5. h # k
    <3>1. PICK Q \in [Tag -> Seq(Task)] : Q = sched.Queue BY <1>3, SchedFields
    <3>2. Q \in [Tag -> Seq(Task)] BY <3>1
    <3>3. Q[tag] # <<>> /\ h = Head(Q[tag]) /\ Distinct(Q) /\ k \notin QueuedIn(Q)
      BY <1>4, <1>8, <1>5, <2>1, <3>1 DEF TasksPlaced
    <3>4. h \in QueuedIn(Q) BY <3>2, <3>3, TailTasks
    <3> QED BY <3>3, <3>4
  <2>6. status' = [j \in Task |-> IF j = k THEN "queued"
                                  ELSE IF j = h THEN "broken" ELSE status[j]]
    <3>1. status' = [j \in Task |-> CASE j = k -> "queued"
                                      [] r.dropped = <<j>> -> "broken"
                                      [] OTHER -> status[j]]
      BY <1>2, <1>8
    <3>2. \A j \in Task : (CASE j = k -> "queued"
                            [] r.dropped = <<j>> -> "broken"
                            [] OTHER -> status[j])
                         = IF j = k THEN "queued" ELSE IF j = h THEN "broken" ELSE status[j]
      <4> TAKE j \in Task
      <4>1. CASE j = k BY <2>3, <2>4, <2>5, <4>1
      <4>2. CASE j = h /\ j # k BY <2>4, <4>2
      <4>3. CASE j # h /\ j # k BY <2>4, <4>3
      <4> QED BY <4>1, <4>2, <4>3
    <3> QED BY <3>1, <3>2, Zenon
  <2> QED BY <1>2, <1>4, <1>8, <1>5, <2>1, <2>6
<1> QED BY <1>6, <1>7, <1>8

LEMMA PushPlaced ==
    ASSUME IInv, TasksPlaced, NEW tag \in Tag, NEW k \in Task, push_to_tag(tag, k)
    PROVE  TasksPlaced'
<1>1. PICK Q \in [Tag -> Seq(Task)] : Q = sched.Queue
  BY SchedFields DEF IInv, TypeOK
<1>2. PICK R : R = sched'.Queue OBVIOUS
<1>3. status[k] = "new" /\ status \in [Task -> Statuses]
  BY PushTasks DEF IInv, TypeOK, Statuses
<1>4. SameRuns BY PushRuns
<1>5. Distinct(Q) /\ QueuedIn(Q) = {j \in Task : status[j] = "queued"} /\ k \notin QueuedIn(Q)
  BY <1>1, <1>3 DEF TasksPlaced
<1>6. PICK N : N = [Q EXCEPT ![tag] = Append(@, k)] OBVIOUS
<1>7. \/ R = Q /\ status' = [status EXCEPT ![k] = "broken"]
      \/ R = N /\ status' = [status EXCEPT ![k] = "queued"]
      \/ /\ Q[tag] # <<>>
         /\ R = [Q EXCEPT ![tag] = Append(Tail(@), k)]
         /\ status' = [j \in Task |-> IF j = k THEN "queued"
                                      ELSE IF j = Head(Q[tag]) THEN "broken" ELSE status[j]]
  BY <1>1, <1>2, <1>6, PushTasks
<1>8. /\ Distinct(R) /\ QueuedIn(R) = {j \in Task : status'[j] = "queued"}
      /\ \A j \in Task : status[j] = "running" => status'[j] = "running"
  <2>1. ASSUME R = Q, status' = [status EXCEPT ![k] = "broken"]
        PROVE  Distinct(R) /\ QueuedIn(R) = {j \in Task : status'[j] = "queued"}
               /\ \A j \in Task : status[j] = "running" => status'[j] = "running"
    BY <1>3, <1>5, <2>1
  <2>2. ASSUME R = N, status' = [status EXCEPT ![k] = "queued"]
        PROVE  Distinct(R) /\ QueuedIn(R) = {j \in Task : status'[j] = "queued"}
               /\ \A j \in Task : status[j] = "running" => status'[j] = "running"
    <3>0. Q \in [Tag -> Seq(Task)] BY <1>1
    <3>1. Distinct(N) /\ QueuedIn(N) = QueuedIn(Q) \cup {k}
      BY <1>5, <1>6, <3>0, AppendTasks
    <3>2. \A j \in Task : status'[j] = IF j = k THEN "queued" ELSE status[j]
      BY <1>3, <2>2
    <3> QED BY <1>3, <1>5, <2>2, <3>1, <3>2
  <2>3. ASSUME Q[tag] # <<>>, R = [Q EXCEPT ![tag] = Append(Tail(@), k)],
               status' = [j \in Task |-> IF j = k THEN "queued"
                                      ELSE IF j = Head(Q[tag]) THEN "broken" ELSE status[j]]
        PROVE  Distinct(R) /\ QueuedIn(R) = {j \in Task : status'[j] = "queued"}
               /\ \A j \in Task : status[j] = "running" => status'[j] = "running"
    <3>1. PICK h : h = Head(Q[tag]) OBVIOUS
    <3>2. PICK P : P = [Q EXCEPT ![tag] = Tail(@)] OBVIOUS
    <3>3. /\ P \in [Tag -> Seq(Task)] /\ Distinct(P) /\ h \in QueuedIn(Q)
          /\ QueuedIn(P) = QueuedIn(Q) \ {h}
      BY <1>1, <1>5, <2>3, <3>1, <3>2, TailTasks
    <3>4. R = [P EXCEPT ![tag] = Append(@, k)] BY <1>1, <2>3, <3>2
    <3>5. k \notin QueuedIn(P) BY <1>5, <3>3
    <3>6. Distinct(R) /\ QueuedIn(R) = QueuedIn(P) \cup {k}
      BY <3>3, <3>4, <3>5, AppendTasks
    <3>7. \A j \in Task : status'[j] = IF j = k THEN "queued"
                                       ELSE IF j = h THEN "broken" ELSE status[j]
      BY <2>3, <3>1
    <3> QED BY <1>3, <1>5, <3>3, <3>6, <3>7
  <2> QED BY <1>7, <2>1, <2>2, <2>3
<1>9. \A w \in Worker : pc'[w] = "run" => /\ pc[w] = "run" /\ job'[w] = job[w]
                                           /\ job[w][2] \in Task
  BY <1>4, FinishType DEF SameRuns
<1>10. \A w \in Worker : pc'[w] = "run" => status'[job'[w][2]] = "running"
  BY <1>8, <1>9 DEF TasksPlaced
<1>11. \A v, w \in Worker : pc'[v] = "run" /\ pc'[w] = "run" /\ job'[v][2] = job'[w][2] => v = w
  BY <1>9 DEF TasksPlaced
<1> QED BY <1>2, <1>8, <1>10, <1>11 DEF TasksPlaced

LEMMA WorkerPlaced ==
    ASSUME IInv, TasksPlaced, NEW w \in Worker, TaskStep(w)
    PROVE  TasksPlaced'
<1>1. PICK Q \in [Tag -> Seq(Task)] : Q = sched.Queue
  BY SchedFields DEF IInv, TypeOK
<1>2. PICK R : R = sched'.Queue OBVIOUS
<1>3. PICK ran : ran = Ran(w) OBVIOUS
<1>4. status \in [Task -> Statuses] BY DEF IInv, TypeOK, Statuses
<1>5. Distinct(Q) /\ QueuedIn(Q) = {j \in Task : status[j] = "queued"}
  BY <1>1 DEF TasksPlaced
<1>6. \A v \in Worker : pc[v] = "run" => job[v][2] \in Task /\ status[job[v][2]] = "running"
  BY FinishType DEF TasksPlaced
<1>7. /\ ran \in [Task -> Statuses]
      /\ \A j \in Task : ran[j] = "queued" <=> status[j] = "queued"
      /\ \A v \in Worker : v # w /\ pc[v] = "run" => ran[job[v][2]] = "running"
  <2>1. CASE pc[w] # "run" BY <1>3, <1>4, <1>6, <2>1 DEF Ran
  <2>2. CASE pc[w] = "run"
    <3>1. ran = [status EXCEPT ![job[w][2]] = "done"] BY <1>3, <2>2 DEF Ran
    <3>2. \A v \in Worker : v # w /\ pc[v] = "run" => job[v][2] # job[w][2]
      BY <2>2 DEF TasksPlaced
    <3>3. ran \in [Task -> Statuses] BY <1>4, <3>1 DEF Statuses
    <3> QED BY <1>4, <1>6, <2>2, <3>1, <3>2, <3>3
  <2> QED BY <2>1, <2>2
<1>8. \A v \in Worker : v # w => job'[v] = job[v] /\ (pc'[v] = "run" <=> pc[v] = "run")
  BY DEF TaskStep
<1>9. CASE TakesNone(w)
  <2>1. pc'[w] # "run" /\ R = Q /\ status' = ran BY <1>1, <1>2, <1>3, <1>9 DEF TakesNone
  <2>2. QueuedIn(R) = {j \in Task : status'[j] = "queued"} BY <1>5, <1>7, <2>1
  <2>3. \A v \in Worker : pc'[v] = "run" => v # w /\ pc[v] = "run" /\ job'[v] = job[v]
    BY <1>8, <2>1
  <2>4. \A v \in Worker : pc'[v] = "run" => status'[job'[v][2]] = "running"
    BY <1>7, <2>1, <2>3
  <2>5. \A u, v \in Worker : pc'[u] = "run" /\ pc'[v] = "run" /\ job'[u][2] = job'[v][2] => u = v
    BY <2>3 DEF TasksPlaced
  <2> QED BY <1>2, <1>5, <2>1, <2>2, <2>4, <2>5 DEF TasksPlaced
<1>10. ASSUME NEW t \in Tag, Takes(w, t) PROVE TasksPlaced'
  <2>1. PICK h : h = Head(Q[t]) OBVIOUS
  <2>2. /\ job'[w][2] = h /\ Q[t] # <<>> /\ R = [Q EXCEPT ![t] = Tail(@)]
        /\ status' = [ran EXCEPT ![h] = "running"]
    BY <1>1, <1>2, <1>3, <1>10, <2>1 DEF Takes
  <2>3. Distinct(R) /\ h \in QueuedIn(Q) /\ QueuedIn(R) = QueuedIn(Q) \ {h}
    <3>1. Q \in [Tag -> Seq(Task)] BY <1>1
    <3>2. Q[t] # <<>> /\ R = [Q EXCEPT ![t] = Tail(@)] BY <2>2
    <3> QED BY <1>5, <2>1, <3>1, <3>2, TailTasks
  <2>4. h \in Task /\ status[h] = "queued" BY <1>5, <2>3
  <2>5. \A j \in Task : status'[j] = IF j = h THEN "running" ELSE ran[j]
    BY <1>7, <2>2, <2>4
  <2>6. QueuedIn(R) = {j \in Task : status'[j] = "queued"} BY <1>5, <1>7, <2>3, <2>5
  <2>7. \A v \in Worker : v # w /\ pc'[v] = "run" =>
           /\ pc[v] = "run" /\ job'[v] = job[v] /\ job[v][2] \in Task /\ job[v][2] # h
           /\ status'[job[v][2]] = "running"
    BY <1>6, <1>7, <1>8, <2>4, <2>5
  <2>8. \A v \in Worker : pc'[v] = "run" => status'[job'[v][2]] = "running"
    BY <2>2, <2>4, <2>5, <2>7
  <2>9. ASSUME NEW u \in Worker, NEW v \in Worker, pc'[u] = "run", pc'[v] = "run",
               job'[u][2] = job'[v][2]
        PROVE  u = v
    <3>1. CASE u # w /\ v # w BY <2>7, <2>9, <3>1 DEF TasksPlaced
    <3>2. CASE u = w \/ v = w BY <2>2, <2>7, <2>9, <3>2
    <3> QED BY <3>1, <3>2
  <2> QED BY <1>2, <2>3, <2>6, <2>8, <2>9 DEF TasksPlaced
<1> QED BY <1>9, <1>10 DEF TaskStep

LEMMA ClearPlaced ==
    ASSUME IInv, TasksPlaced, clear
    PROVE  TasksPlaced'
<1>1. /\ sched \in Sched /\ sched' = Cleared(sched) /\ UNCHANGED <<pc, job>>
      /\ status' = [k \in Task |-> IF status[k] = "queued" THEN "broken" ELSE status[k]]
  BY DEF clear, threadVars, IInv, TypeOK
<1>2. Distinct(sched'.Queue) /\ QueuedIn(sched'.Queue) = {}
  BY <1>1, ClearedQueue, NoTasks
<1>3. \A w \in Worker : pc[w] = "run" => job[w][2] \in Task BY FinishType
<1>4. \A k \in Task : status'[k] # "queued" BY <1>1
<1>5. \A w \in Worker : pc[w] = "run" => status'[job[w][2]] = "running"
  BY <1>1, <1>3 DEF TasksPlaced
<1> QED BY <1>1, <1>2, <1>4, <1>5 DEF TasksPlaced

LEMMA QuietPlaced ==
    ASSUME TasksPlaced, Quiet
    PROVE  TasksPlaced'
<1>1. \A w \in Worker : (pc'[w] = "run" <=> pc[w] = "run") /\ job'[w] = job[w]
  BY DEF Quiet, SameRuns
<1>2. sched'.Queue = sched.Queue /\ status' = status BY DEF Quiet
<1> QED BY <1>1, <1>2 DEF TasksPlaced

LEMMA PlacedNext == IInv /\ WellKept(sched) /\ TasksPlaced /\ [Next]_vars => TasksPlaced'
BY StepKinds, PushPlaced, WorkerPlaced, ClearPlaced, QuietPlaced

-----------------------------------------------------------------------------
\* The pool implements KTaskPool: its steps, as steps of KTaskPool

Caps == [t \in Tag |-> InitConfig[t].iMaxConcurrency]

LEMMA RunningTasksSame == RunningTasks = Running /\ RunningTasks' = Running'
<1>1. \A w \in Worker : TaskOf[w] = job[w][2] /\ TaskOf'[w] = job'[w][2] BY DEF TaskOf
<1>2. ASSUME NEW t \in Tag
      PROVE  /\ {TaskOf[v] : v \in RunningFor(t)} = {job[v][2] : v \in RunningFor(t)}
             /\ {TaskOf'[v] : v \in RunningFor(t)'} = {job'[v][2] : v \in RunningFor(t)'}
  <2>1. PICK A, B : A = RunningFor(t) /\ B = RunningFor(t)' OBVIOUS
  <2>2. A \subseteq Worker /\ B \subseteq Worker BY <2>1 DEF RunningFor
  <2>3. {TaskOf[v] : v \in A} = {job[v][2] : v \in A} BY <1>1, <2>2
  <2>4. {TaskOf'[v] : v \in B} = {job'[v][2] : v \in B} BY <1>1, <2>2
  <2> QED BY <2>1, <2>3, <2>4
<1> QED BY <1>2, Zenon DEF RunningTasks, Running

LEMMA WaitingQueued ==
    ASSUME IInv
    PROVE  /\ \A t \in Tag : \A k \in Task :
                k \in TaskPool!Waiting(t) <=> Positions(sched.Queue[t], k) # {}
           /\ UNION {TaskPool!Waiting(t) : t \in Tag} = QueuedIn(sched.Queue)
<1>1. PICK Q : Q = sched.Queue OBVIOUS
<1>2. Q \in [Tag -> Seq(Task)] BY <1>1, SchedFields DEF IInv, TypeOK
<1>3. \A t \in Tag : TaskPool!Waiting(t) = {Q[t][i] : i \in 1 .. Len(Q[t])}
  BY <1>1 DEF TaskPool!Waiting
<1>4. ASSUME NEW t \in Tag
      PROVE  /\ TaskPool!Waiting(t) \subseteq Task
             /\ \A k : k \in TaskPool!Waiting(t) <=> Positions(Q[t], k) # {}
  <2>1. PICK q \in Seq(Task) : q = Q[t] BY <1>2
  <2>2. TaskPool!Waiting(t) = {q[i] : i \in 1 .. Len(q)} BY <1>3, <2>1
  <2>3. \A i \in 1 .. Len(q) : q[i] \in Task OBVIOUS
  <2>4. \A k : k \in {q[i] : i \in 1 .. Len(q)} <=> Positions(q, k) # {} BY DEF Positions
  <2> QED BY <2>1, <2>2, <2>3, <2>4
<1>5. UNION {TaskPool!Waiting(t) : t \in Tag} = QueuedIn(Q)
  BY <1>4 DEF QueuedIn
<1> QED BY <1>1, <1>4, <1>5

\* A task that is new is nowhere in the pool.
LEMMA NewIsFresh ==
    ASSUME IInv, TasksPlaced, NEW k \in Task, status[k] = "new"
    PROVE  TaskPool!Fresh(k)
<1>1. k \notin Settled BY DEF Settled
<1>2. k \notin QueuedIn(sched.Queue) BY DEF TasksPlaced
<1>3. \A t \in Tag : k \notin TaskPool!Waiting(t)
  BY <1>2, WaitingQueued DEF QueuedIn
<1>4. \A t \in Tag : k \notin RunningTasks[t]
  <2> TAKE t \in Tag
  <2>1. \A w \in RunningFor(t) : w \in Worker /\ pc[w] = "run" BY DEF RunningFor
  <2>2. \A w \in RunningFor(t) : job[w][2] # k BY <2>1 DEF TasksPlaced
  <2>3. RunningTasks[t] = {job[w][2] : w \in RunningFor(t)} BY DEF RunningTasks
  <2> QED BY <2>2, <2>3
<1> QED BY <1>1, <1>3, <1>4 DEF TaskPool!Fresh

LEMMA PushRefines ==
    ASSUME IInv, TasksPlaced, NEW tag \in Tag, NEW k \in Task, push_to_tag(tag, k)
    PROVE  TaskPool!Next
<1>1. RunningTasks' = RunningTasks BY PushRuns, SameRunning, RunningTasksSame
<1>2. status[k] = "new" /\ TaskPool!Fresh(k) BY PushTasks, NewIsFresh
<1>3. status \in [Task -> Statuses] BY DEF IInv, TypeOK, Statuses
<1>4. ASSUME sched'.Queue = sched.Queue, status' = [status EXCEPT ![k] = "broken"]
      PROVE  TaskPool!Next
  <2>1. Settled' = Settled \cup {k} BY <1>3, <1>4 DEF Settled
  <2>2. TaskPool!Reject(k) BY <1>1, <1>2, <1>4, <2>1 DEF TaskPool!Reject
  <2> QED BY <2>2 DEF TaskPool!Next
<1>5. ASSUME sched'.Queue = [sched.Queue EXCEPT ![tag] = Append(@, k)],
             status' = [status EXCEPT ![k] = "queued"]
      PROVE  TaskPool!Next
  <2>1. Settled' = Settled BY <1>2, <1>3, <1>5 DEF Settled
  <2>2. TaskPool!Accept(tag, k) BY <1>1, <1>2, <1>5, <2>1 DEF TaskPool!Accept
  <2> QED BY <2>2 DEF TaskPool!Next
<1>6. ASSUME sched.Queue[tag] # <<>>,
             sched'.Queue = [sched.Queue EXCEPT ![tag] = Append(Tail(@), k)],
             status' = [j \in Task |-> IF j = k THEN "queued"
                                       ELSE IF j = Head(sched.Queue[tag]) THEN "broken"
                                       ELSE status[j]]
      PROVE  TaskPool!Next
  <2>1. PICK h : h = Head(sched.Queue[tag]) OBVIOUS
  <2>2. h \in Task /\ h # k /\ status[h] = "queued"
    <3>1. PICK Q : Q = sched.Queue OBVIOUS
    <3>2. Q \in [Tag -> Seq(Task)] BY <3>1, SchedFields DEF IInv, TypeOK
    <3>3. Distinct(Q) /\ Q[tag] # <<>> /\ h = Head(Q[tag])
      BY <1>6, <2>1, <3>1 DEF TasksPlaced
    <3>4. h \in QueuedIn(Q) BY <3>2, <3>3, TailTasks
    <3>5. h \in {j \in Task : status[j] = "queued"} BY <3>1, <3>4 DEF TasksPlaced
    <3> QED BY <1>2, <3>5
  <2>3. \A j \in Task : status'[j] = IF j = k THEN "queued"
                                     ELSE IF j = h THEN "broken" ELSE status[j]
    BY <1>6, <2>1
  <2>4. Settled' = Settled \cup {h} BY <1>2, <2>2, <2>3 DEF Settled
  <2>5. TaskPool!AcceptAndEvict(tag, k)
    BY <1>1, <1>2, <1>6, <2>1, <2>4 DEF TaskPool!AcceptAndEvict
  <2> QED BY <2>5 DEF TaskPool!Next
<1> QED BY <1>4, <1>5, <1>6, PushTasks

\* A worker takes its next task beside the tasks that the others run.
LEMMA TakesStarts ==
    ASSUME IInv, TasksPlaced, CapsHold(sched), NEW w \in Worker, OthersRun(w),
           NEW t \in Tag, Takes(w, t)
    PROVE  /\ TaskPool!StartFrom(Without(w), t)
           /\ Head(sched.Queue[t]) \in Task /\ status[Head(sched.Queue[t])] = "queued"
<1>1. PICK h : h = Head(sched.Queue[t]) OBVIOUS
<1>2. h \in Task /\ status[h] = "queued"
  <2>1. PICK Q : Q = sched.Queue OBVIOUS
  <2>2. Q \in [Tag -> Seq(Task)] BY <2>1, SchedFields DEF IInv, TypeOK
  <2>3. Distinct(Q) /\ Q[t] # <<>> /\ h = Head(Q[t]) BY <1>1, <2>1 DEF TasksPlaced, Takes
  <2>4. h \in QueuedIn(Q) BY <2>2, <2>3, TailTasks
  <2>5. h \in {j \in Task : status[j] = "queued"} BY <2>1, <2>4 DEF TasksPlaced
  <2> QED BY <2>5
<1>3. Caps[t] = 0 \/ Cardinality(Without(w)[t]) < Caps[t]
  BY WithoutOne DEF Takes, Room, CapsHold, Caps
<1>4. job'[w][1] = t /\ job'[w][2] = h /\ pc'[w] = "run" BY <1>1 DEF Takes
<1>5. RunningTasks' = [Without(w) EXCEPT ![t] = @ \cup {h}]
  BY <1>4, WithOne, RunningTasksSame
<1>6. /\ sched.Queue[t] # <<>>
      /\ sched'.Queue = [sched.Queue EXCEPT ![t] = Tail(@)]
  BY DEF Takes
<1>7. TaskPool!StartFrom(Without(w), t)
  <2>1. [u \in Tag |-> InitConfig[u].iMaxConcurrency][t] = Caps[t] BY DEF Caps
  <2>2. RunningTasks' = [Without(w) EXCEPT ![t] = @ \cup {Head(sched.Queue[t])}]
    BY <1>1, <1>5
  <2>3. Cardinality(Without(w)[t]) = TaskPool!Cardinality(Without(w)[t])
    BY Zenon DEF Cardinality, TaskPool!Cardinality
  <2> QED BY <1>3, <1>6, <2>1, <2>2, <2>3, Zenon DEF TaskPool!StartFrom
<1> QED BY <1>1, <1>2, <1>7

LEMMA WorkerRefines ==
    ASSUME IInv, TasksPlaced, CapsHold(sched), NEW w \in Worker, TaskStep(w)
    PROVE  TaskPool!Next \/ UNCHANGED TaskPool!vars
<1>1. status \in [Task -> Statuses] BY DEF IInv, TypeOK, Statuses
<1>2. OthersRun(w) BY DEF TaskStep, OthersRun
<1>3. ASSUME pc[w] # "run"
      PROVE  TaskPool!Next \/ UNCHANGED TaskPool!vars
  <2>1. Without(w) = RunningTasks /\ Ran(w) = status
    BY <1>3, WithoutOne, RunningTasksSame DEF Ran
  <2>2. CASE TakesNone(w)
    <3>1. RunningTasks' = RunningTasks
      BY <1>2, <2>1, <2>2, WithOne, RunningTasksSame DEF TakesNone
    <3>2. sched'.Queue = sched.Queue /\ status' = status BY <2>1, <2>2 DEF TakesNone
    <3>3. Settled' = Settled BY <3>2 DEF Settled
    <3> QED BY <3>1, <3>2, <3>3 DEF TaskPool!vars
  <2>3. ASSUME NEW t \in Tag, Takes(w, t) PROVE TaskPool!Next
    <3>1. PICK h : h = Head(sched.Queue[t]) OBVIOUS
    <3>2. /\ TaskPool!StartFrom(RunningTasks, t) /\ h \in Task /\ status[h] = "queued"
      BY <1>2, <2>1, <2>3, <3>1, TakesStarts
    <3>3. status' = [status EXCEPT ![h] = "running"] BY <2>1, <2>3, <3>1 DEF Takes
    <3>4. Settled' = Settled BY <1>1, <3>2, <3>3 DEF Settled
    <3> QED BY <3>2, <3>4 DEF TaskPool!Next, TaskPool!Start
  <2> QED BY <2>2, <2>3 DEF TaskStep
<1>4. ASSUME pc[w] = "run"
      PROVE  TaskPool!Next
  <2>1. PICK u \in Tag, k \in Task : u = job[w][1] /\ k = job[w][2] BY <1>4, FinishType
  <2>2. /\ Without(w) = [RunningTasks EXCEPT ![u] = @ \ {k}]
        /\ Ran(w) = [status EXCEPT ![k] = "done"]
    BY <1>4, <2>1, WithoutOne, RunningTasksSame DEF Ran
  <2>3. k \in RunningTasks[u] /\ status[k] = "running"
    <3>1. w \in RunningFor(u) BY <1>4, <2>1 DEF RunningFor
    <3>2. RunningTasks[u] = {job[v][2] : v \in RunningFor(u)} BY DEF RunningTasks
    <3> QED BY <1>4, <2>1, <3>1, <3>2 DEF TasksPlaced
  <2>4. CASE TakesNone(w)
    <3>1. RunningTasks' = Without(w)
      BY <1>2, <2>4, WithOne, RunningTasksSame DEF TakesNone
    <3>2. sched'.Queue = sched.Queue /\ status' = [status EXCEPT ![k] = "done"]
      BY <2>2, <2>4 DEF TakesNone
    <3>3. Settled' = Settled \cup {k} BY <1>1, <3>2 DEF Settled
    <3>4. TaskPool!Finish(u, k) BY <2>2, <2>3, <3>1, <3>2, <3>3 DEF TaskPool!Finish
    <3> QED BY <2>3, <3>4 DEF TaskPool!Next
  <2>5. ASSUME NEW t \in Tag, Takes(w, t) PROVE TaskPool!Next
    <3>1. PICK h : h = Head(sched.Queue[t]) OBVIOUS
    <3>2. /\ TaskPool!StartFrom(Without(w), t) /\ h \in Task /\ status[h] = "queued"
      BY <1>2, <2>5, <3>1, TakesStarts
    <3>3. status' = [[status EXCEPT ![k] = "done"] EXCEPT ![h] = "running"]
      BY <2>2, <2>5, <3>1 DEF Takes
    <3>4. h # k BY <2>3, <3>2
    <3>5. \A j \in Task : status'[j] = IF j = h THEN "running"
                                       ELSE IF j = k THEN "done" ELSE status[j]
      BY <1>1, <3>3
    <3>6. Settled' = Settled \cup {k} BY <3>2, <3>4, <3>5 DEF Settled
    <3>7. TaskPool!Finish(u, k) BY <2>2, <2>3, <3>2, <3>6 DEF TaskPool!Finish
    <3> QED BY <2>3, <3>7 DEF TaskPool!Next
  <2> QED BY <2>4, <2>5 DEF TaskStep
<1> QED BY <1>3, <1>4

LEMMA ClearRefines ==
    ASSUME IInv, TasksPlaced, clear
    PROVE  TaskPool!Next
<1>1. /\ sched \in Sched /\ sched' = Cleared(sched) /\ UNCHANGED <<pc, job>>
      /\ status' = [k \in Task |-> IF status[k] = "queued" THEN "broken" ELSE status[k]]
  BY DEF clear, threadVars, IInv, TypeOK
<1>2. sched'.Queue = [t \in Tag |-> <<>>] BY <1>1, ClearedQueue
<1>3. RunningTasks' = RunningTasks BY <1>1, SameRunning, RunningTasksSame DEF SameRuns
<1>4. Settled' = Settled \cup {k \in Task : status[k] = "queued"} BY <1>1 DEF Settled
<1>5. Settled' = Settled \cup UNION {TaskPool!Waiting(t) : t \in Tag}
  BY <1>4, WaitingQueued DEF TasksPlaced
<1>6. TaskPool!Clear BY <1>2, <1>3, <1>5 DEF TaskPool!Clear
<1> QED BY <1>6 DEF TaskPool!Next

LEMMA QuietRefines ==
    ASSUME Quiet
    PROVE  UNCHANGED TaskPool!vars
<1>1. RunningTasks' = RunningTasks BY SameRunning, RunningTasksSame DEF Quiet
<1>2. sched'.Queue = sched.Queue /\ Settled' = Settled BY DEF Quiet, Settled
<1> QED BY <1>1, <1>2 DEF TaskPool!vars

LEMMA InitRefines == Init => TaskPool!Init
<1> SUFFICES ASSUME Init PROVE TaskPool!Init
  OBVIOUS
<1>1. sched.Queue = [t \in Tag |-> <<>>]
  <2>1. InitConfig \in [Tag -> TagConfig] /\ InitOrder \in Seq(Tag) BY PoolAssumption
  <2> QED BY <2>1, EmptyKept DEF Init
<1>2. \A w \in Worker : pc[w] # "run"
  <2>1. \E place : pc = [w \in Worker |-> IF place[w] = 0 THEN "free" ELSE "start"]
    BY DEF Init
  <2> QED BY <2>1
<1>3. \A t \in Tag : RunningFor(t) = {} BY <1>2 DEF RunningFor
<1>4. RunningTasks = [t \in Tag |-> {}] BY <1>3 DEF RunningTasks
<1>5. Settled = {} BY DEF Init, Settled
<1> QED BY <1>1, <1>4, <1>5 DEF TaskPool!Init

\* Seen without its threads, the pool is a KTaskPool, for any threads, tags, tasks and
\* calls: each tag is served first in first out, a task is started once and by one thread,
\* never above the cap of its tag, and a task that does not run was rejected, evicted by a
\* newer one of its tag, or cleared.  A changed cap is excluded, as KTaskPool has one.
THEOREM PoolImplementsTaskPool ==
    ASSUME CapsKept
    PROVE  Spec => ImplementsTaskPool
<1>1. Init => /\ CapsHold(sched) /\ WellKept(sched) /\ TasksPlaced
              /\ TaskPool!Init
  BY CapsInit, KeptInit, PlacedInit, InitRefines
<1>2. /\ IInv /\ CapsHold(sched) /\ [Next]_vars => CapsHold(sched')
      /\ IInv /\ WellKept(sched) /\ [Next]_vars => WellKept(sched')
      /\ IInv /\ WellKept(sched) /\ TasksPlaced /\ [Next]_vars => TasksPlaced'
  BY CapsNext, KeptNext, PlacedNext
<1>3. IInv /\ CapsHold(sched) /\ WellKept(sched) /\ TasksPlaced /\ [Next]_vars
        => [TaskPool!Next]_(TaskPool!vars)
  BY StepKinds, PushRefines, WorkerRefines, ClearRefines, QuietRefines
<1>4. /\ CapsHold(sched') <=> CapsHold(sched)'
      /\ WellKept(sched') <=> WellKept(sched)'
  BY DEF CapsHold, WellKept, Backlog, Registered
<1> QED BY <1>1, <1>2, <1>3, <1>4, Invariance, PTL DEF Spec, ImplementsTaskPool, TaskPool!Spec

-----------------------------------------------------------------------------
\* stop(false) drains the queue

\* a worker that looks for a task before it ends
Looking == {"start", "run", "wait", "woken"}

\* While a whole pool is stopped, nobody is told to abort and the queue is open; and as long
\* as one of the tasks it found in the queue is still there, a worker is left to look for it:
\* a worker leaves only when every tag with tasks is at its cap, so others run those.
Draining ==
    /\ \A k \in toDrain.tasks : status[k] # "new"
    /\ toDrain.whole =>
         /\ ma_interrupt /\ ~sched.m_bQueuePaused
         /\ \A w \in Worker : pc[w] # "free" => abort[w] = "None"
         /\ (\E k \in toDrain.tasks : status[k] = "queued") => \E w \in Worker : pc[w] \in Looking

\* a task that left the queue does not return
Ages == \A k \in Task : status[k] # "new" =>
            status'[k] # "new" /\ (status'[k] = "queued" => status[k] = "queued")

LEMMA DrainKeeps ==
    ASSUME TypeOK, Draining, UNCHANGED <<toDrain, ma_interrupt>>, Ages,
           toDrain.whole => ~sched'.m_bQueuePaused,
           ma_interrupt => \A v \in Worker : pc'[v] # "free" =>
                               pc[v] # "free" /\ (abort[v] = "None" => abort'[v] = "None"),
           ma_interrupt /\ toDrain.whole /\ (\E v \in Worker : pc[v] \in Looking)
               /\ (\E k \in Task : status'[k] = "queued") => \E v \in Worker : pc'[v] \in Looking
    PROVE  Draining'
<1>1. toDrain.tasks \subseteq Task BY DEF TypeOK
<1>2. \A k \in toDrain.tasks : status'[k] # "new" /\ (status'[k] = "queued" => status[k] = "queued")
  BY <1>1 DEF Draining, Ages
<1>3. ASSUME toDrain.whole
      PROVE  /\ ma_interrupt /\ ~sched'.m_bQueuePaused
             /\ \A w \in Worker : pc'[w] # "free" => abort'[w] = "None"
             /\ (\E k \in toDrain.tasks : status'[k] = "queued") =>
                   \E w \in Worker : pc'[w] \in Looking
  BY <1>1, <1>2, <1>3 DEF Draining
<1> QED BY <1>2, <1>3 DEF Draining

\* the steps that leave the queues and the workers alone, but for notifications
LEMMA DrainSame ==
    ASSUME TypeOK, Draining, UNCHANGED <<toDrain, ma_interrupt, status, abort>>,
           toDrain.whole => ~sched'.m_bQueuePaused,
           UNCHANGED pc \/ pc' \in AfterNotifyOne \/ pc' = AfterNotifyAll(pc)
    PROVE  Draining'
<1>1. \A v \in Worker : pc'[v] = pc[v] \/ (pc[v] = "wait" /\ pc'[v] = "woken")
  <2>1. CASE UNCHANGED pc BY <2>1
  <2>2. CASE pc' \in AfterNotifyOne \/ pc' = AfterNotifyAll(pc)
    BY <2>2, NotifyOneWakes, NotifyAllWakes DEF Wakes
  <2> QED BY <2>1, <2>2
<1>2. /\ \A v \in Worker : pc'[v] # "free" => pc[v] # "free"
      /\ (\E v \in Worker : pc[v] \in Looking) => \E v \in Worker : pc'[v] \in Looking
  BY <1>1 DEF Looking
<1>3. Ages BY DEF Ages
<1> QED BY <1>2, <1>3, DrainKeeps

LEMMA WorkerPauses ==
    ASSUME IInv, WellKept(sched), NEW w \in Worker, WorkerStep(w) \/ SpuriousWakeup(w)
    PROVE  sched'.m_bQueuePaused = sched.m_bQueuePaused
<1>0. sched \in Sched BY DEF IInv, TypeOK
<1>1. PICK r : r = sched_dequeue(sched) OBVIOUS
<1>2. r.sched.m_bQueuePaused = sched.m_bQueuePaused
  BY <1>0, <1>1, DequeueSteps DEF DequeueStep
<1>3. CASE WorkerStart(w) \/ WorkerWake(w)
  <2>1. sched' = r.sched \/ sched' = sched
    BY <1>1, <1>3 DEF WorkerStart, WorkerWake, TakeTask, GoIdle
  <2> QED BY <1>2, <2>1
<1>4. CASE WorkerFinish(w)
  <2>1. PICK done : done = sched_task_done(sched, job[w][1]) OBVIOUS
  <2>2. PICK next : next = sched_dequeue(done.sched) OBVIOUS
  <2>3. sched' = done.sched \/ sched' = next.sched
    BY <1>4, <2>1, <2>2 DEF WorkerFinish, TakeTask, GoIdle
  <2>4. PICK t \in Tag : t = job[w][1] BY <1>4, FinishType DEF WorkerFinish
  <2>5. /\ done.sched \in Sched /\ WellKept(done.sched)
        /\ done.sched.m_bQueuePaused = sched.m_bQueuePaused
    <3>1. done = sched_task_done(sched, t) BY <2>1, <2>4
    <3>2. done.sched \in Sched BY <1>4, <2>1, FinishType DEF WorkerFinish
    <3>3. WellKept(done.sched) BY <1>0, <3>1, TaskDoneKept
    <3>4. done.sched.m_bQueuePaused = sched.m_bQueuePaused BY <1>0, <3>1, TaskDoneQueue
    <3> QED BY <3>2, <3>3, <3>4
  <2>6. next.sched.m_bQueuePaused = done.sched.m_bQueuePaused
    BY <2>2, <2>5, DequeueSteps DEF DequeueStep
  <2> QED BY <2>3, <2>5, <2>6
<1>5. CASE WorkerBaton(w) \/ WorkerExit(w) \/ SpuriousWakeup(w)
  BY <1>5 DEF WorkerBaton, WorkerExit, SpuriousWakeup
<1> QED BY <1>3, <1>4, <1>5 DEF WorkerStep

LEMMA WorkerDrains ==
    ASSUME IInv, WellKept(sched), TasksPlaced, Draining,
           NEW w \in Worker, WorkerStep(w) \/ SpuriousWakeup(w)
    PROVE  Draining'
<1>1. UNCHANGED <<toDrain, ma_interrupt>> /\ pc[w] # "free" /\ pc[w] \in PC
  BY DEF WorkerStep, WorkerStart, WorkerFinish, WorkerWake, WorkerBaton, WorkerExit,
         SpuriousWakeup, history, PC
<1>2. \A v \in Worker : abort'[v] = abort[v] \/ abort'[v] = "None"
  <2>1. UNCHANGED abort \/ abort' = [abort EXCEPT ![w] = "None"]
    BY DEF WorkerStep, WorkerStart, WorkerFinish, WorkerWake, WorkerBaton, WorkerExit,
           SpuriousWakeup
  <2> QED BY <2>1 DEF IInv, TypeOK
<1>3. TaskStep(w) BY TaskSteps
<1>4. /\ \A v \in Worker : v # w => pc'[v] = pc[v] \/ (pc[v] = "wait" /\ pc'[v] = "woken")
      /\ (\E t \in Tag : Takes(w, t)) \/ TakesNone(w)
  BY <1>3 DEF TaskStep
<1>5. status \in [Task -> Statuses] /\ TypeOK BY DEF IInv, TypeOK, Statuses
<1>6. PICK ran : ran = Ran(w) OBVIOUS
<1>7. ran \in [Task -> Statuses] /\ \A k \in Task : ran[k] = status[k] \/ ran[k] = "done"
  BY <1>5, <1>6 DEF Ran, Statuses
<1>8. \A k \in Task : status'[k] = ran[k] \/ status'[k] = "running"
  <2>1. CASE TakesNone(w) BY <1>6, <2>1 DEF TakesNone
  <2>2. ASSUME NEW t \in Tag, Takes(w, t)
        PROVE  \A k \in Task : status'[k] = ran[k] \/ status'[k] = "running"
    <3>1. PICK h : h = Head(sched.Queue[t]) OBVIOUS
    <3>2. status' = [ran EXCEPT ![h] = "running"] BY <1>6, <2>2, <3>1 DEF Takes
    <3> QED BY <1>7, <3>2
  <2> QED BY <1>4, <2>1, <2>2
<1>9. Ages /\ \A k \in Task : status'[k] = "queued" => status[k] = "queued"
  BY <1>7, <1>8 DEF Ages
<1>10. ASSUME ma_interrupt, toDrain.whole, NEW v \in Worker, pc[v] \in Looking,
              NEW k \in Task, status'[k] = "queued"
       PROVE  \E u \in Worker : pc'[u] \in Looking
  <2>1. CASE v # w BY <1>4, <1>10, <2>1 DEF Looking
  <2>2. CASE pc[w] = "wait"
    <3>1. pc' = [pc EXCEPT ![w] = "woken"]
      BY <2>2 DEF WorkerStep, WorkerStart, WorkerFinish, WorkerWake, WorkerBaton, WorkerExit,
                  SpuriousWakeup
    <3> QED BY <1>5, <3>1 DEF Looking, TypeOK
  <2>3. CASE pc[w] \in {"start", "run", "woken"}
    <3>1. CASE \E t \in Tag : Takes(w, t) BY <3>1 DEF Takes, Looking
    <3>2. CASE TakesNone(w)
      <4>1. abort[w] = "None" /\ ~sched.m_bQueuePaused BY <1>1, <1>10 DEF Draining
      <4>2. \A t \in Tag : sched.Queue[t] # <<>> => ~Room(w, t)
        BY <2>3, <3>2, <4>1 DEF TakesNone
      <4>3. k \in QueuedIn(sched.Queue) BY <1>9, <1>10 DEF TasksPlaced
      <4>4. PICK t \in Tag : Positions(sched.Queue[t], k) # {} BY <4>3 DEF QueuedIn
      <4>5. sched.Queue[t] # <<>> BY <4>4 DEF Positions
      <4>6. PICK cap \in Nat : cap = sched.Config[t].iMaxConcurrency
        BY SchedFields DEF TagConfig, IInv, TypeOK
      <4>7. PICK A : A = RunningFor(t) \ {w} OBVIOUS
      <4>8. cap # 0 /\ ~(Cardinality(A) < cap) BY <4>2, <4>5, <4>6, <4>7 DEF Room
      <4>9. A # {}
        <5>1. ASSUME A = {} PROVE FALSE
          <6>1. Cardinality(A) = 0 BY <5>1, FS_EmptySet
          <6> QED BY <4>8, <6>1
        <5> QED BY <5>1
      <4>10. PICK u \in Worker : u # w /\ pc[u] = "run" BY <4>7, <4>9 DEF RunningFor
      <4> QED BY <1>4, <4>10 DEF Looking
    <3> QED BY <1>4, <3>1, <3>2
  <2> QED BY <1>10, <2>1, <2>2, <2>3 DEF Looking
<1>11. toDrain.whole => ~sched'.m_bQueuePaused BY WorkerPauses DEF Draining
<1>12. \A v \in Worker : pc'[v] # "free" =>
            pc[v] # "free" /\ (abort[v] = "None" => abort'[v] = "None")
  BY <1>1, <1>2, <1>4
<1> QED BY <1>1, <1>5, <1>9, <1>10, <1>11, <1>12, DrainKeeps

LEMMA PushDrains ==
    ASSUME IInv, TasksPlaced, Draining, NEW tag \in Tag, NEW k \in Task, push_to_tag(tag, k)
    PROVE  Draining'
<1>1. PICK r : r = sched_enqueue(sched, tag, k) OBVIOUS
<1>2. UNCHANGED <<toDrain, ma_interrupt>> /\ sched' = r.sched
  BY <1>1 DEF push_to_tag
<1>3. TypeOK /\ sched \in Sched /\ status \in [Task -> Statuses] BY DEF IInv, TypeOK, Statuses
<1>4. r.sched.m_bQueuePaused = sched.m_bQueuePaused BY <1>1, <1>3, EnqueueQueue
<1>5. ma_interrupt => UNCHANGED threadVars BY DEF push_to_tag, bookkeep_enqueue
<1>6. Ages
  <2>1. /\ status[k] = "new"
        /\ \A j \in Task : j # k => status'[j] = status[j] \/ status'[j] = "broken"
    <3>1. status[k] = "new" BY PushTasks
    <3>2. /\ r.bAccepted => status' = [j \in Task |-> CASE j = k -> "queued"
                                                        [] r.dropped = <<j>> -> "broken"
                                                        [] OTHER -> status[j]]
          /\ ~r.bAccepted => status' = [status EXCEPT ![k] = "broken"]
      BY <1>1 DEF push_to_tag
    <3>3. ASSUME NEW j \in Task, j # k PROVE status'[j] = status[j] \/ status'[j] = "broken"
      <4>1. CASE ~r.bAccepted BY <1>3, <3>2, <3>3, <4>1
      <4>2. CASE r.bAccepted /\ r.dropped = <<j>> BY <3>2, <3>3, <4>2
      <4>3. CASE r.bAccepted /\ r.dropped # <<j>> BY <3>2, <3>3, <4>3
      <4> QED BY <4>1, <4>2, <4>3
    <3> QED BY <3>1, <3>3
  <2> QED BY <2>1 DEF Ages
<1>7. toDrain.whole => ~sched'.m_bQueuePaused BY <1>2, <1>4 DEF Draining
<1>8. ma_interrupt => UNCHANGED <<pc, abort>> BY <1>5 DEF threadVars
<1> QED BY <1>2, <1>3, <1>6, <1>7, <1>8, DrainKeeps

LEMMA StopDrains ==
    ASSUME IInv, NEW bKill \in Kills, StopBegin(bKill)
    PROVE  Draining'
<1>1. /\ ma_interrupt' = TRUE /\ UNCHANGED <<sched, pc, slot, status>>
      /\ ~bKill => abort' = abort
      /\ bKill \/ size = 0 => toDrain' = NothingToDrain
      /\ ~(bKill \/ size = 0) =>
           toDrain' = [tasks |-> {k \in Task : status[k] = "queued"},
                       whole |-> /\ ~sched.m_bQueuePaused
                                 /\ \A w \in Worker : abort[w] # "Resize"]
      /\ stopPc = "idle"
  BY DEF StopBegin
<1>2. CASE bKill \/ size = 0 BY <1>1, <1>2 DEF Draining, NothingToDrain
<1>3. CASE ~(bKill \/ size = 0)
  <2>1. /\ toDrain'.tasks = {k \in Task : status[k] = "queued"}
        /\ toDrain'.whole => ~sched.m_bQueuePaused /\ \A w \in Worker : abort[w] # "Resize"
    BY <1>1, <1>3
  <2>2. \A k \in toDrain'.tasks : status'[k] # "new" BY <1>1, <2>1
  <2>3. ~ma_interrupt BY <1>1 DEF IInv, StopPhase
  <2>4. /\ \A v \in Worker : slot[v] # 0 => abort[v] = "None" /\ pc[v] \in Looking
        /\ \A v \in Worker : pc[v] # "free" => (slot[v] = 0 <=> abort[v] = "Resize")
    BY <2>3 DEF IInv, ThreadInv, SlotsLive, EveryThreadAccountedFor, Looking
  <2>5. PICK v \in Worker : slot[v] = 1
    <3>1. size \in Nat /\ 1 \in 1 .. size BY <1>3 DEF IInv, TypeOK
    <3> QED BY <3>1 DEF IInv, ThreadInv, EveryThreadAccountedFor
  <2>6. pc'[v] \in Looking BY <1>1, <2>4, <2>5
  <2>7. toDrain'.whole => \A u \in Worker : pc'[u] # "free" => abort'[u] = "None"
    BY <1>1, <1>3, <2>1, <2>4
  <2> QED BY <1>1, <2>1, <2>2, <2>6, <2>7 DEF Draining
<1> QED BY <1>2, <1>3

LEMMA DrainNext == IInv /\ WellKept(sched) /\ TasksPlaced /\ Draining /\ [Next]_vars => Draining'
<1> SUFFICES ASSUME IInv, WellKept(sched), TasksPlaced, Draining, [Next]_vars PROVE Draining'
  OBVIOUS
<1>0. sched \in Sched /\ TypeOK BY DEF IInv, TypeOK
<1>1. CASE UNCHANGED <<sched, status, abort, toDrain, ma_interrupt>> /\
           (UNCHANGED pc \/ pc' \in AfterNotifyOne \/ pc' = AfterNotifyAll(pc))
  BY <1>0, <1>1, DrainSame DEF Draining
<1>2. CASE NotifyPushed \/ StopNotify \/ NotifyUnpaused
  BY <1>1, <1>2 DEF NotifyPushed, StopNotify, NotifyUnpaused, history
<1>3. CASE \/ \E args \in Resizes : ResizeBegin(args)
           \/ StopJoin
           \/ \E s \in Strategies : set_strategy(s[1], s[2])
           \/ UNCHANGED vars
  BY <1>1, <1>3 DEF ResizeBegin, StopJoin, set_strategy, vars, threadVars, history
<1>4. ASSUME NEW call \in resizing, ResizeLocked(call) PROVE Draining'
  <2>1. UNCHANGED <<sched, status, toDrain, ma_interrupt>> BY <1>4 DEF ResizeLocked, history
  <2>2. ma_interrupt => UNCHANGED <<pc, abort>> BY <1>4 DEF ResizeLocked, threadVars
  <2>3. Ages BY <2>1 DEF Ages
  <2> QED BY <1>0, <2>1, <2>2, <2>3, DrainKeeps DEF Draining
<1>5. CASE StopReturn
  <2>1. toDrain' = NothingToDrain BY <1>5 DEF StopReturn
  <2> QED BY <2>1 DEF Draining, NothingToDrain
<1>6. ASSUME NEW b \in BOOLEAN, pause(b) PROVE Draining'
  <2>1. /\ UNCHANGED <<pc, abort, status, ma_interrupt>>
        /\ sched' = [sched EXCEPT !.m_bQueuePaused = b]
        /\ toDrain' = [toDrain EXCEPT !.whole = @ /\ ~b]
    BY <1>6 DEF pause, threadVars
  <2>2. sched'.m_bQueuePaused = b BY <1>0, <2>1, PausedSched
  <2>3. toDrain'.tasks = toDrain.tasks /\ (toDrain'.whole <=> toDrain.whole /\ ~b)
    BY <1>0, <2>1 DEF TypeOK
  <2> QED BY <2>1, <2>2, <2>3 DEF Draining
<1>7. CASE clear
  <2>1. /\ UNCHANGED <<pc, abort, toDrain, ma_interrupt>> /\ sched' = Cleared(sched)
        /\ status' = [k \in Task |-> IF status[k] = "queued" THEN "broken" ELSE status[k]]
    BY <1>7 DEF clear, threadVars
  <2>2. sched'.m_bQueuePaused = sched.m_bQueuePaused BY <1>0, <2>1, ClearedQueue
  <2>3. Ages BY <2>1 DEF Ages
  <2> QED BY <1>0, <2>1, <2>2, <2>3, DrainKeeps DEF Draining
<1>8. ASSUME NEW c \in Reconfigs, ConfigureTag(c[1], c[2]) PROVE Draining'
  <2>1. /\ UNCHANGED <<pc, abort, status, toDrain, ma_interrupt>>
        /\ sched' = ConfigureTagTo(sched, c[1], c[2])
    BY <1>8 DEF ConfigureTag, threadVars, history
  <2>2. c[1] \in Tag /\ c[2] \in TagConfig BY PoolAssumption
  <2>3. sched'.m_bQueuePaused = sched.m_bQueuePaused BY <1>0, <2>1, <2>2, ConfigureTagQueue
  <2> QED BY <1>0, <2>1, <2>3, DrainSame DEF Draining
<1> QED BY <1>2, <1>3, <1>4, <1>5, <1>6, <1>7, <1>8, PushDrains, WorkerDrains, StopDrains
        DEF Next

\* stop(false) drains a whole pool: of the tasks that were queued when it began none is
\* left when it returns, however the tags are capped and recapped - a worker that finds
\* every tag at its cap leaves, but those that fill the caps look again after their task.
THEOREM StopDrainsTheQueue == Spec => DrainedByStop
<1> DEFINE A == ma_interrupt /\ ~ma_interrupt' /\ toDrain.whole =>
                  \A k \in toDrain.tasks : status[k] # "queued"
<1>1. IInv /\ Draining /\ [Next]_vars => [A]_vars
  <2> SUFFICES ASSUME IInv, Draining, Next, ma_interrupt, ~ma_interrupt', toDrain.whole
               PROVE  \A k \in toDrain.tasks : status[k] # "queued"
    OBVIOUS
  <2>1. StopReturn
    BY DEF Next, push_to_tag, NotifyPushed, WorkerStep, WorkerStart, WorkerFinish,
       WorkerWake, WorkerBaton, WorkerExit, SpuriousWakeup, ResizeBegin, ResizeLocked,
       StopBegin, StopNotify, StopJoin, pause, NotifyUnpaused, clear, set_strategy,
       ConfigureTag
  <2>2. \A w \in Worker : pc[w] = "free" BY <2>1, NoThreadLeft
  <2> QED BY <2>2 DEF Draining, Looking
<1>2. Init => Draining BY DEF Init, Draining, NothingToDrain
<1>3. Init => WellKept(sched) /\ TasksPlaced BY KeptInit, PlacedInit
<1>4. /\ IInv /\ WellKept(sched) /\ [Next]_vars => WellKept(sched')
      /\ IInv /\ WellKept(sched) /\ TasksPlaced /\ [Next]_vars => TasksPlaced'
      /\ IInv /\ WellKept(sched) /\ TasksPlaced /\ Draining /\ [Next]_vars => Draining'
  BY KeptNext, PlacedNext, DrainNext
<1>5. WellKept(sched') <=> WellKept(sched)'
  BY DEF WellKept, Backlog, Registered
<1> QED BY <1>1, <1>2, <1>3, <1>4, <1>5, Invariance, PTL DEF Spec, DrainedByStop

=============================================================================
