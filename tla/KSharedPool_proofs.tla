-------------------------- MODULE KSharedPool_proofs --------------------------
(***************************************************************************)
(* For every number of threads and every limit: the used count of a        *)
(* KSharedPool is exact, a disabled pool is empty, and a pool whose limit  *)
(* only grows never holds more objects than the limit.                     *)
(***************************************************************************)
EXTENDS KSharedPool, FiniteSetTheorems, TLAPS

\* The limit is kept because, as long as nobody disables the pool or lowers the limit,
\* no object is created without a slot, and neither the dynamic maximum nor what the
\* time series remembers exceeds the ceiling.
WithinCeiling ==
    ~lax => /\ ~m_bDisabled
            /\ \A t \in Thread : pc[t] \notin {"fresh", "created"}
            /\ m_Pool + m_iPopped <= Ceiling
            /\ m_iMaxSize <= Ceiling
            /\ iIntervals => \A v \in observed : v <= Ceiling

IInv == TypeOK /\ UsedExact /\ DisabledHoldsNothing /\ WithinCeiling

-------------------------------------------------------------------------------
\* Counting: Counted and its cardinality before and after a thread moves

LEMMA CountedFinite ==
    /\ IsFiniteSet(Counted)
    /\ Cardinality(Counted) \in Nat
    /\ \A t \in Counted : Cardinality(Counted) > 0
<1>1. IsFiniteSet(Thread) BY KSharedPoolAssumption
<1>2. Counted \subseteq Thread BY DEF Counted
<1>3. IsFiniteSet(Counted) BY <1>1, <1>2, FS_Subset
<1>4. Cardinality(Counted) \in Nat BY <1>3, FS_CardinalityType
<1>5. Counted # {} => Cardinality(Counted) # 0 BY <1>3, FS_EmptySet
<1> QED BY <1>3, <1>4, <1>5

\* one thread enters or leaves the counted states, the others stay where they are
LEMMA CountedEnters ==
    ASSUME NEW t \in Thread, t \notin Counted, Counted' = Counted \cup {t}
    PROVE  Cardinality(Counted)' = Cardinality(Counted) + 1
BY CountedFinite, FS_AddElement

LEMMA CountedLeaves ==
    ASSUME NEW t \in Thread, t \in Counted, Counted' = Counted \ {t}
    PROVE  Cardinality(Counted)' = Cardinality(Counted) - 1
BY CountedFinite, FS_RemoveElement

\* a notification moves waiters only, and none of them is counted
LEMMA NotifyOneMoves ==
    ASSUME TypeOK, NEW t \in Thread, NEW to \in PC, pc[t] # "wait",
           pc' \in NotifyOne(Move(t, to))
    PROVE  /\ pc' \in [Thread -> PC]
           /\ pc'[t] = to
           /\ \A u \in Thread : u # t => \/ pc'[u] = pc[u]
                                         \/ pc[u] = "wait" /\ pc'[u] = "woken"
BY DEF NotifyOne, Move, Waiters, TypeOK, PC

LEMMA NotifyAllMoves ==
    ASSUME TypeOK, pc' = NotifyAll
    PROVE  /\ pc' \in [Thread -> PC]
           /\ \A u \in Thread : \/ pc'[u] = pc[u]
                                \/ pc[u] = "wait" /\ pc'[u] = "woken"
BY DEF NotifyAll, TypeOK, PC

\* AdjustPoolSize leaves a pool of at most the given size, and limits that the ceiling
\* covers stay covered
LEMMA AdjustPoolSizeType ==
    ASSUME TypeOK, NEW pool \in Nat, NEW popped \in Nat, AdjustPoolSize(pool, popped)
    PROVE  /\ m_Pool' \in Nat /\ m_Pool' <= pool
           /\ m_iMaxSize' \in Nat
           /\ observed' \subseteq Nat
           /\ ~iIntervals => m_iMaxSize' = m_iMaxSize
           /\ iIntervals => /\ observed' \subseteq observed \cup {popped}
                            /\ m_iMaxSize' \in observed \cup {popped, m_iMaxSize}
<1>1. Recorded(popped) \subseteq observed \cup {popped} BY DEF Recorded
<1>2. \A v \in Recorded(popped) : v \in Nat /\ v >= popped BY DEF Recorded, TypeOK
<1>3. CASE ~iIntervals
  <2>1. m_Pool' = pool /\ observed' = observed /\ m_iMaxSize' = m_iMaxSize
    BY <1>3 DEF AdjustPoolSize
  <2> QED BY <1>3, <2>1 DEF TypeOK
<1>4. CASE iIntervals /\ Grown(pool, popped)
  BY <1>1, <1>2, <1>4 DEF Grown, TypeOK
<1>5. CASE iIntervals /\ Resized(pool, popped)
  <2>1. PICK max \in Recorded(popped) :
          /\ m_iMaxSize' = max
          /\ observed' = {v \in Recorded(popped) : v <= max}
          /\ m_Pool' = IF max < pool + popped THEN max - popped ELSE pool
    BY <1>5 DEF Resized
  <2>2. max \in Nat /\ max >= popped BY <1>2
  <2>3. m_Pool' \in Nat /\ m_Pool' <= pool BY <2>1, <2>2
  <2> QED BY <1>1, <1>2, <1>5, <2>1, <2>2, <2>3
<1> QED BY <1>3, <1>4, <1>5 DEF AdjustPoolSize, TypeOK

-------------------------------------------------------------------------------

LEMMA InitIInv == Init => IInv
<1> SUFFICES ASSUME Init PROVE IInv OBVIOUS
<1>1. TypeOK
  <2>1. iIntervals \in BOOLEAN BY KSharedPoolAssumption, Zenon DEF Init
  <2>2. MaxSize \in Nat /\ MaxGets \in Nat /\ MaxCalls \in Nat
    BY KSharedPoolAssumption
  <2>3. gets \in [Thread -> 0 .. MaxGets] /\ calls \in 0 .. MaxCalls BY <2>2 DEF Init
  <2>4. pc \in [Thread -> PC] BY DEF Init, PC
  <2>5. /\ m_bDisabled \in BOOLEAN /\ lax \in BOOLEAN
        /\ m_Pool \in Nat /\ m_iPopped \in Nat /\ observed \subseteq Nat
        /\ m_iMaxSize \in Nat /\ m_iAbsoluteMaxSize \in Nat
    BY <2>2 DEF Init
  <2> QED BY <2>1, <2>3, <2>4, <2>5 DEF TypeOK
<1>2. UsedExact
  <2>1. Counted = {} BY DEF Init, Counted
  <2> QED BY <2>1, FS_EmptySet DEF UsedExact, Init
<1>3. DisabledHoldsNothing BY DEF Init, DisabledHoldsNothing
<1>4. WithinCeiling BY KSharedPoolAssumption DEF Init, WithinCeiling, Ceiling
<1> QED BY <1>1, <1>2, <1>3, <1>4 DEF IInv

\* A step that changes where one thread is, and nothing that is counted
LEMMA MoveKeepsIInv ==
    ASSUME IInv, NEW t \in Thread, NEW to \in PC, pc' = Move(t, to),
           pc[t] \in {"reserved", "failed", "hold"} <=> to \in {"reserved", "failed", "hold"},
           to \in {"fresh", "created"} => m_bDisabled \/ pc[t] = "fresh",
           gets' \in [Thread -> 0 .. MaxGets],
           UNCHANGED <<iIntervals, m_Pool, m_iPopped, limits, m_bDisabled, observed,
                       calls, lax>>
    PROVE  IInv'
<1>1. TypeOK' BY DEF IInv, TypeOK, Move, limits
<1>2. UsedExact'
  <2>1. Counted' = Counted BY DEF IInv, TypeOK, Counted, Move
  <2> QED BY <2>1 DEF IInv, UsedExact
<1>3. DisabledHoldsNothing' BY DEF IInv, DisabledHoldsNothing
<1>4. WithinCeiling' BY DEF IInv, WithinCeiling, Ceiling, limits, Move, TypeOK
<1> QED BY <1>1, <1>2, <1>3, <1>4 DEF IInv

\* The steps by which a get() obtains a slot, with or without an object
LEMMA TakesSlot ==
    ASSUME IInv, NEW t \in Thread, NEW to \in {"reserved", "hold"}, NEW pool \in Nat,
           Evaluates(t), ~m_bDisabled, pool + m_iPopped + 1 <= Ceiling \/ lax,
           m_iPopped' = m_iPopped + 1, AdjustPoolSize(pool, m_iPopped + 1),
           pc' = Move(t, to),
           UNCHANGED <<iIntervals, m_iAbsoluteMaxSize, m_bDisabled, gets, calls, lax>>
    PROVE  IInv'
<1> DEFINE popped == m_iPopped + 1
<1>1. popped \in Nat BY DEF IInv, TypeOK
<1>2. /\ m_Pool' \in Nat /\ m_Pool' <= pool
      /\ m_iMaxSize' \in Nat
      /\ observed' \subseteq Nat
      /\ ~iIntervals => m_iMaxSize' = m_iMaxSize
      /\ iIntervals => /\ observed' \subseteq observed \cup {popped}
                       /\ m_iMaxSize' \in observed \cup {popped, m_iMaxSize}
  BY <1>1, AdjustPoolSizeType DEF IInv
<1>3. TypeOK' BY <1>1, <1>2 DEF IInv, TypeOK, Move, PC
<1>4. UsedExact'
  <2>1. t \notin Counted /\ Counted' = Counted \cup {t}
    BY DEF IInv, TypeOK, Counted, Evaluates, Move
  <2> QED BY <2>1, CountedEnters DEF IInv, UsedExact
<1>5. DisabledHoldsNothing' BY DEF DisabledHoldsNothing
<1>6. WithinCeiling'
  <2> SUFFICES ASSUME ~lax PROVE /\ ~m_bDisabled'
                                 /\ \A u \in Thread : pc'[u] \notin {"fresh", "created"}
                                 /\ m_Pool' + m_iPopped' <= Ceiling'
                                 /\ m_iMaxSize' <= Ceiling'
                                 /\ iIntervals' => \A v \in observed' : v <= Ceiling'
    BY DEF WithinCeiling
  <2>1. /\ \A u \in Thread : pc[u] \notin {"fresh", "created"}
        /\ m_iMaxSize <= Ceiling
        /\ iIntervals => \A v \in observed : v <= Ceiling
    BY DEF IInv, WithinCeiling
  <2>2. Ceiling' = Ceiling /\ Ceiling \in Nat BY <1>2 DEF Ceiling, IInv, TypeOK
  <2>3. popped <= Ceiling BY <1>1, <2>2 DEF IInv, TypeOK
  <2>4. m_Pool' + m_iPopped' <= Ceiling'
    <3>1. m_iPopped \in Nat BY DEF IInv, TypeOK
    <3>2. pool + m_iPopped + 1 <= Ceiling /\ m_iPopped' = m_iPopped + 1 OBVIOUS
    <3>3. m_Pool' \in Nat /\ m_Pool' <= pool BY <1>2
    <3>4. \A a, b, c, d \in Nat : a <= b /\ b + c + 1 <= d => a + (c + 1) <= d
      OBVIOUS
    <3>5. m_Pool' + (m_iPopped + 1) <= Ceiling BY <2>2, <3>1, <3>2, <3>3, <3>4
    <3> QED BY <2>2, <3>2, <3>5
  <2>5. \A u \in Thread : pc'[u] \notin {"fresh", "created"}
    BY <2>1 DEF Move, IInv, TypeOK
  <2>6. m_iMaxSize' <= Ceiling' BY <1>2, <2>1, <2>2, <2>3
  <2>7. iIntervals' => \A v \in observed' : v <= Ceiling'
    BY <1>2, <2>1, <2>2, <2>3
  <2> QED BY <2>4, <2>5, <2>6, <2>7
<1> QED BY <1>3, <1>4, <1>5, <1>6 DEF IInv

LEMMA GetStepIInv ==
    ASSUME IInv, NEW t \in Thread, Get(t) \/ GetStep(t)
    PROVE  IInv'
<1>1. CASE Get(t)
  <2> DEFINE to == IF m_bDisabled THEN "fresh" ELSE "lock"
  <2>1. to \in PC /\ pc' = Move(t, to) /\ pc[t] = "idle" BY <1>1 DEF Get, PC
  <2>2. gets' \in [Thread -> 0 .. MaxGets]
    BY <1>1, KSharedPoolAssumption DEF Get, IInv, TypeOK
  <2>3. UNCHANGED <<iIntervals, m_Pool, m_iPopped, limits, m_bDisabled, observed,
                    calls, lax>>
    BY <1>1 DEF Get
  <2> HIDE DEF to
  <2>4. to \in {"fresh", "lock"} /\ (to = "fresh" => m_bDisabled) BY DEF to
  <2> QED BY <2>1, <2>2, <2>3, <2>4, MoveKeepsIInv
<1>2. CASE WaitDisabled(t)
  BY <1>2, MoveKeepsIInv DEF WaitDisabled, Evaluates, PC, IInv, TypeOK
<1>3. CASE WaitPop(t)
  <2>1. m_Pool - 1 \in Nat BY <1>3 DEF WaitPop, IInv, TypeOK
  <2>2. (m_Pool - 1) + m_iPopped + 1 <= Ceiling \/ lax
    BY <2>1 DEF IInv, WithinCeiling, TypeOK, Ceiling
  <2> QED BY <1>3, <2>1, <2>2, TakesSlot DEF WaitPop
<1>4. CASE WaitReserve(t)
  <2>1. 0 + m_iPopped + 1 <= Ceiling \/ lax
    BY <1>4 DEF WaitReserve, Room, IInv, WithinCeiling, TypeOK, Ceiling
  <2> QED BY <1>4, <2>1, TakesSlot DEF WaitReserve
<1>5. CASE WaitBlock(t)
  BY <1>5, MoveKeepsIInv DEF WaitBlock, Evaluates, PC, IInv, TypeOK
<1>6. CASE Create(t)
  BY <1>6, MoveKeepsIInv DEF Create, PC, IInv, TypeOK
<1>7. CASE ReleaseSlotOnFailure(t)
  <2>1. pc[t] = "failed" /\ m_iPopped' = m_iPopped - 1 /\ pc' \in NotifyOne(Move(t, "idle"))
        /\ UNCHANGED <<iIntervals, m_Pool, limits, m_bDisabled, observed, gets, calls, lax>>
    BY <1>7 DEF ReleaseSlotOnFailure
  <2>2. /\ pc' \in [Thread -> PC] /\ pc'[t] = "idle"
        /\ \A u \in Thread : u # t => \/ pc'[u] = pc[u]
                                      \/ pc[u] = "wait" /\ pc'[u] = "woken"
    BY <2>1, NotifyOneMoves DEF IInv, PC
  <2>3. t \in Counted /\ Counted' = Counted \ {t} BY <2>1, <2>2 DEF Counted
  <2>4. m_iPopped > 0 BY <2>3, CountedFinite DEF IInv, UsedExact
  <2>5. TypeOK' BY <2>1, <2>2, <2>4 DEF IInv, TypeOK, limits
  <2>6. UsedExact' BY <2>1, <2>3, CountedLeaves DEF IInv, UsedExact
  <2>7. DisabledHoldsNothing' BY <2>1 DEF IInv, DisabledHoldsNothing
  <2>8. WithinCeiling'
    BY <2>1, <2>2, <2>4 DEF IInv, WithinCeiling, Ceiling, limits, TypeOK
  <2> QED BY <2>5, <2>6, <2>7, <2>8 DEF IInv
<1>8. CASE CountFresh(t)
  <2>1. t \notin Counted /\ Counted' = Counted \cup {t}
    BY <1>8 DEF CountFresh, Counted, Move, IInv, TypeOK
  <2>2. lax BY <1>8 DEF CountFresh, IInv, WithinCeiling
  <2>3. TypeOK' BY <1>8 DEF CountFresh, IInv, TypeOK, Move, PC, limits
  <2>4. UsedExact' BY <1>8, <2>1, CountedEnters DEF CountFresh, IInv, UsedExact
  <2>5. DisabledHoldsNothing' BY <1>8 DEF CountFresh, IInv, DisabledHoldsNothing
  <2>6. WithinCeiling' BY <1>8, <2>2 DEF CountFresh, WithinCeiling
  <2> QED BY <2>3, <2>4, <2>5, <2>6 DEF IInv
<1> QED BY <1>1, <1>2, <1>3, <1>4, <1>5, <1>6, <1>7, <1>8 DEF GetStep, Wait

LEMMA DeleterIInv ==
    ASSUME IInv, NEW t \in Thread, Deleter(t)
    PROVE  IInv'
<1>1. t \in Counted BY DEF Deleter, Counted
<1>2. m_iPopped > 0 /\ m_iPopped \in Nat
  BY <1>1, CountedFinite DEF IInv, UsedExact, TypeOK
<1>3. m_iPopped' = m_iPopped - 1 /\ pc' \in NotifyOne(Move(t, "idle"))
  BY <1>2 DEF Deleter
<1>4. /\ pc' \in [Thread -> PC] /\ pc'[t] = "idle"
      /\ \A u \in Thread : u # t => \/ pc'[u] = pc[u]
                                    \/ pc[u] = "wait" /\ pc'[u] = "woken"
  BY <1>3, NotifyOneMoves DEF IInv, PC, Deleter
<1>5. /\ UNCHANGED <<iIntervals, limits, m_bDisabled, observed, gets, calls, lax>>
      /\ m_Pool' = IF Pooled(m_iPopped') THEN m_Pool + 1 ELSE m_Pool
  BY DEF Deleter
<1>6. TypeOK' BY <1>2, <1>3, <1>4, <1>5 DEF IInv, TypeOK, limits
<1>7. UsedExact'
  <2>1. Counted' = Counted \ {t} BY <1>4 DEF Counted
  <2> QED BY <1>1, <1>3, <2>1, CountedLeaves DEF IInv, UsedExact
<1>8. DisabledHoldsNothing' BY <1>5 DEF IInv, DisabledHoldsNothing, Pooled
<1>9. WithinCeiling'
  BY <1>2, <1>3, <1>4, <1>5 DEF IInv, WithinCeiling, Ceiling, limits, TypeOK
<1> QED BY <1>6, <1>7, <1>8, <1>9 DEF IInv

LEMMA CallIInv ==
    ASSUME IInv,
           put \/ (\E b \in BOOLEAN : disable(b)) \/ \E n \in Sizes : max_size(n)
    PROVE  IInv'
<1>0. calls' \in 0 .. MaxCalls
  <2>1. Call BY DEF put, disable, max_size
  <2> QED BY <2>1, KSharedPoolAssumption DEF Call, IInv, TypeOK
<1>1. CASE put
  <2>1. /\ pc' \in [Thread -> PC]
        /\ \A u \in Thread : \/ pc'[u] = pc[u]
                             \/ pc[u] = "wait" /\ pc'[u] = "woken"
    BY <1>1 DEF put, NotifyOne, Waiters, IInv, TypeOK, PC
  <2>2. Counted' = Counted BY <2>1 DEF Counted
  <2>3. /\ UNCHANGED <<iIntervals, m_iPopped, limits, m_bDisabled, observed, gets, lax>>
        /\ m_Pool' = IF Pooled(m_iPopped) THEN m_Pool + 1 ELSE m_Pool
    BY <1>1 DEF put
  <2>4. TypeOK' BY <1>0, <2>1, <2>3 DEF IInv, TypeOK, limits
  <2>5. UsedExact' BY <2>2, <2>3 DEF IInv, UsedExact
  <2>6. DisabledHoldsNothing' BY <2>3 DEF IInv, DisabledHoldsNothing, Pooled
  <2>7. WithinCeiling'
    BY <2>1, <2>3 DEF IInv, WithinCeiling, Ceiling, limits, TypeOK, Pooled
  <2> QED BY <2>4, <2>5, <2>6, <2>7 DEF IInv
<1>2. ASSUME NEW b \in BOOLEAN, disable(b) PROVE IInv'
  <2>1. /\ pc' \in [Thread -> PC]
        /\ \A u \in Thread : \/ pc'[u] = pc[u]
                             \/ pc[u] = "wait" /\ pc'[u] = "woken"
    BY <1>2, NotifyAllMoves DEF disable, IInv, TypeOK
  <2>2. Counted' = Counted BY <2>1 DEF Counted
  <2>3. TypeOK' BY <1>0, <1>2, <2>1 DEF disable, IInv, TypeOK, limits
  <2>4. UsedExact' BY <1>2, <2>2 DEF disable, IInv, UsedExact
  <2>5. DisabledHoldsNothing' BY <1>2 DEF disable, DisabledHoldsNothing
  <2>6. WithinCeiling' BY <1>2 DEF disable, WithinCeiling
  <2> QED BY <2>3, <2>4, <2>5, <2>6 DEF IInv
<1>3. ASSUME NEW n \in Sizes, max_size(n) PROVE IInv'
  <2>1. /\ pc' \in [Thread -> PC]
        /\ \A u \in Thread : \/ pc'[u] = pc[u]
                             \/ pc[u] = "wait" /\ pc'[u] = "woken"
    BY <1>3, NotifyAllMoves DEF max_size, IInv
  <2>2. Counted' = Counted BY <2>1 DEF Counted
  <2>3. n \in Nat BY KSharedPoolAssumption
  <2>4. /\ m_iMaxSize' = n
        /\ m_iAbsoluteMaxSize' = IF iIntervals THEN n ELSE m_iAbsoluteMaxSize
        /\ lax' = (lax \/ n < Ceiling)
        /\ UNCHANGED <<iIntervals, m_Pool, m_iPopped, m_bDisabled, observed, gets>>
    BY <1>3 DEF max_size
  <2>5. TypeOK' BY <1>0, <2>1, <2>3, <2>4 DEF IInv, TypeOK
  <2>6. UsedExact' BY <2>2, <2>4 DEF IInv, UsedExact
  <2>7. DisabledHoldsNothing' BY <2>4 DEF IInv, DisabledHoldsNothing
  <2>8. WithinCeiling'
    <3> SUFFICES ASSUME ~lax' PROVE WithinCeiling' BY DEF WithinCeiling
    <3>1. ~lax /\ ~(n < Ceiling) BY <2>4
    <3>2. Ceiling \in Nat /\ Ceiling <= n BY <2>3, <3>1 DEF Ceiling, IInv, TypeOK
    <3>3. Ceiling' = n BY <2>4 DEF Ceiling
    <3>4. \A v \in observed : v \in Nat BY DEF IInv, TypeOK
    <3> QED BY <2>1, <2>3, <2>4, <3>1, <3>2, <3>3, <3>4
            DEF IInv, WithinCeiling, TypeOK
  <2> QED BY <2>5, <2>6, <2>7, <2>8 DEF IInv
<1> QED BY <1>1, <1>2, <1>3

LEMMA NextIInv == IInv /\ [Next]_vars => IInv'
<1> SUFFICES ASSUME IInv, [Next]_vars PROVE IInv' OBVIOUS
<1>1. CASE UNCHANGED vars
  BY <1>1 DEF vars, limits, IInv, TypeOK, UsedExact, Counted, DisabledHoldsNothing,
              WithinCeiling, Ceiling
<1>2. CASE Next
  BY <1>2, GetStepIInv, DeleterIInv, CallIInv DEF Next
<1> QED BY <1>1, <1>2

\* The inductive invariant of KSharedPool
THEOREM PoolInvariance == Spec => []IInv
BY InitIInv, NextIInv, PTL DEF Spec

\* Type correctness: among it, m_iPopped never goes below zero.
THEOREM PoolTypeCorrect == Spec => []TypeOK
<1>1. IInv => TypeOK BY DEF IInv
<1> QED BY <1>1, PoolInvariance, PTL

\* m_iPopped is the number of objects in use or under creation in a slot, through
\* failures of Create(), disable() and max_size(), for any number of threads.
THEOREM UsedCountExact == Spec => []UsedExact
<1>1. IInv => UsedExact BY DEF IInv
<1> QED BY <1>1, PoolInvariance, PTL

\* get() and the deleter keep the pool within the configured maximum, with fixed and
\* with dynamic sizing, as long as the pool is not disabled and the limit not lowered.
THEOREM LimitIsKept == Spec => []LimitExact
<1>1. IInv => LimitExact BY DEF IInv, WithinCeiling, LimitExact
<1> QED BY <1>1, PoolInvariance, PTL

\* A disabled pool holds no object, whatever comes back or is put there.
THEOREM DisabledIsEmpty == Spec => []DisabledHoldsNothing
<1>1. IInv => DisabledHoldsNothing BY DEF IInv
<1> QED BY <1>1, PoolInvariance, PTL

-------------------------------------------------------------------------------
\* No lost wakeup.  A notification can be used up by a thread that evaluates the wait
\* predicate and finds the object taken, so "one is awake" is not kept by itself: while
\* anyone waits, there are as many threads awake as there are objects in the pool, and
\* as many as there are slots left below the ceiling.  And nobody waits in a disabled
\* pool.

Woken == {t \in Thread : pc[t] = "woken"}

WakeupsSuffice ==
    Waiters # {} => /\ ~m_bDisabled
                    /\ m_Pool <= Cardinality(Woken)
                    /\ Ceiling - m_iPopped <= Cardinality(Woken)

LEMMA WokenFinite ==
    /\ IsFiniteSet(Woken)
    /\ Cardinality(Woken) \in Nat
    /\ Woken # {} <=> Cardinality(Woken) > 0
<1>1. IsFiniteSet(Thread) BY KSharedPoolAssumption
<1>2. Woken \subseteq Thread BY DEF Woken
<1>3. IsFiniteSet(Woken) BY <1>1, <1>2, FS_Subset
<1>4. Cardinality(Woken) \in Nat BY <1>3, FS_CardinalityType
<1>5. Woken # {} <=> Cardinality(Woken) # 0 BY <1>3, FS_EmptySet
<1> QED BY <1>3, <1>4, <1>5

\* after notify_one() nobody waits, or one thread more is awake
LEMMA NotifyOneWakes ==
    ASSUME TypeOK, NEW p \in [Thread -> PC], pc' \in NotifyOne(p),
           \A u \in Thread : /\ p[u] = "wait" <=> pc[u] = "wait"
                             /\ p[u] = "woken" <=> pc[u] = "woken"
    PROVE  /\ Waiters = {} => Waiters' = {}
           /\ Waiters # {} => Cardinality(Woken)' = Cardinality(Woken) + 1
<1>1. CASE Waiters = {}
  BY <1>1 DEF NotifyOne, Waiters
<1>2. CASE Waiters # {}
  <2>1. PICK w \in Waiters : pc' = [p EXCEPT ![w] = "woken"]
    BY <1>2 DEF NotifyOne
  <2>2. w \in Thread /\ w \notin Woken BY DEF Waiters, Woken
  <2>3. Woken' = Woken \cup {w} BY <2>1, <2>2 DEF Woken
  <2>4. Cardinality(Woken)' = Cardinality(Woken) + 1
    BY <2>2, <2>3, WokenFinite, FS_AddElement
  <2> QED BY <1>2, <2>4
<1> QED BY <1>1, <1>2

LEMMA NotifyAllLeavesNobody ==
    ASSUME TypeOK, pc' = NotifyAll
    PROVE  Waiters' = {}
BY DEF NotifyAll, Waiters, TypeOK

\* a thread that was not waiting and does not start to moves: at most one is awake less
LEMMA MoveWakes ==
    ASSUME TypeOK, NEW t \in Thread, NEW to \in PC \ {"wait", "woken"}, pc[t] # "wait",
           pc' = Move(t, to)
    PROVE  /\ Waiters' = Waiters
           /\ pc[t] # "woken" => Cardinality(Woken)' = Cardinality(Woken)
           /\ pc[t] = "woken" => /\ Cardinality(Woken) > 0
                                 /\ Cardinality(Woken)' = Cardinality(Woken) - 1
<1>1. Waiters' = Waiters BY DEF Waiters, Move, TypeOK
<1>2. CASE pc[t] # "woken"
  <2>1. Woken' = Woken BY <1>2 DEF Woken, Move, TypeOK
  <2> QED BY <1>1, <1>2, <2>1
<1>3. CASE pc[t] = "woken"
  <2>1. t \in Woken /\ Woken' = Woken \ {t} BY <1>3 DEF Woken, Move, TypeOK
  <2>2. Cardinality(Woken)' = Cardinality(Woken) - 1
    BY <2>1, WokenFinite, FS_RemoveElement
  <2> QED BY <1>1, <1>3, <2>1, <2>2, WokenFinite
<1> QED BY <1>2, <1>3

\* an object or a slot is taken: what is left falls by one, the awake by at most one
LEMMA TakesSlotWakeups ==
    ASSUME IInv, WakeupsSuffice, NEW t \in Thread, NEW to \in {"reserved", "hold"},
           NEW pool \in Nat, pool = m_Pool - 1 \/ (pool = 0 /\ m_Pool = 0),
           Evaluates(t), m_iPopped' = m_iPopped + 1, AdjustPoolSize(pool, m_iPopped + 1),
           pc' = Move(t, to),
           UNCHANGED <<iIntervals, m_iAbsoluteMaxSize, m_bDisabled>>
    PROVE  WakeupsSuffice'
<1>1. m_iPopped \in Nat /\ m_Pool \in Nat /\ m_iPopped + 1 \in Nat BY DEF IInv, TypeOK
<1>2. m_Pool' \in Nat /\ m_Pool' <= pool /\ (~iIntervals => m_iMaxSize' = m_iMaxSize)
  BY <1>1, AdjustPoolSizeType DEF IInv
<1>3. Ceiling' = Ceiling /\ Ceiling \in Nat BY <1>2 DEF Ceiling, IInv, TypeOK
<1>4. to \in PC \ {"wait", "woken"} /\ pc[t] # "wait" BY DEF PC, Evaluates
<1>5. /\ Waiters' = Waiters
      /\ pc[t] # "woken" => Cardinality(Woken)' = Cardinality(Woken)
      /\ pc[t] = "woken" => /\ Cardinality(Woken) > 0
                            /\ Cardinality(Woken)' = Cardinality(Woken) - 1
  BY <1>4, MoveWakes DEF IInv
<1> SUFFICES ASSUME Waiters # {}
             PROVE  /\ ~m_bDisabled
                    /\ m_Pool' <= Cardinality(Woken)'
                    /\ Ceiling - (m_iPopped + 1) <= Cardinality(Woken)'
  BY <1>3, <1>5 DEF WakeupsSuffice
<1>6. ~m_bDisabled /\ m_Pool <= Cardinality(Woken)
      /\ Ceiling - m_iPopped <= Cardinality(Woken)
  BY DEF WakeupsSuffice
<1>7. Cardinality(Woken) \in Nat BY WokenFinite
<1> DEFINE k == Cardinality(Woken)
           k1 == Cardinality(Woken)'
           c == Ceiling
<1>8. k \in Nat /\ (k1 = k \/ (k > 0 /\ k1 = k - 1)) BY <1>5, <1>7
<1>9. c \in Nat /\ m_Pool <= k /\ c - m_iPopped <= k BY <1>3, <1>6
<1> HIDE DEF k, k1, c
<1>10. m_Pool' <= k1 BY <1>1, <1>2, <1>8, <1>9
<1>11. c - (m_iPopped + 1) <= k1 BY <1>1, <1>8, <1>9
<1> QED BY <1>6, <1>10, <1>11 DEF k1, c

\* an object or a slot becomes available, and one thread is told
LEMMA GivesBackWakeups ==
    ASSUME IInv, WakeupsSuffice, NEW p \in [Thread -> PC], pc' \in NotifyOne(p),
           \A u \in Thread : /\ p[u] = "wait" <=> pc[u] = "wait"
                             /\ p[u] = "woken" <=> pc[u] = "woken",
           m_iPopped' \in {m_iPopped, m_iPopped - 1}, m_Pool' \in {m_Pool, m_Pool + 1},
           UNCHANGED <<iIntervals, limits, m_bDisabled>>
    PROVE  WakeupsSuffice'
<1>1. /\ Waiters = {} => Waiters' = {}
      /\ Waiters # {} => Cardinality(Woken)' = Cardinality(Woken) + 1
  BY NotifyOneWakes DEF IInv
<1>2. Ceiling' = Ceiling /\ Ceiling \in Nat BY DEF Ceiling, IInv, TypeOK, limits
<1>3. m_iPopped \in Nat /\ m_Pool \in Nat BY DEF IInv, TypeOK
<1>4. CASE Waiters = {} BY <1>1, <1>4 DEF WakeupsSuffice
<1>5. CASE Waiters # {}
  <2>1. ~m_bDisabled /\ m_Pool <= Cardinality(Woken)
        /\ Ceiling - m_iPopped <= Cardinality(Woken)
    BY <1>5 DEF WakeupsSuffice
  <2>2. Cardinality(Woken) \in Nat BY WokenFinite
  <2>3. m_Pool' <= Cardinality(Woken) + 1 BY <1>3, <2>1, <2>2
  <2>4. Ceiling - m_iPopped' <= Cardinality(Woken) + 1 BY <1>2, <1>3, <2>1, <2>2
  <2> QED BY <1>1, <1>2, <1>5, <2>1, <2>3, <2>4 DEF WakeupsSuffice
<1> QED BY <1>4, <1>5

LEMMA InitWakeups == Init => WakeupsSuffice
<1> SUFFICES ASSUME Init PROVE Waiters = {} BY DEF WakeupsSuffice
<1> QED BY DEF Init, Waiters

LEMMA NextWakeups == IInv /\ WakeupsSuffice /\ [Next]_vars => WakeupsSuffice'
<1> SUFFICES ASSUME IInv, WakeupsSuffice, [Next]_vars PROVE WakeupsSuffice' OBVIOUS
<1>0. TypeOK BY DEF IInv
<1>1. CASE UNCHANGED vars
  BY <1>1 DEF vars, limits, WakeupsSuffice, Waiters, Woken, Ceiling
<1>2. ASSUME NEW t \in Thread, Get(t) \/ Create(t) \/ CountFresh(t)
      PROVE  WakeupsSuffice'
  <2>1. PICK to \in PC \ {"wait", "woken"} :
          pc' = Move(t, to) /\ pc[t] \notin {"wait", "woken"}
    <3>1. CASE Get(t)
      BY <3>1 DEF Get, PC
    <3>2. CASE Create(t)
      BY <3>2 DEF Create, PC
    <3>3. CASE CountFresh(t)
      BY <3>3 DEF CountFresh, PC
    <3> QED BY <1>2, <3>1, <3>2, <3>3
  <2>2. /\ UNCHANGED <<iIntervals, m_Pool, limits, m_bDisabled>>
        /\ m_iPopped' \in {m_iPopped, m_iPopped + 1}
    BY <1>2 DEF Get, Create, CountFresh
  <2>3. Waiters' = Waiters /\ Cardinality(Woken)' = Cardinality(Woken)
    BY <1>0, <2>1, MoveWakes
  <2>4. Ceiling' = Ceiling /\ Ceiling \in Nat
    BY <1>0, <2>2 DEF Ceiling, TypeOK, limits
  <2>5. Cardinality(Woken) \in Nat /\ m_iPopped \in Nat
    BY <1>0, WokenFinite DEF TypeOK
  <2>6. Ceiling - m_iPopped <= Cardinality(Woken)
          => Ceiling - m_iPopped' <= Cardinality(Woken)
    BY <2>2, <2>4, <2>5
  <2> QED BY <2>2, <2>3, <2>4, <2>6 DEF WakeupsSuffice
<1>3. ASSUME NEW t \in Thread, Wait(t) PROVE WakeupsSuffice'
  <2>1. CASE WaitDisabled(t)
    <3>1. Waiters' = Waiters BY <1>0, <2>1 DEF WaitDisabled, Evaluates, Waiters, Move, TypeOK
    <3> QED BY <2>1, <3>1 DEF WaitDisabled, WakeupsSuffice
  <2>2. CASE WaitPop(t)
    <3>1. m_Pool - 1 \in Nat BY <1>0, <2>2 DEF WaitPop, TypeOK
    <3> QED BY <2>2, <3>1, TakesSlotWakeups DEF WaitPop
  <2>3. CASE WaitReserve(t)
    BY <2>3, TakesSlotWakeups DEF WaitReserve
  <2>4. CASE WaitBlock(t)
    <3>1. m_Pool' = 0 /\ ~m_bDisabled' BY <2>4 DEF WaitBlock
    <3>2. Ceiling <= m_iPopped
      BY <1>0, <2>4 DEF WaitBlock, Room, Ceiling, TypeOK
    <3>3. Ceiling' = Ceiling /\ m_iPopped' = m_iPopped
      BY <2>4 DEF WaitBlock, Ceiling, limits
    <3>4. Ceiling \in Nat /\ m_iPopped \in Nat BY <1>0 DEF Ceiling, TypeOK
    <3>5. Cardinality(Woken') \in Nat
      <4>1. Woken' \subseteq Thread BY DEF Woken
      <4>2. IsFiniteSet(Woken') BY <4>1, KSharedPoolAssumption, FS_Subset
      <4> QED BY <4>2, FS_CardinalityType
    <3>6. \A c, n, k \in Nat : c <= n => c - n <= k OBVIOUS
    <3>7. Ceiling - m_iPopped <= Cardinality(Woken') BY <3>2, <3>4, <3>5, <3>6
    <3> QED BY <3>1, <3>3, <3>5, <3>7 DEF WakeupsSuffice
  <2> QED BY <1>3, <2>1, <2>2, <2>3, <2>4 DEF Wait
<1>4. ASSUME NEW t \in Thread, ReleaseSlotOnFailure(t) PROVE WakeupsSuffice'
  <2>1. Move(t, "idle") \in [Thread -> PC] /\ pc[t] = "failed"
    BY <1>0, <1>4 DEF ReleaseSlotOnFailure, Move, TypeOK, PC
  <2>2. \A u \in Thread : /\ Move(t, "idle")[u] = "wait" <=> pc[u] = "wait"
                          /\ Move(t, "idle")[u] = "woken" <=> pc[u] = "woken"
    BY <1>0, <2>1 DEF Move, TypeOK
  <2> QED BY <1>4, <2>1, <2>2, GivesBackWakeups DEF ReleaseSlotOnFailure
<1>5. ASSUME NEW t \in Thread, Deleter(t) PROVE WakeupsSuffice'
  <2>1. Move(t, "idle") \in [Thread -> PC] /\ pc[t] = "hold"
    BY <1>0, <1>5 DEF Deleter, Move, TypeOK, PC
  <2>2. \A u \in Thread : /\ Move(t, "idle")[u] = "wait" <=> pc[u] = "wait"
                          /\ Move(t, "idle")[u] = "woken" <=> pc[u] = "woken"
    BY <1>0, <2>1 DEF Move, TypeOK
  <2>3. t \in Counted BY <2>1 DEF Counted
  <2>4. m_iPopped # 0 BY <2>3, CountedFinite DEF IInv, UsedExact
  <2>5. /\ m_iPopped' = m_iPopped - 1 /\ pc' \in NotifyOne(Move(t, "idle"))
        /\ m_Pool' \in {m_Pool, m_Pool + 1}
        /\ UNCHANGED <<iIntervals, limits, m_bDisabled>>
    BY <1>5, <2>4 DEF Deleter
  <2> QED BY <2>1, <2>2, <2>5, GivesBackWakeups
<1>6. CASE put
  <2>1. /\ m_Pool' \in {m_Pool, m_Pool + 1} /\ m_iPopped' = m_iPopped
        /\ UNCHANGED <<iIntervals, limits, m_bDisabled>>
    BY <1>6 DEF put
  <2>2. CASE Pooled(m_iPopped)
    <3>1. pc \in [Thread -> PC] /\ pc' \in NotifyOne(pc)
      BY <1>0, <1>6, <2>2 DEF put, TypeOK
    <3> QED BY <2>1, <3>1, GivesBackWakeups
  <2>3. CASE ~Pooled(m_iPopped)
    BY <1>6, <2>1, <2>3 DEF put, WakeupsSuffice, Waiters, Woken, Ceiling, limits
  <2> QED BY <2>2, <2>3
<1>7. ASSUME NEW b \in BOOLEAN, disable(b) PROVE WakeupsSuffice'
  <2>1. CASE b
    <3>1. Waiters' = {} BY <1>0, <1>7, <2>1, NotifyAllLeavesNobody DEF disable
    <3> QED BY <3>1 DEF WakeupsSuffice
  <2>2. CASE ~b
    <3>1. m_bDisabled BY <1>0, <1>7, <2>2 DEF disable, TypeOK
    <3>2. Waiters' = Waiters BY <1>7, <2>2 DEF disable, Waiters
    <3> QED BY <3>1, <3>2 DEF WakeupsSuffice
  <2> QED BY <2>1, <2>2
<1>8. ASSUME NEW n \in Sizes, max_size(n) PROVE WakeupsSuffice'
  <2>1. Waiters' = {} BY <1>0, <1>8, NotifyAllLeavesNobody DEF max_size
  <2> QED BY <2>1 DEF WakeupsSuffice
<1> QED BY <1>1, <1>2, <1>3, <1>4, <1>5, <1>6, <1>7, <1>8 DEF Next, GetStep

\* No get() is left asleep while it could have an object or a slot: the notifications of
\* the deleter, put(), the failure guard, disable() and max_size() are enough, however
\* the threads that were woken and those that just arrived take turns at the predicate.
THEOREM NoWakeupIsLost == Spec => []NoLostWakeup
<1>1. IInv /\ WakeupsSuffice => NoLostWakeup
  <2> SUFFICES ASSUME IInv, WakeupsSuffice, Waiters # {},
                      m_bDisabled \/ m_Pool > 0 \/ m_iPopped < Ceiling
               PROVE  \E t \in Thread : pc[t] = "woken"
    BY DEF NoLostWakeup
  <2>1. m_Pool \in Nat /\ m_iPopped \in Nat /\ Ceiling \in Nat
    BY DEF IInv, TypeOK, Ceiling
  <2>2. Cardinality(Woken) > 0 BY <2>1, WokenFinite DEF WakeupsSuffice
  <2> QED BY <2>2, WokenFinite DEF Woken
<1> QED BY <1>1, InitIInv, NextIInv, InitWakeups, NextWakeups, PTL DEF Spec

===============================================================================
