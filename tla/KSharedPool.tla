----------------------------- MODULE KSharedPool -----------------------------
(***************************************************************************)
(* KSharedPool: get() takes an object out of the pool, creates one, or     *)
(* waits until one comes back; the smart pointer it returns gives it back. *)
(*                                                                         *)
(* Objects are alike and only counted.  A get() evaluates its wait         *)
(* predicate under the pool's mutex, runs the user's Create() unlocked,    *)
(* and locks once more to account for a failed or an unreserved creation.  *)
(* With dynamic sizing (iIntervals > 0) the pool follows the usage of a    *)
(* sliding window: observed holds the maxima the window can have, which    *)
(* are those of the suffixes of what was recorded.                         *)
(***************************************************************************)
EXTENDS Integers, FiniteSets

CONSTANTS Thread,
          MaxSize,       \* the constructor's iMaxSize
          Modes,         \* is iIntervals > 0 ?  the template arguments to look at
          Sizes,         \* the arguments of max_size()
          Uses,          \* of "disable", "put" and "fail", what happens beside get()
          MaxGets,       \* bound: get() calls of a thread
          MaxCalls       \* bound: disable(), max_size() and put() calls

ASSUME KSharedPoolAssumption ==
    /\ IsFiniteSet(Thread)
    /\ MaxSize \in Nat \ {0} /\ Sizes \subseteq Nat
    /\ Modes \subseteq BOOLEAN /\ Uses \subseteq {"disable", "put", "fail"}
    /\ MaxGets \in Nat /\ MaxCalls \in Nat

VARIABLES iIntervals,    \* dynamic sizing, a template argument
          m_Pool,        \* m_Pool.size()
          m_iPopped, m_iMaxSize, m_iAbsoluteMaxSize, m_bDisabled,
          observed,      \* the maxima the time series can have
          pc,            \* where a thread is
          gets, calls,
          lax            \* history: the pool was ever disabled, or its limit lowered

limits == <<m_iMaxSize, m_iAbsoluteMaxSize>>
vars == <<iIntervals, m_Pool, m_iPopped, limits, m_bDisabled, observed, pc, gets,
          calls, lax>>

\* what the owner configured: max_size(), or the ceiling of the dynamic sizing
Ceiling == IF iIntervals THEN m_iAbsoluteMaxSize ELSE m_iMaxSize

\* "lock": about to enter the wait; "reserved", "fresh": in Create(), with and without
\* a slot; "failed": a reserved creation failed; "created": a fresh one succeeded;
\* "hold": the thread has an object
PC == {"idle", "lock", "wait", "woken", "reserved", "fresh", "failed", "created", "hold"}

Init == /\ iIntervals \in Modes
        /\ m_Pool = 0 /\ m_iPopped = 0
        /\ m_iMaxSize = MaxSize /\ m_iAbsoluteMaxSize = MaxSize
        /\ m_bDisabled = FALSE
        /\ observed = {}
        /\ pc = [t \in Thread |-> "idle"]
        /\ gets = [t \in Thread |-> 0] /\ calls = 0
        /\ lax = FALSE

Waiters == {t \in Thread : pc[t] = "wait"}

Move(t, to) == [pc EXCEPT ![t] = to]

\* p after notify_one(): a waiter wakes, or there is none
NotifyOne(p) == IF Waiters = {} THEN {p}
                ELSE {[p EXCEPT ![w] = "woken"] : w \in Waiters}

NotifyAll == [t \in Thread |-> IF pc[t] = "wait" THEN "woken" ELSE pc[t]]

-----------------------------------------------------------------------------
\* AdjustPoolSize, when popped objects are in use and pool ones are left

Recorded(popped) == {v \in observed : v > popped} \cup {popped}

\* an interval has passed: the limit is the window's maximum, and the pool shrinks to it
Resized(pool, popped) ==
    \E max \in Recorded(popped) :
        /\ m_iMaxSize' = max
        /\ observed' = {v \in Recorded(popped) : v <= max}
        /\ m_Pool' = IF max < pool + popped THEN max - popped ELSE pool

\* else the limit is only raised, and never above the ceiling
Grown(pool, popped) ==
    /\ observed' = Recorded(popped)
    /\ m_iMaxSize' = IF popped > m_iMaxSize /\ popped <= m_iAbsoluteMaxSize
                     THEN popped ELSE m_iMaxSize
    /\ m_Pool' = pool

AdjustPoolSize(pool, popped) ==
    IF iIntervals THEN Resized(pool, popped) \/ Grown(pool, popped)
    ELSE m_Pool' = pool /\ UNCHANGED <<observed, m_iMaxSize>>

-----------------------------------------------------------------------------
\* get()

Get(t) ==
    /\ pc[t] = "idle" /\ gets[t] < MaxGets
    /\ gets' = [gets EXCEPT ![t] = @ + 1]
    /\ pc' = Move(t, IF m_bDisabled THEN "fresh" ELSE "lock")
    /\ UNCHANGED <<iIntervals, m_Pool, m_iPopped, limits, m_bDisabled, observed, calls,
                   lax>>

\* mutant: the off-by-one of the first release
Room_OffByOne == m_iPopped <= m_iMaxSize

Room == \/ m_iPopped < m_iMaxSize
        \/ iIntervals /\ m_iPopped < m_iAbsoluteMaxSize

Evaluates(t) == pc[t] \in {"lock", "woken"}

\* pooling was switched off: bail out without a slot
WaitDisabled(t) ==
    /\ Evaluates(t) /\ m_bDisabled
    /\ pc' = Move(t, "fresh")
    /\ UNCHANGED <<iIntervals, m_Pool, m_iPopped, limits, m_bDisabled, observed, gets,
                   calls, lax>>

WaitPop(t) ==
    /\ Evaluates(t) /\ ~m_bDisabled /\ m_Pool > 0
    /\ m_iPopped' = m_iPopped + 1
    /\ AdjustPoolSize(m_Pool - 1, m_iPopped + 1)
    /\ pc' = Move(t, "hold")
    /\ UNCHANGED <<iIntervals, m_iAbsoluteMaxSize, m_bDisabled, gets, calls, lax>>

WaitReserve(t) ==
    /\ Evaluates(t) /\ ~m_bDisabled /\ m_Pool = 0 /\ Room
    /\ m_iPopped' = m_iPopped + 1
    /\ AdjustPoolSize(0, m_iPopped + 1)
    /\ pc' = Move(t, "reserved")
    /\ UNCHANGED <<iIntervals, m_iAbsoluteMaxSize, m_bDisabled, gets, calls, lax>>

WaitBlock(t) ==
    /\ Evaluates(t) /\ ~m_bDisabled /\ m_Pool = 0 /\ ~Room
    /\ pc' = Move(t, "wait")
    /\ UNCHANGED <<iIntervals, m_Pool, m_iPopped, limits, m_bDisabled, observed, gets,
                   calls, lax>>

Wait(t) == WaitDisabled(t) \/ WaitPop(t) \/ WaitReserve(t) \/ WaitBlock(t)

\* Create(), unlocked, gives an object, nullptr, or throws
Create(t) ==
    /\ \/ pc[t] = "reserved" /\ pc' = Move(t, "hold")
       \/ pc[t] = "fresh" /\ pc' = Move(t, "created")
       \/ /\ "fail" \in Uses
          /\ \/ pc[t] = "reserved" /\ pc' = Move(t, "failed")
             \/ pc[t] = "fresh" /\ pc' = Move(t, "idle")
    /\ UNCHANGED <<iIntervals, m_Pool, m_iPopped, limits, m_bDisabled, observed, gets,
                   calls, lax>>

\* mutant: a failed creation keeps its slot
ReleaseSlotOnFailure_Leaks(t) ==
    /\ pc[t] = "failed"
    /\ pc' = Move(t, "idle")
    /\ UNCHANGED <<iIntervals, m_Pool, m_iPopped, limits, m_bDisabled, observed, gets,
                   calls, lax>>

ReleaseSlotOnFailure(t) ==
    /\ pc[t] = "failed"
    /\ m_iPopped' = m_iPopped - 1
    /\ pc' \in NotifyOne(Move(t, "idle"))
    /\ UNCHANGED <<iIntervals, m_Pool, limits, m_bDisabled, observed, gets, calls, lax>>

\* mutant: it is not counted (the underflow the tests of kpool remember)
CountFresh_Uncounted(t) ==
    /\ pc[t] = "created"
    /\ pc' = Move(t, "hold")
    /\ UNCHANGED <<iIntervals, m_Pool, m_iPopped, limits, m_bDisabled, observed, gets,
                   calls, lax>>

\* an object created without a slot is counted after the fact
CountFresh(t) ==
    /\ pc[t] = "created"
    /\ m_iPopped' = m_iPopped + 1
    /\ pc' = Move(t, "hold")
    /\ UNCHANGED <<iIntervals, m_Pool, limits, m_bDisabled, observed, gets, calls, lax>>

-----------------------------------------------------------------------------
\* whether an object that comes back is kept
Pooled(popped) == ~m_bDisabled /\ m_Pool + popped < m_iMaxSize

\* the deleter of the smart pointer.  (m_iPopped = 0 would be the underflow warning.)
Deleter(t) ==
    /\ pc[t] = "hold"
    /\ m_iPopped' = IF m_iPopped = 0 THEN 0 ELSE m_iPopped - 1
    /\ m_Pool' = IF Pooled(m_iPopped') THEN m_Pool + 1 ELSE m_Pool
    /\ pc' \in IF m_iPopped = 0 /\ m_Pool' = m_Pool THEN {Move(t, "idle")}
               ELSE NotifyOne(Move(t, "idle"))
    /\ UNCHANGED <<iIntervals, limits, m_bDisabled, observed, gets, calls, lax>>

Call == calls < MaxCalls /\ calls' = calls + 1

\* an object created elsewhere is given to the pool, or deleted
put ==
    /\ "put" \in Uses /\ Call
    /\ m_Pool' = IF Pooled(m_iPopped) THEN m_Pool + 1 ELSE m_Pool
    /\ IF Pooled(m_iPopped) THEN pc' \in NotifyOne(pc) ELSE UNCHANGED pc
    /\ UNCHANGED <<iIntervals, m_iPopped, limits, m_bDisabled, observed, gets, lax>>

\* (the unlocked look at m_bDisabled only decides whether the section is entered)
disable(b) ==
    /\ "disable" \in Uses /\ Call
    /\ m_bDisabled # b
    /\ m_bDisabled' = b
    /\ IF b THEN m_Pool' = 0 /\ pc' = NotifyAll ELSE UNCHANGED <<m_Pool, pc>>
    /\ lax' = TRUE
    /\ UNCHANGED <<iIntervals, m_iPopped, limits, observed, gets>>

\* mutant: the waiters do not hear of the new limit
max_size_Silent(n) ==
    /\ Call
    /\ m_iMaxSize' = n
    /\ m_iAbsoluteMaxSize' = IF iIntervals THEN n ELSE m_iAbsoluteMaxSize
    /\ lax' = (lax \/ n < Ceiling)
    /\ UNCHANGED <<iIntervals, m_Pool, m_iPopped, m_bDisabled, observed, pc, gets>>

max_size(n) ==
    /\ Call
    /\ m_iMaxSize' = n
    /\ m_iAbsoluteMaxSize' = IF iIntervals THEN n ELSE m_iAbsoluteMaxSize
    /\ pc' = NotifyAll
    /\ lax' = (lax \/ n < Ceiling)
    /\ UNCHANGED <<iIntervals, m_Pool, m_iPopped, m_bDisabled, observed, gets>>

-----------------------------------------------------------------------------

GetStep(t) == Wait(t) \/ Create(t) \/ ReleaseSlotOnFailure(t) \/ CountFresh(t)

Next == \/ \E t \in Thread : Get(t) \/ GetStep(t) \/ Deleter(t)
        \/ put
        \/ \E b \in BOOLEAN : disable(b)
        \/ \E n \in Sizes : max_size(n)

Spec == Init /\ [][Next]_vars

\* a get() that may go on does, and what it returned is given back some day
FairSpec == Spec /\ \A t \in Thread : WF_vars(GetStep(t)) /\ WF_vars(Deleter(t))

-----------------------------------------------------------------------------

TypeOK == /\ iIntervals \in BOOLEAN /\ m_bDisabled \in BOOLEAN /\ lax \in BOOLEAN
          /\ m_Pool \in Nat /\ m_iPopped \in Nat
          /\ m_iMaxSize \in Nat /\ m_iAbsoluteMaxSize \in Nat
          /\ observed \subseteq Nat
          /\ pc \in [Thread -> PC]
          /\ gets \in [Thread -> 0 .. MaxGets] /\ calls \in 0 .. MaxCalls

Counted == {t \in Thread : pc[t] \in {"reserved", "failed", "hold"}}

\* m_iPopped, raised before, after or without a Create() and lowered by the deleter or
\* the failure guard, is the number of objects in use or being created for a slot:
\* drifting up it blocks the pool for good, drifting down it breaks the limit.
UsedExact == m_iPopped = Cardinality(Counted)

\* "the pool limit is exact": objects in use and pooled together never exceed the
\* configured maximum, unless pooling was ever disabled or the limit lowered.
LimitExact == ~lax => m_Pool + m_iPopped <= Ceiling

\* "move the pooled objects out": a disabled pool holds nothing, not even objects that
\* come back late or are put there.
DisabledHoldsNothing == m_bDisabled => m_Pool = 0

\* A waiter that could have an object, or a slot below the configured maximum, is not
\* left asleep: another one is awake already and will wake it, or be followed.
NoLostWakeup ==
    /\ Waiters # {}
    /\ m_bDisabled \/ m_Pool > 0 \/ m_iPopped < Ceiling
    => \E t \in Thread : pc[t] = "woken"

\* Every get() ends, with an object or a failed creation, provided that objects come
\* back: no slot leaks through failures, disabling or a change of the limit.
GetReturns == \A t \in Thread : pc[t] \in {"lock", "wait"} ~> pc[t] \in {"idle", "hold"}

=============================================================================
