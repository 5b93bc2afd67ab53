--------------------------- MODULE KSession_proofs --------------------------
(***************************************************************************)
(* Theorems about KSession, for any tokens, users, requests, time-outs,    *)
(* failing statements and bounds.                                          *)
(***************************************************************************)
EXTENDS KSession, TLAPS

-----------------------------------------------------------------------------
\* Arithmetic of the seconds the database keeps.

\* The quotient is the one number of whole seconds that fit.
LEMMA Quotient ==
    ASSUME NEW a \in Nat
    PROVE  /\ (a \div Second) \in Nat
           /\ (a \div Second) * Second <= a
           /\ a < (a \div Second) * Second + Second
  <1>1. Second \in Nat /\ Second > 0
    BY KSessionAssumption
  <1> QED
    BY <1>1, Z3

\* Rounding down to seconds gives a number that is not above the time.
LEMMA SecondsBelow ==
    ASSUME NEW a \in Nat
    PROVE  Seconds(a) \in Nat /\ Seconds(a) <= a
  <1>1. Second \in Nat
    BY KSessionAssumption
  <1>2. (a \div Second) \in Nat /\ (a \div Second) * Second <= a
    BY Quotient
  <1>3. ASSUME NEW p \in Nat PROVE p * Second \in Nat
    BY <1>1
  <1> QED
    BY <1>2, <1>3 DEF Seconds

\* More of a non-negative number is not less.
LEMMA TimesMonotone ==
    ASSUME NEW p \in Nat, NEW q \in Nat, NEW s \in Nat, p <= q
    PROVE  p * s <= q * s /\ p * s \in Nat /\ q * s \in Nat
  OBVIOUS

\* Rounding keeps the order of two times.
LEMMA SecondsMonotone ==
    ASSUME NEW a \in Nat, NEW b \in Nat, a <= b
    PROVE  Seconds(a) <= Seconds(b)
  <1> DEFINE p == a \div Second
             q == b \div Second
  <1>1. Second \in Nat
    BY KSessionAssumption
  <1>2. p \in Nat /\ p * Second <= a
    BY Quotient
  <1>3. q \in Nat /\ b < q * Second + Second
    BY Quotient
  <1> HIDE DEF p, q
  <1>4. CASE p <= q
    <2>1. p * Second <= q * Second
      BY <1>1, <1>2, <1>3, <1>4, TimesMonotone
    <2> QED
      BY <2>1 DEF Seconds, p, q
  <1>5. CASE q + 1 <= p
    <2>1. (q + 1) * Second <= p * Second /\ p * Second \in Nat
      BY <1>1, <1>2, <1>3, <1>5, TimesMonotone
    <2>2. (q + 1) * Second = q * Second + Second /\ q * Second \in Nat
      BY <1>1, <1>3
    <2> QED
      BY <2>1, <2>2, <1>1, <1>2, <1>3
  <1> QED
    BY <1>2, <1>3, <1>4, <1>5

\* What is rounded stays as it is.
LEMMA SecondsAgain ==
    ASSUME NEW a \in Nat
    PROVE  Seconds(Seconds(a)) = Seconds(a)
  <1> DEFINE s == Seconds(a)
             p == a \div Second
             q == s \div Second
  <1>1. Second \in Nat /\ Second > 0
    BY KSessionAssumption
  <1>2. p \in Nat /\ s = p * Second /\ s \in Nat
    BY Quotient, SecondsBelow DEF Seconds
  <1>3. q \in Nat /\ q * Second <= s /\ s < q * Second + Second
    BY <1>2, Quotient
  <1>4. Seconds(s) = q * Second
    BY DEF Seconds
  <1> HIDE DEF s, p, q
  <1>5. CASE p = q
    BY <1>2, <1>4, <1>5 DEF s
  <1>6. CASE q + 1 <= p
    <2>1. (q + 1) * Second <= p * Second
      BY <1>1, <1>2, <1>3, <1>6, TimesMonotone
    <2>2. (q + 1) * Second = q * Second + Second /\ q * Second \in Nat
      BY <1>1, <1>3
    <2> QED
      BY <2>1, <2>2, <1>1, <1>2, <1>3
  <1>7. CASE p + 1 <= q
    <2>1. (p + 1) * Second <= q * Second
      BY <1>1, <1>2, <1>3, <1>7, TimesMonotone
    <2>2. (p + 1) * Second = p * Second + Second /\ q * Second \in Nat
      BY <1>1, <1>2, <1>3
    <2> QED
      BY <2>1, <2>2, <1>1, <1>2, <1>3
  <1> QED
    BY <1>2, <1>3, <1>5, <1>6, <1>7

-----------------------------------------------------------------------------
\* Type correctness.

\* What a request that is not idle holds.
RequestsKnow ==
    \A r \in Request : /\ pc[r] # "idle" => token[r] \in Token
                       /\ pc[r] = "found" => Rec[r] \in Record

TypeInv == TypeOK /\ RequestsKnow

\* A record with its time stamps rounded is a record, older by less than a second.
LEMMA StoredIsRecord ==
    ASSUME NEW r \in Record
    PROVE  /\ Stored(r) \in Record
           /\ Stored(r).tCreated = Seconds(r.tCreated)
           /\ Stored(r).tLastSeen = Seconds(r.tLastSeen)
           /\ Stored(r).sExtra = r.sExtra
  <1>1. r.tCreated \in Nat /\ r.tLastSeen \in Nat
    BY KSessionAssumption DEF Record
  <1>2. Seconds(r.tCreated) \in 0 .. MaxNow /\ Seconds(r.tLastSeen) \in 0 .. MaxNow
    <2>1. Seconds(r.tCreated) \in Nat /\ Seconds(r.tCreated) <= r.tCreated
      BY <1>1, SecondsBelow
    <2>2. Seconds(r.tLastSeen) \in Nat /\ Seconds(r.tLastSeen) <= r.tLastSeen
      BY <1>1, SecondsBelow
    <2> QED
      BY <2>1, <2>2, KSessionAssumption DEF Record
  <1> QED
    BY <1>2 DEF Stored, Record

\* A row that gets another LastSeen is still a record.
LEMMA SeenIsRecord ==
    ASSUME NEW r \in Record, NEW tLastSeen \in 0 .. MaxNow
    PROVE  LET s == [r EXCEPT !.tLastSeen = Seconds(tLastSeen)]
           IN  /\ s \in Record
               /\ s.tLastSeen = Seconds(tLastSeen)
               /\ s.tCreated = r.tCreated /\ s.sExtra = r.sExtra
  <1>1. Seconds(tLastSeen) \in Nat /\ Seconds(tLastSeen) <= tLastSeen
    BY SecondsBelow
  <1>2. Seconds(tLastSeen) \in 0 .. MaxNow
    BY <1>1, KSessionAssumption
  <1> QED
    BY <1>2 DEF Record

\* What the flush writes: the cached LastSeen, and only to rows of dirty entries.
LEMMA FlushedRows ==
    ASSUME TypeOK
    PROVE  /\ Flushed \in [Token -> Record \cup {None}]
           /\ \A t \in Token :
                IF t \in bLastSeenDirty /\ InDatabase(t)
                THEN /\ Cache[t] \in Record /\ Backend[t] \in Record
                     /\ Flushed[t] \in Record
                     /\ Flushed[t].tLastSeen = Seconds(Cache[t].tLastSeen)
                     /\ Flushed[t].tCreated = Backend[t].tCreated
                     /\ Flushed[t].sExtra = Backend[t].sExtra
                ELSE Flushed[t] = Backend[t]
  <1>1. ASSUME NEW t \in Token, t \in bLastSeenDirty, InDatabase(t)
        PROVE  /\ Cache[t] \in Record /\ Backend[t] \in Record
               /\ Flushed[t] = [Backend[t] EXCEPT !.tLastSeen = Seconds(Cache[t].tLastSeen)]
    BY <1>1 DEF TypeOK, Cached, InDatabase, Flushed
  <1>2. ASSUME NEW t \in Token, t \in bLastSeenDirty, InDatabase(t)
        PROVE  /\ Flushed[t] \in Record
               /\ Flushed[t].tLastSeen = Seconds(Cache[t].tLastSeen)
               /\ Flushed[t].tCreated = Backend[t].tCreated
               /\ Flushed[t].sExtra = Backend[t].sExtra
    <2>1. Cache[t].tLastSeen \in 0 .. MaxNow
      BY <1>1, <1>2 DEF Record
    <2> DEFINE f == [Backend[t] EXCEPT !.tLastSeen = Seconds(Cache[t].tLastSeen)]
    <2>2. /\ f \in Record
          /\ f.tLastSeen = Seconds(Cache[t].tLastSeen)
          /\ f.tCreated = Backend[t].tCreated /\ f.sExtra = Backend[t].sExtra
      BY <1>1, <1>2, <2>1, SeenIsRecord
    <2>3. Flushed[t] = f
      BY <1>1, <1>2
    <2> HIDE DEF f
    <2> QED
      BY <2>2, <2>3
  <1>3. ASSUME NEW t \in Token, ~(t \in bLastSeenDirty /\ InDatabase(t))
        PROVE  Flushed[t] = Backend[t] /\ Backend[t] \in Record \cup {None}
    BY <1>3 DEF TypeOK, Flushed
  <1>4. Flushed = [t \in Token |-> Flushed[t]]
    BY DEF Flushed
  <1> QED
    BY <1>1, <1>2, <1>3, <1>4

\* What a purge leaves of a token: its row or its flushed row, its cached record,
\* or nothing.
LEMMA PurgeEffect ==
    ASSUME TypeOK, NEW a \in Nat, NEW b \in Nat, Purge(a, b)
    PROVE  /\ Backend' \in [Token -> Record \cup {None}]
           /\ Cache' \in [Token -> Record \cup {None}]
           /\ bLastSeenDirty' = {}
           /\ \A t \in Token : Backend'[t] \in {None, Backend[t], Flushed[t]}
           /\ \A t \in Token : Cache'[t] \in {None, Cache[t]}
  <1>1. PICK rows \in {Flushed} \cup (IF "touch" \in Faults THEN {Backend} ELSE {}) :
              \/ "purge" \in Faults /\ Backend' = rows
              \/ Backend' =
                    [t \in Token |->
                        IF rows[t] # None /\ Expired(rows[t], Seconds(a), Seconds(b))
                        THEN None ELSE rows[t]]
    BY DEF Purge
  <1>2. rows \in [Token -> Record \cup {None}]
    BY FlushedRows DEF TypeOK
  <1>3. \A t \in Token : rows[t] \in {Backend[t], Flushed[t]}
    OBVIOUS
  <1>4. Backend' \in [Token -> Record \cup {None}]
    BY <1>1, <1>2
  <1>5. \A t \in Token : Backend'[t] \in {None, Backend[t], Flushed[t]}
    BY <1>1, <1>3
  <1>6. /\ Cache' \in [Token -> Record \cup {None}]
        /\ bLastSeenDirty' = {}
        /\ \A t \in Token : Cache'[t] \in {None, Cache[t]}
    BY DEF Purge, TypeOK, Cached
  <1> QED
    BY <1>4, <1>5, <1>6

\* Erase forgets the record in RAM, and its row unless the statement failed.
LEMMA EraseEffect ==
    ASSUME TypeOK, NEW ts \in SUBSET Token, EraseAll(ts)
    PROVE  /\ Backend' \in [Token -> Record \cup {None}]
           /\ Cache' \in [Token -> Record \cup {None}]
           /\ bLastSeenDirty' = bLastSeenDirty \ ts
           /\ \A t \in Token : Cache'[t] = IF t \in ts THEN None ELSE Cache[t]
           /\ \A t \in Token : Backend'[t] = Backend[t] \/ (t \in ts /\ Backend'[t] = None)
  BY DEF EraseAll, Uncache, Statement, Rows, TypeOK

\* Touch writes a LastSeen to the cached record, or to the row of an uncached one.
LEMMA TouchEffect ==
    ASSUME TypeOK, NEW t \in Token, NEW tLastSeen \in 0 .. MaxNow, Touch(t, tLastSeen)
    PROVE  /\ Backend' \in [Token -> Record \cup {None}]
           /\ Cache' \in [Token -> Record \cup {None}]
           /\ \A u \in Token : u # t => Backend'[u] = Backend[u] /\ Cache'[u] = Cache[u]
           /\ \/ /\ Cached(t) /\ UNCHANGED Backend
                 /\ Cache'[t] \in Record
                 /\ Cache'[t].tLastSeen = tLastSeen
                 /\ Cache'[t].tCreated = Cache[t].tCreated
                 /\ Cache'[t].sExtra = Cache[t].sExtra
                 /\ bLastSeenDirty' = bLastSeenDirty \cup {t}
              \/ /\ ~Cached(t) /\ UNCHANGED <<Cache, bLastSeenDirty>>
                 /\ \/ UNCHANGED Backend
                    \/ /\ Backend[t] \in Record /\ Backend'[t] \in Record
                       /\ Backend'[t].tLastSeen = Seconds(tLastSeen)
                       /\ Backend'[t].tCreated = Backend[t].tCreated
                       /\ Backend'[t].sExtra = Backend[t].sExtra
  <1>1. CASE Cached(t)
    <2>1. Cache[t] \in Record
      BY <1>1 DEF TypeOK, Cached
    <2>2. [Cache[t] EXCEPT !.tLastSeen = tLastSeen] \in Record
      BY <2>1 DEF Record
    <2>3. /\ Cache' = [Cache EXCEPT ![t].tLastSeen = tLastSeen]
          /\ bLastSeenDirty' = bLastSeenDirty \cup {t}
          /\ Backend' = Backend
      BY <1>1 DEF Touch
    <2>4. Cache'[t] = [Cache[t] EXCEPT !.tLastSeen = tLastSeen]
      BY <2>3 DEF TypeOK
    <2>5. Cache' \in [Token -> Record \cup {None}]
      BY <2>2, <2>3 DEF TypeOK
    <2> QED
      BY <1>1, <2>1, <2>2, <2>3, <2>4, <2>5 DEF TypeOK, Record
  <1>2. CASE ~Cached(t) /\ Backend' = Backend
    BY <1>2 DEF Touch, TypeOK
  <1>3. CASE ~Cached(t) /\ Backend' # Backend
    <2>1. /\ UNCHANGED <<Cache, bLastSeenDirty>>
          /\ InDatabase(t)
          /\ Backend' = [Backend EXCEPT ![t].tLastSeen = Seconds(tLastSeen)]
      BY <1>3 DEF Touch, Statement
    <2>2. Backend[t] \in Record
      BY <2>1 DEF TypeOK, InDatabase
    <2>3. Backend'[t] = [Backend[t] EXCEPT !.tLastSeen = Seconds(tLastSeen)]
      BY <2>1 DEF TypeOK
    <2>4. /\ Backend'[t] \in Record
          /\ Backend'[t].tLastSeen = Seconds(tLastSeen)
          /\ Backend'[t].tCreated = Backend[t].tCreated
          /\ Backend'[t].sExtra = Backend[t].sExtra
      BY <2>2, <2>3, SeenIsRecord
    <2>5. Backend' \in [Token -> Record \cup {None}]
      BY <2>1, <2>3, <2>4 DEF TypeOK
    <2> QED
      BY <1>3, <2>1, <2>2, <2>4, <2>5 DEF TypeOK
  <1> QED
    BY <1>1, <1>2, <1>3

\* A cutoff is a time.
LEMMA CutoffIsTime ==
    ASSUME NEW at \in Nat, NEW Timeout \in Nat
    PROVE  Cutoff(at, Timeout) \in Nat
  BY DEF Cutoff

LEMMA TypeInit == Init => TypeInv
  BY KSessionAssumption DEF Init, TypeInv, TypeOK, RequestsKnow, Cached, Never

\* The history variables stay in their types when a session is made.
LEMMA MakeSessionType ==
    ASSUME TypeInv, NEW t \in Token, NEW x \in Extra, MakeSession(t, x)
    PROVE  TypeInv'
  <1> DEFINE r == [tCreated |-> now, tLastSeen |-> now, sExtra |-> x]
  <1>1. r \in Record
    BY KSessionAssumption DEF TypeInv, TypeOK, Record
  <1>2. Stored(r) \in Record
    BY <1>1, StoredIsRecord
  <1>3. /\ now \in 0 .. Never /\ now \in 0 .. MaxNow
        /\ Never \in Nat
    BY KSessionAssumption DEF TypeInv, TypeOK, Never
  <1>4. /\ born' = [born EXCEPT ![t] = now]
        /\ UNCHANGED <<now, request, cutoff, gone>>
        /\ \/ /\ Backend' = [Backend EXCEPT ![t] = Stored(r)]
              /\ Cache' = [Cache EXCEPT ![t] = r]
              /\ active' = [active EXCEPT ![t] = now]
              /\ UNCHANGED bLastSeenDirty
           \/ UNCHANGED <<store, active>>
    BY DEF MakeSession
  <1> HIDE DEF r
  <1>5. /\ Backend' \in [Token -> Record \cup {None}]
        /\ Cache' \in [Token -> Record \cup {None}]
    BY <1>1, <1>2, <1>4 DEF TypeInv, TypeOK, store
  <1>6. bLastSeenDirty' \subseteq {u \in Token : Cached(u)'}
    BY <1>1, <1>4, NoneAssumption DEF TypeInv, TypeOK, store, Cached
  <1>7. born' \in [Token -> 0 .. Never] /\ active' \in [Token -> 0 .. MaxNow]
    BY <1>3, <1>4 DEF TypeInv, TypeOK
  <1> QED
    BY <1>4, <1>5, <1>6, <1>7 DEF TypeInv, TypeOK, RequestsKnow, request, Never

\* Steps of the store keep the types when they keep the requests' and the history's.
LEMMA TypeStep == TypeInv /\ [Next]_vars => TypeInv'
  <1> SUFFICES ASSUME TypeInv, [Next]_vars PROVE TypeInv'
    OBVIOUS
  <1> USE DEF TypeInv
  <1>1. ASSUME NEW t \in Token, NEW x \in Extra, MakeSession(t, x) PROVE TypeInv'
    BY <1>1, MakeSessionType
  <1>2. ASSUME NEW t \in Token, NEW x \in Extra, UpdateExtra(t, x) PROVE TypeInv'
    <2>1. ASSUME NEW r \in Record PROVE [r EXCEPT !.sExtra = x] \in Record
      BY DEF Record
    <2>2. Backend[t] \in Record /\ (Cached(t) => Cache[t] \in Record)
      BY <1>2 DEF UpdateExtra, TypeOK, InDatabase, Cached
    <2>3. Backend' \in [Token -> Record \cup {None}]
      BY <1>2, <2>1, <2>2 DEF UpdateExtra, TypeOK
    <2>4. /\ Cache' \in [Token -> Record \cup {None}]
          /\ \A u \in Token : Cached(u) => Cache'[u] # None
      BY <1>2, <2>1, <2>2, NoneAssumption DEF UpdateExtra, TypeOK, Cached
    <2> QED
      BY <1>2, <2>3, <2>4 DEF UpdateExtra, TypeOK, RequestsKnow, request, history, Cached, Never
  <1>3. ASSUME NEW r \in Request, NEW t \in Token, Validate(r, t) PROVE TypeInv'
    <2>1. Lookup(t) \in Record
      BY <1>3 DEF Validate, Lookup, TypeOK, Cached
    <2>2. /\ Cache' \in [Token -> Record \cup {None}]
          /\ \A u \in Token : Cached(u) => Cache'[u] # None
          /\ UNCHANGED <<Backend, bLastSeenDirty>>
      BY <1>3, <2>1 DEF Validate, Load, TypeOK, Cached
    <2>3. /\ token' \in [Request -> Token \cup {None}]
          /\ Rec' \in [Request -> Record \cup {None}]
          /\ pc' \in [Request -> {"idle", "found", "erase", "touch"}]
      BY <1>3, <2>1 DEF Validate, Enter, TypeOK
    <2>4. RequestsKnow'
      BY <1>3, <2>1 DEF Validate, Enter, TypeOK, RequestsKnow
    <2> QED
      BY <1>3, <2>2, <2>3, <2>4 DEF Validate, TypeOK, history, Cached, Never
  <1>4. ASSUME NEW r \in Request, Decide(r) PROVE TypeInv'
    <2>0. pc[r] = "found"
      BY <1>4 DEF Decide
    <2>1. token[r] \in Token /\ now \in 0 .. MaxNow
      BY <2>0 DEF TypeOK, RequestsKnow
    <2>2. active' \in [Token -> 0 .. MaxNow] /\ tNow' \in [Request -> 0 .. MaxNow]
      BY <1>4, <2>1 DEF Decide, TypeOK
    <2>3. /\ Rec' \in [Request -> Record \cup {None}]
          /\ pc' \in [Request -> {"idle", "found", "erase", "touch"}]
      BY <1>4 DEF Decide, Enter, TypeOK
    <2>4. RequestsKnow'
      BY <1>4 DEF Decide, Enter, TypeOK, RequestsKnow
    <2> QED
      BY <1>4, <2>2, <2>3, <2>4 DEF Decide, TypeOK, store, Cached, Never
  <1>5. ASSUME NEW r \in Request, ValidateErase(r) PROVE TypeInv'
    <2>0. pc[r] = "erase" /\ EraseAll({token[r]})
      BY <1>5 DEF ValidateErase
    <2>1. {token[r]} \in SUBSET Token
      BY <2>0 DEF RequestsKnow
    <2>2. /\ Backend' \in [Token -> Record \cup {None}]
          /\ Cache' \in [Token -> Record \cup {None}]
          /\ bLastSeenDirty' \subseteq {t \in Token : Cached(t)'}
      BY <2>0, <2>1, EraseEffect DEF TypeOK, Cached
    <2> QED
      BY <1>5, <2>2, KSessionAssumption
      DEF ValidateErase, Return, Enter, TypeOK, RequestsKnow, history, Never
  <1>6. ASSUME NEW r \in Request, ValidateTouch(r) PROVE TypeInv'
    <2>0. pc[r] = "touch" /\ Touch(token[r], tNow[r])
      BY <1>6 DEF ValidateTouch
    <2>1. token[r] \in Token /\ tNow[r] \in 0 .. MaxNow
      BY <2>0 DEF TypeOK, RequestsKnow
    <2>2. /\ Backend' \in [Token -> Record \cup {None}]
          /\ Cache' \in [Token -> Record \cup {None}]
          /\ bLastSeenDirty' \subseteq {t \in Token : Cached(t)'}
      BY <2>0, <2>1, TouchEffect, NoneAssumption DEF TypeOK, Cached
    <2> QED
      BY <1>6, <2>2, KSessionAssumption
      DEF ValidateTouch, Return, Enter, TypeOK, RequestsKnow, history, Never
  <1>7. ASSUME NEW ts \in SUBSET Token, LogoutOf(ts) PROVE TypeInv'
    <2>1. /\ Backend' \in [Token -> Record \cup {None}]
          /\ Cache' \in [Token -> Record \cup {None}]
          /\ bLastSeenDirty' \subseteq {t \in Token : Cached(t)'}
      BY <1>7, EraseEffect DEF LogoutOf, TypeOK, Cached
    <2> QED
      BY <1>7, <2>1 DEF LogoutOf, TypeOK, RequestsKnow, request, Never
  <1>8. CASE PurgeStart
    BY <1>8 DEF PurgeStart, TypeOK, RequestsKnow, store, request, history, Cached, Never
  <1>9. CASE PurgeExpired
    <2>1. Cutoff(cutoff, IdleTimeout) \in Nat /\ Cutoff(cutoff, AbsoluteTimeout) \in Nat
      BY CutoffIsTime, KSessionAssumption DEF TypeOK
    <2>2. Purge(Cutoff(cutoff, IdleTimeout), Cutoff(cutoff, AbsoluteTimeout))
      BY <1>9 DEF PurgeExpired
    <2>3. /\ Backend' \in [Token -> Record \cup {None}]
          /\ Cache' \in [Token -> Record \cup {None}]
          /\ bLastSeenDirty' = {}
      BY <2>1, <2>2, PurgeEffect
    <2> QED
      BY <1>9, <2>3, KSessionAssumption
      DEF PurgeExpired, TypeOK, RequestsKnow, request, history, Never
  <1>10. CASE Crash
    BY <1>10, KSessionAssumption
    DEF Crash, Forget, TypeOK, RequestsKnow, history, Never
  <1>11. CASE Shutdown
    BY <1>11, FlushedRows, KSessionAssumption
    DEF Shutdown, Forget, TypeOK, RequestsKnow, history, Never
  <1>12. CASE Tick
    BY <1>12, KSessionAssumption
    DEF Tick, TypeOK, RequestsKnow, store, request, history, Cached, Never
  <1>13. CASE UNCHANGED vars
    BY <1>13 DEF vars, TypeOK, RequestsKnow, store, request, history, Cached, Never
  <1>14. CASE Logout \/ LogoutAllFor
    BY <1>7, <1>14 DEF Logout, LogoutAllFor
  <1> QED
    BY <1>1, <1>2, <1>3, <1>4, <1>5, <1>6, <1>8, <1>9, <1>10, <1>11, <1>12, <1>13,
       <1>14 DEF Next

\* Sessions are records of the right type wherever they are kept, the entries to be
\* flushed are cached ones, and a request on its way through Validate() has a token
\* (ksession.cpp, ksessioncachingstore.cpp).
THEOREM SessionTypeCorrect == Spec => []TypeOK
  <1>1. TypeInv => TypeOK
    BY DEF TypeInv
  <1> QED
    BY TypeInit, TypeStep, <1>1, PTL DEF Spec

-----------------------------------------------------------------------------
\* The cache and the database.

\* A record with rounded time stamps.
Whole(r) == r.tCreated = Seconds(r.tCreated) /\ r.tLastSeen = Seconds(r.tLastSeen)

\* The rows of the database have them: a record that is loaded from a row agrees with it.
WholeSeconds == \A t \in Token : InDatabase(t) => Whole(Backend[t])

\* What CacheCoherent says of one token.
CoherentAt(t) ==
    Cached(t) =>
        /\ InDatabase(t)
        /\ Backend[t].sExtra = Cache[t].sExtra
        /\ Backend[t].tCreated = Seconds(Cache[t].tCreated)
        /\ t \notin bLastSeenDirty => Backend[t].tLastSeen = Seconds(Cache[t].tLastSeen)

\* The row of a cached record is, once flushed, the record with rounded times, so that
\* the database expires it no earlier than the cache does.
LEMMA PurgeTogether ==
    ASSUME TypeOK, CacheCoherent, "touch" \notin Faults,
           NEW a \in Nat, NEW b \in Nat, Purge(a, b), NEW t \in Token, Cached(t)'
    PROVE  CoherentAt(t)'
  <1>1. /\ \/ Backend' = Flushed
           \/ Backend' =
                 [u \in Token |->
                     IF Flushed[u] # None /\ Expired(Flushed[u], Seconds(a), Seconds(b))
                     THEN None ELSE Flushed[u]]
        /\ Cache' = [u \in Token |->
                        IF Cached(u) /\ Expired(Cache[u], a, b) THEN None ELSE Cache[u]]
        /\ bLastSeenDirty' = {}
    BY DEF Purge
  <1>2. Cached(t) /\ ~Expired(Cache[t], a, b) /\ Cache'[t] = Cache[t]
    BY <1>1 DEF Cached
  <1>3. /\ Cache[t] \in Record /\ Backend[t] \in Record /\ InDatabase(t)
        /\ Backend[t].sExtra = Cache[t].sExtra
        /\ Backend[t].tCreated = Seconds(Cache[t].tCreated)
        /\ t \notin bLastSeenDirty => Backend[t].tLastSeen = Seconds(Cache[t].tLastSeen)
    BY <1>2 DEF CacheCoherent, TypeOK, Cached, InDatabase
  <1>4. /\ Flushed[t] \in Record
        /\ Flushed[t].sExtra = Cache[t].sExtra
        /\ Flushed[t].tCreated = Seconds(Cache[t].tCreated)
        /\ Flushed[t].tLastSeen = Seconds(Cache[t].tLastSeen)
    BY <1>3, FlushedRows
  <1>5. /\ Cache[t].tCreated \in Nat /\ Cache[t].tLastSeen \in Nat
        /\ Seconds(Cache[t].tCreated) \in Nat /\ Seconds(Cache[t].tLastSeen) \in Nat
        /\ Seconds(a) \in Nat /\ Seconds(b) \in Nat
        /\ Seconds(a) <= a /\ Seconds(b) <= b
    <2>1. Cache[t].tCreated \in Nat /\ Cache[t].tLastSeen \in Nat
      BY <1>3, KSessionAssumption DEF Record
    <2> QED
      BY <2>1, SecondsBelow
  <1>6. ~Expired(Flushed[t], Seconds(a), Seconds(b))
    <2>1. ASSUME Seconds(a) # 0 /\ Seconds(Cache[t].tLastSeen) < Seconds(a) PROVE FALSE
      <3>1. ~(a <= Cache[t].tLastSeen)
        BY <2>1, <1>5, SecondsMonotone
      <3>2. a # 0
        BY <2>1, <1>5
      <3> QED
        BY <3>1, <3>2, <1>2, <1>5 DEF Expired
    <2>2. ASSUME Seconds(b) # 0 /\ Seconds(Cache[t].tCreated) < Seconds(b) PROVE FALSE
      <3>1. ~(b <= Cache[t].tCreated)
        BY <2>2, <1>5, SecondsMonotone
      <3>2. b # 0
        BY <2>2, <1>5
      <3> QED
        BY <3>1, <3>2, <1>2, <1>5 DEF Expired
    <2> QED
      BY <2>1, <2>2, <1>4 DEF Expired
  <1>7. Backend'[t] = Flushed[t]
    BY <1>1, <1>6
  <1> QED
    BY <1>1, <1>2, <1>4, <1>7, NoneAssumption DEF CoherentAt, Cached, InDatabase

\* Every statement that writes a time stamp rounds it.
LEMMA WholeSecondsStep ==
    ASSUME TypeInv, WholeSeconds, [Next]_vars
    PROVE  WholeSeconds'
  <1> USE DEF TypeInv
  <1> SUFFICES ASSUME NEW u \in Token, InDatabase(u)' PROVE Whole(Backend'[u])
    BY DEF WholeSeconds, Whole
  <1>0. ASSUME Backend'[u] = Backend[u] PROVE Whole(Backend'[u])
    BY <1>0 DEF WholeSeconds, InDatabase
  <1>1. ASSUME NEW t \in Token, NEW x \in Extra, MakeSession(t, x)
        PROVE Whole(Backend'[u])
    <2> DEFINE r == [tCreated |-> now, tLastSeen |-> now, sExtra |-> x]
    <2>1. r \in Record /\ r.tCreated = now /\ r.tLastSeen = now /\ now \in Nat
      BY KSessionAssumption DEF TypeOK, Record
    <2>2. /\ Stored(r).tCreated = Seconds(now)
          /\ Stored(r).tLastSeen = Seconds(now)
      BY <2>1, StoredIsRecord
    <2>3. Backend' = [Backend EXCEPT ![t] = Stored(r)] \/ UNCHANGED Backend
      BY <1>1 DEF MakeSession, store
    <2> HIDE DEF r
    <2> QED
      BY <1>0, <2>1, <2>2, <2>3, SecondsAgain DEF Whole, TypeOK
  <1>2. ASSUME NEW t \in Token, NEW x \in Extra, UpdateExtra(t, x)
        PROVE Whole(Backend'[u])
    <2>1. Backend[t] \in Record /\ Backend' = [Backend EXCEPT ![t].sExtra = x]
      BY <1>2 DEF UpdateExtra, TypeOK, InDatabase
    <2>2. Backend'[u].tCreated = Backend[u].tCreated /\ Backend'[u].tLastSeen = Backend[u].tLastSeen
      BY <2>1 DEF TypeOK, Record
    <2>3. InDatabase(u)
      BY <2>1, NoneAssumption DEF InDatabase, TypeOK
    <2> QED
      BY <2>2, <2>3 DEF WholeSeconds, Whole
  <1>3. ASSUME NEW ts \in SUBSET Token, EraseAll(ts) PROVE Whole(Backend'[u])
    BY <1>0, <1>3, EraseEffect DEF InDatabase
  <1>4. ASSUME NEW r \in Request, ValidateTouch(r) PROVE Whole(Backend'[u])
    <2> DEFINE t == token[r]
    <2>1. pc[r] = "touch" /\ Touch(t, tNow[r])
      BY <1>4 DEF ValidateTouch
    <2>2. t \in Token /\ tNow[r] \in 0 .. MaxNow /\ tNow[r] \in Nat
      BY <2>1 DEF TypeOK, RequestsKnow
    <2> HIDE DEF t
    <2>3. ASSUME Backend'[u] # Backend[u]
          PROVE  /\ u = t /\ Backend[u] \in Record
                 /\ Backend'[u].tLastSeen = Seconds(tNow[r])
                 /\ Backend'[u].tCreated = Backend[u].tCreated
      BY <2>1, <2>2, <2>3, TouchEffect
    <2>4. CASE Backend'[u] # Backend[u]
      <3>1. Backend[u].tCreated = Seconds(Backend[u].tCreated)
        BY <2>3, <2>4, NoneAssumption DEF WholeSeconds, Whole, InDatabase
      <3> QED
        BY <2>2, <2>3, <2>4, <3>1, SecondsAgain DEF Whole
    <2> QED
      BY <1>0, <2>4
  <1>5. ASSUME Backend'[u] = Flushed[u] PROVE Whole(Backend'[u])
    <2>1. CASE u \in bLastSeenDirty /\ InDatabase(u)
      <3>1. /\ Cache[u].tLastSeen \in Nat
            /\ Backend'[u].tLastSeen = Seconds(Cache[u].tLastSeen)
            /\ Backend'[u].tCreated = Backend[u].tCreated
        BY <1>5, <2>1, FlushedRows, KSessionAssumption DEF Record
      <3>2. Backend[u].tCreated = Seconds(Backend[u].tCreated)
        BY <2>1 DEF WholeSeconds, Whole
      <3> QED
        BY <3>1, <3>2, SecondsAgain DEF Whole
    <2> QED
      BY <1>0, <1>5, <2>1, FlushedRows
  <1>6. CASE PurgeExpired
    <2>1. Cutoff(cutoff, IdleTimeout) \in Nat /\ Cutoff(cutoff, AbsoluteTimeout) \in Nat
      BY CutoffIsTime, KSessionAssumption DEF TypeOK
    <2>2. Purge(Cutoff(cutoff, IdleTimeout), Cutoff(cutoff, AbsoluteTimeout))
      BY <1>6 DEF PurgeExpired
    <2>3. Backend'[u] \in {None, Backend[u], Flushed[u]}
      BY <2>1, <2>2, PurgeEffect
    <2> QED
      BY <1>0, <1>5, <2>3 DEF InDatabase
  <1>7. CASE Shutdown
    BY <1>5, <1>7 DEF Shutdown
  <1>8. ASSUME NEW r \in Request, ValidateErase(r) PROVE Whole(Backend'[u])
    BY <1>3, <1>8 DEF ValidateErase, RequestsKnow
  <1>9. CASE Logout \/ LogoutAllFor
    BY <1>3, <1>9 DEF Logout, LogoutAllFor, LogoutOf
  <1>10. ASSUME NEW r \in Request, NEW t \in Token, Validate(r, t) \/ Decide(r)
         PROVE Whole(Backend'[u])
    BY <1>0, <1>10 DEF Validate, Load, Decide, store
  <1>11. CASE PurgeStart \/ Crash \/ Tick \/ UNCHANGED vars
    BY <1>0, <1>11 DEF PurgeStart, Crash, Tick, vars, store
  <1> QED
    BY <1>1, <1>2, <1>4, <1>6, <1>7, <1>8, <1>9, <1>10, <1>11 DEF Next

LEMMA CoherentStep ==
    ASSUME "touch" \notin Faults, TypeInv, CacheCoherent, WholeSeconds,
           [Next]_vars
    PROVE  CacheCoherent'
  <1> USE DEF TypeInv
  <1> SUFFICES ASSUME NEW u \in Token, Cached(u)' PROVE CoherentAt(u)'
    BY DEF CacheCoherent, CoherentAt
  <1>0. CoherentAt(u)
    BY DEF CacheCoherent, CoherentAt
  <1>1. ASSUME NEW t \in Token, NEW x \in Extra, MakeSession(t, x) PROVE CoherentAt(u)'
    <2> DEFINE r == [tCreated |-> now, tLastSeen |-> now, sExtra |-> x]
    <2>1. r \in Record
      BY KSessionAssumption DEF TypeOK, Record
    <2>2. /\ Stored(r) \in Record
          /\ Stored(r).tCreated = Seconds(r.tCreated)
          /\ Stored(r).tLastSeen = Seconds(r.tLastSeen)
          /\ Stored(r).sExtra = r.sExtra
      BY <2>1, StoredIsRecord
    <2>3. \/ /\ Backend' = [Backend EXCEPT ![t] = Stored(r)]
             /\ Cache' = [Cache EXCEPT ![t] = r]
             /\ UNCHANGED bLastSeenDirty
          \/ UNCHANGED store
      BY <1>1 DEF MakeSession
    <2> HIDE DEF r
    <2> QED
      BY <1>0, <2>1, <2>2, <2>3, NoneAssumption
      DEF CoherentAt, Cached, InDatabase, TypeOK, store
  <1>2. ASSUME NEW t \in Token, NEW x \in Extra, UpdateExtra(t, x) PROVE CoherentAt(u)'
    <2>1. ASSUME NEW r \in Record
          PROVE LET s == [r EXCEPT !.sExtra = x]
                IN  /\ s \in Record /\ s.sExtra = x
                    /\ s.tCreated = r.tCreated /\ s.tLastSeen = r.tLastSeen
      BY DEF Record
    <2>2. Backend[t] \in Record /\ (Cached(t) => Cache[t] \in Record)
      BY <1>2 DEF UpdateExtra, TypeOK, InDatabase, Cached
    <2>3. Backend' = [Backend EXCEPT ![t] = [Backend[t] EXCEPT !.sExtra = x]]
      BY <1>2 DEF UpdateExtra
    <2>4. /\ Cached(t) => Cache' = [Cache EXCEPT ![t] = [Cache[t] EXCEPT !.sExtra = x]]
          /\ ~Cached(t) => Cache' = Cache
          /\ bLastSeenDirty' = bLastSeenDirty
      BY <1>2 DEF UpdateExtra
    <2>5. CASE u # t
      <3>1. Backend'[u] = Backend[u] /\ Cache'[u] = Cache[u]
        BY <2>3, <2>4, <2>5 DEF TypeOK
      <3> QED
        BY <1>0, <2>4, <3>1 DEF CoherentAt, Cached, InDatabase
    <2>6. CASE u = t
      <3>1. Cached(t)
        BY <2>4, <2>6 DEF Cached
      <3>2. /\ Backend'[u] = [Backend[t] EXCEPT !.sExtra = x]
            /\ Cache'[u] = [Cache[t] EXCEPT !.sExtra = x]
        BY <2>3, <2>4, <2>6, <3>1 DEF TypeOK
      <3>3. /\ Backend'[u] \in Record /\ Backend'[u].sExtra = x
            /\ Backend'[u].tCreated = Backend[u].tCreated
            /\ Backend'[u].tLastSeen = Backend[u].tLastSeen
        BY <2>1, <2>2, <2>6, <3>2
      <3>4. /\ Cache'[u].sExtra = x
            /\ Cache'[u].tCreated = Cache[u].tCreated
            /\ Cache'[u].tLastSeen = Cache[u].tLastSeen
        BY <2>1, <2>2, <2>6, <3>1, <3>2
      <3> QED
        BY <1>0, <2>4, <2>6, <3>1, <3>3, <3>4, NoneAssumption DEF CoherentAt, Cached, InDatabase
    <2> QED
      BY <2>5, <2>6
  <1>3. ASSUME NEW r \in Request, NEW t \in Token, Validate(r, t) PROVE CoherentAt(u)'
    <2>1. /\ Cache' = [Cache EXCEPT ![t] = Lookup(t)]
          /\ UNCHANGED <<Backend, bLastSeenDirty>>
      BY <1>3 DEF Validate, Load
    <2> QED
      BY <1>0, <2>1 DEF CoherentAt, Cached, InDatabase, TypeOK, Lookup, WholeSeconds, Whole
  <1>4. ASSUME NEW r \in Request, Decide(r) PROVE CoherentAt(u)'
    BY <1>0, <1>4 DEF Decide, store, CoherentAt, Cached, InDatabase
  <1>5. ASSUME NEW ts \in SUBSET Token, EraseAll(ts) PROVE CoherentAt(u)'
    <2>1. /\ Backend'[u] = Backend[u] /\ Cache'[u] = Cache[u]
          /\ u \in bLastSeenDirty <=> u \in bLastSeenDirty'
      BY <1>5, EraseEffect DEF Cached
    <2> QED
      BY <1>0, <2>1 DEF CoherentAt, Cached, InDatabase
  <1>6. ASSUME NEW r \in Request, ValidateErase(r) PROVE CoherentAt(u)'
    BY <1>5, <1>6 DEF ValidateErase, RequestsKnow
  <1>7. ASSUME NEW r \in Request, ValidateTouch(r) PROVE CoherentAt(u)'
    <2> DEFINE t == token[r]
    <2>1. pc[r] = "touch" /\ Touch(t, tNow[r])
      BY <1>7 DEF ValidateTouch
    <2>2. t \in Token /\ tNow[r] \in 0 .. MaxNow
      BY <2>1 DEF TypeOK, RequestsKnow
    <2> HIDE DEF t
    <2>3. CASE u = t /\ Cached(t)
      <3>1. /\ Backend' = Backend
            /\ Cache'[t].tCreated = Cache[t].tCreated
            /\ Cache'[t].sExtra = Cache[t].sExtra
            /\ bLastSeenDirty' = bLastSeenDirty \cup {t}
        BY <2>1, <2>2, <2>3, TouchEffect
      <3> QED
        BY <1>0, <2>3, <3>1 DEF CoherentAt, Cached, InDatabase
    <2>4. CASE u = t /\ ~Cached(t)
      <3>1. Cache' = Cache
        BY <2>1, <2>2, <2>4, TouchEffect
      <3> QED
        BY <2>4, <3>1 DEF Cached
    <2>5. CASE u # t
      <3>1. /\ Backend'[u] = Backend[u] /\ Cache'[u] = Cache[u]
            /\ u \in bLastSeenDirty <=> u \in bLastSeenDirty'
        BY <2>1, <2>2, <2>5, TouchEffect
      <3> QED
        BY <1>0, <3>1 DEF CoherentAt, Cached, InDatabase
    <2> QED
      BY <2>3, <2>4, <2>5
  <1>8. ASSUME NEW ts \in SUBSET Token, LogoutOf(ts) PROVE CoherentAt(u)'
    BY <1>5, <1>8 DEF LogoutOf
  <1>9. CASE PurgeExpired
    <2>1. Cutoff(cutoff, IdleTimeout) \in Nat /\ Cutoff(cutoff, AbsoluteTimeout) \in Nat
      BY CutoffIsTime, KSessionAssumption DEF TypeOK
    <2>2. Purge(Cutoff(cutoff, IdleTimeout), Cutoff(cutoff, AbsoluteTimeout))
      BY <1>9 DEF PurgeExpired
    <2> QED
      BY <2>1, <2>2, PurgeTogether
  <1>10. CASE Crash \/ Shutdown
    BY <1>10 DEF Crash, Shutdown, Forget, Cached
  <1>11. CASE PurgeStart \/ Tick \/ UNCHANGED vars
    BY <1>0, <1>11 DEF PurgeStart, Tick, vars, store, CoherentAt, Cached, InDatabase
  <1>12. CASE Logout \/ LogoutAllFor
    BY <1>8, <1>12 DEF Logout, LogoutAllFor
  <1> QED
    BY <1>1, <1>2, <1>3, <1>4, <1>6, <1>7, <1>9, <1>10, <1>11, <1>12 DEF Next

\* While the database takes every LastSeen it is given, the cache never diverges from
\* it, through parallel requests, purges, failed logouts and restarts
\* (ksessioncachingstore.h:79-83).
THEOREM CacheNeverDiverges ==
    ASSUME "touch" \notin Faults
    PROVE  Spec => []CacheCoherent
  <1>1. Init => CacheCoherent /\ WholeSeconds
    BY DEF Init, CacheCoherent, WholeSeconds, Cached, InDatabase
  <1>2. TypeInv /\ CacheCoherent /\ WholeSeconds /\ [Next]_vars
            => CacheCoherent' /\ WholeSeconds'
    BY CoherentStep, WholeSecondsStep
  <1> QED
    BY <1>1, <1>2, TypeInit, TypeStep, PTL DEF Spec

-----------------------------------------------------------------------------
\* The times of the records that are known.

\* A session was made, and the record r of it is not newer than its history: what the
\* record allows, the history allows.
Follows(r, t) == born[t] # Never /\ r.tCreated <= born[t] /\ r.tLastSeen <= active[t]

TimesFollow ==
    /\ \A t \in Token : /\ InDatabase(t) => Follows(Backend[t], t)
                        /\ Cached(t) => Follows(Cache[t], t)
                        /\ active[t] <= now
    /\ \A r \in Request : /\ pc[r] = "found" => Follows(Rec[r], token[r])
                          /\ pc[r] = "touch" => tNow[r] <= active[token[r]]

\* What a store call writes when the history stays as it is.
LEMMA StoreFollows ==
    ASSUME TypeInv, TimesFollow, UNCHANGED <<now, history>>, NEW u \in Token,
           \/ /\ \E ts \in SUBSET Token : EraseAll(ts)
           \/ /\ \E a \in Nat, b \in Nat : Purge(a, b)
    PROVE  /\ InDatabase(u)' => Follows(Backend[u], u)'
           /\ Cached(u)' => Follows(Cache[u], u)'
  <1> USE DEF TypeInv
  <1>1. /\ Cache'[u] \in {None, Cache[u]}
        /\ Backend'[u] \in {None, Backend[u], Flushed[u]}
    BY EraseEffect, PurgeEffect
  <1>2. Cached(u)' => Follows(Cache[u], u)'
    BY <1>1 DEF TimesFollow, Cached, Follows, history, Never
  <1>3. InDatabase(u)' => Follows(Backend'[u], u)
    <2>1. CASE Backend'[u] \in {None, Backend[u]}
      BY <2>1 DEF TimesFollow, InDatabase
    <2>2. CASE Backend'[u] = Flushed[u] /\ Flushed[u] # Backend[u]
      <3>1. /\ u \in bLastSeenDirty /\ InDatabase(u) /\ Cached(u)
            /\ Cache[u] \in Record /\ Backend[u] \in Record
            /\ Flushed[u].tLastSeen = Seconds(Cache[u].tLastSeen)
            /\ Flushed[u].tCreated = Backend[u].tCreated
        BY <2>2, FlushedRows DEF TypeOK
      <3>2. Follows(Backend[u], u) /\ Follows(Cache[u], u)
        BY <3>1 DEF TimesFollow
      <3>3. /\ Seconds(Cache[u].tLastSeen) \in Nat
            /\ Seconds(Cache[u].tLastSeen) <= Cache[u].tLastSeen
            /\ Cache[u].tLastSeen \in Nat /\ active[u] \in Nat
        BY <3>1, SecondsBelow, KSessionAssumption DEF Record, TypeOK
      <3> QED
        BY <2>2, <3>1, <3>2, <3>3 DEF Follows
    <2> QED
      BY <1>1, <2>1, <2>2
  <1>4. InDatabase(u)' => Follows(Backend[u], u)'
    BY <1>3 DEF Follows, history, Never
  <1> QED
    BY <1>2, <1>4

LEMMA FollowStep ==
    ASSUME TypeInv, TimesFollow, [Next]_vars
    PROVE  TimesFollow'
  <1> USE DEF TypeInv
  <1>a. ASSUME UNCHANGED <<now, history>>, UNCHANGED request,
               \A u \in Token : /\ InDatabase(u)' => Follows(Backend[u], u)'
                                /\ Cached(u)' => Follows(Cache[u], u)'
        PROVE  TimesFollow'
    BY <1>a DEF TimesFollow, Follows, request, history, Never
  <1>b. ASSUME UNCHANGED <<now, history>>, NEW r \in Request, Return(r),
               \A u \in Token : /\ InDatabase(u)' => Follows(Backend[u], u)'
                                /\ Cached(u)' => Follows(Cache[u], u)'
        PROVE  TimesFollow'
    BY <1>b DEF TimesFollow, Follows, Return, Enter, TypeOK, history, Never
  <1>1. ASSUME NEW t \in Token, NEW x \in Extra, MakeSession(t, x) PROVE TimesFollow'
    <2> DEFINE r == [tCreated |-> now, tLastSeen |-> now, sExtra |-> x]
    <2>1. /\ r \in Record /\ r.tCreated = now /\ r.tLastSeen = now
          /\ now \in Nat /\ now # Never /\ now <= now
      BY KSessionAssumption DEF TypeOK, Record, Never
    <2>2. /\ Stored(r).tCreated = Seconds(now) /\ Stored(r).tLastSeen = Seconds(now)
          /\ Seconds(now) \in Nat /\ Seconds(now) <= now
      BY <2>1, StoredIsRecord, SecondsBelow
    <2>3. /\ born[t] = Never /\ born' = [born EXCEPT ![t] = now]
          /\ UNCHANGED <<now, request>>
          /\ \/ /\ Backend' = [Backend EXCEPT ![t] = Stored(r)]
                /\ Cache' = [Cache EXCEPT ![t] = r]
                /\ active' = [active EXCEPT ![t] = now]
             \/ UNCHANGED <<Backend, Cache, active>>
      BY <1>1 DEF MakeSession, store
    <2> HIDE DEF r
    <2>4. ~InDatabase(t) /\ ~Cached(t)
      BY <2>3 DEF TimesFollow, Follows
    <2>5. /\ \A u \in Token : u # t => born'[u] = born[u] /\ active'[u] = active[u]
          /\ born'[t] = now
          /\ active'[t] = now \/ (active'[t] = active[t] /\ Backend' = Backend /\ Cache' = Cache)
      BY <2>3 DEF TypeOK
    <2>6. ASSUME NEW u \in Token
          PROVE  /\ InDatabase(u)' => Follows(Backend[u], u)'
                 /\ Cached(u)' => Follows(Cache[u], u)'
                 /\ active'[u] <= now'
      <3>1. CASE u = t
        BY <2>1, <2>2, <2>3, <2>4, <2>5, <3>1
        DEF Follows, InDatabase, Cached, TypeOK, TimesFollow, Never
      <3>2. CASE u # t
        <4>1. Backend'[u] = Backend[u] /\ Cache'[u] = Cache[u]
          BY <2>3, <3>2 DEF TypeOK
        <4> QED
          BY <2>3, <2>5, <3>2, <4>1 DEF Follows, InDatabase, Cached, TimesFollow, Never
      <3> QED
        BY <3>1, <3>2
    <2>7. ASSUME NEW q \in Request
          PROVE  /\ pc'[q] = "found" => Follows(Rec[q], token[q])'
                 /\ pc'[q] = "touch" => tNow'[q] <= active'[token'[q]]
      <3>1. pc[q] # "idle" => token[q] \in Token
        BY DEF RequestsKnow
      <3>2. pc[q] = "found" => token[q] # t
        BY <2>3 DEF TimesFollow, Follows
      <3>3. CASE pc[q] = "found"
        BY <2>3, <2>5, <3>1, <3>2, <3>3 DEF TimesFollow, Follows, request, Never
      <3>4. CASE pc[q] = "touch"
        <4>1. /\ tNow[q] <= active[token[q]] /\ active[token[q]] <= now
              /\ tNow[q] \in Nat /\ active[token[q]] \in Nat
          BY <3>1, <3>4, KSessionAssumption DEF TimesFollow, TypeOK
        <4>2. active'[token[q]] = active[token[q]] \/ active'[token[q]] = now
          BY <2>5, <3>1, <3>4
        <4> QED
          BY <2>1, <2>3, <3>4, <4>1, <4>2 DEF request
      <3> QED
        BY <2>3, <3>3, <3>4 DEF request
    <2> QED
      BY <2>6, <2>7 DEF TimesFollow
  <1>2. ASSUME NEW t \in Token, NEW x \in Extra, UpdateExtra(t, x) PROVE TimesFollow'
    <2>1. /\ Backend[t] \in Record /\ (Cached(t) => Cache[t] \in Record)
          /\ Backend' = [Backend EXCEPT ![t] = [Backend[t] EXCEPT !.sExtra = x]]
          /\ Cached(t) => Cache' = [Cache EXCEPT ![t] = [Cache[t] EXCEPT !.sExtra = x]]
          /\ ~Cached(t) => Cache' = Cache
          /\ UNCHANGED <<now, request, history>>
      BY <1>2 DEF UpdateExtra, TypeOK, InDatabase, Cached
    <2>2. ASSUME NEW r \in Record
          PROVE LET s == [r EXCEPT !.sExtra = x]
                IN  s.tCreated = r.tCreated /\ s.tLastSeen = r.tLastSeen
      BY DEF Record
    <2>3. ASSUME NEW u \in Token
          PROVE  /\ InDatabase(u)' => InDatabase(u) /\ Backend'[u].tCreated = Backend[u].tCreated
                                     /\ Backend'[u].tLastSeen = Backend[u].tLastSeen
                 /\ Cached(u)' => Cached(u) /\ Cache'[u].tCreated = Cache[u].tCreated
                                 /\ Cache'[u].tLastSeen = Cache[u].tLastSeen
      <3>1. CASE u # t
        <4>1. Backend'[u] = Backend[u] /\ Cache'[u] = Cache[u]
          BY <2>1, <3>1 DEF TypeOK
        <4> QED
          BY <4>1 DEF InDatabase, Cached
      <3>2. CASE u = t
        <4>1. InDatabase(u) /\ Backend'[u] = [Backend[t] EXCEPT !.sExtra = x]
          BY <1>2, <2>1, <3>2 DEF UpdateExtra, TypeOK
        <4>2. Cached(u) => Cache'[u] = [Cache[t] EXCEPT !.sExtra = x]
          BY <2>1, <3>2 DEF TypeOK
        <4>3. ~Cached(u) => ~Cached(u)'
          BY <2>1, <3>2 DEF Cached
        <4> QED
          BY <2>1, <2>2, <3>2, <4>1, <4>2, <4>3
      <3> QED
        BY <3>1, <3>2
    <2>4. \A u \in Token : /\ InDatabase(u)' => Follows(Backend[u], u)'
                           /\ Cached(u)' => Follows(Cache[u], u)'
      BY <2>1, <2>3 DEF TimesFollow, Follows, history, Never
    <2> QED
      BY <1>a, <2>1, <2>4
  <1>3. ASSUME NEW r \in Request, NEW t \in Token, Validate(r, t) PROVE TimesFollow'
    <2>1. Follows(Lookup(t), t)
      BY <1>3 DEF Validate, Lookup, Cached, InDatabase, TimesFollow
    <2>2. /\ Cache' = [Cache EXCEPT ![t] = Lookup(t)] /\ Backend' = Backend
          /\ Rec' = [Rec EXCEPT ![r] = Lookup(t)] /\ token' = [token EXCEPT ![r] = t]
          /\ pc' = [pc EXCEPT ![r] = "found"]
          /\ UNCHANGED <<tNow, now, history>>
      BY <1>3 DEF Validate, Load, Enter
    <2>3. \A u \in Token : Cached(u)' => Follows(Cache'[u], u)
      BY <2>1, <2>2 DEF TimesFollow, Cached, TypeOK
    <2>4. \A q \in Request : /\ pc'[q] = "found" => Follows(Rec'[q], token'[q])
                             /\ pc'[q] = "touch" => tNow'[q] <= active[token'[q]]
      BY <2>1, <2>2 DEF TimesFollow, TypeOK
    <2> QED
      BY <2>2, <2>3, <2>4 DEF TimesFollow, Follows, InDatabase, history, Never
  <1>4. ASSUME NEW r \in Request, Decide(r) PROVE TimesFollow'
    <2>1. pc[r] = "found" /\ token[r] \in Token
      BY <1>4 DEF Decide, RequestsKnow
    <2>2. /\ UNCHANGED <<Backend, Cache, token, now, born>>
          /\ \A q \in Request : q # r => pc'[q] = pc[q] /\ tNow'[q] = tNow[q] /\ Rec'[q] = Rec[q]
          /\ \/ pc'[r] = "erase" /\ UNCHANGED active
             \/ pc'[r] = "touch" /\ tNow'[r] = now /\ active' = [active EXCEPT ![token[r]] = now]
      BY <1>4 DEF Decide, Enter, TypeOK, store
    <2>3. \A t \in Token : /\ active[t] \in Nat /\ active'[t] \in Nat /\ now \in Nat
                           /\ active[t] <= active'[t] /\ active'[t] <= now
      BY <2>1, <2>2, KSessionAssumption DEF TypeOK, TimesFollow
    <2>4. ASSUME NEW t \in Token, NEW s \in Record, Follows(s, t)
          PROVE  s.tCreated <= born[t] /\ s.tLastSeen <= active'[t] /\ born[t] # Never
      <3>1. s.tLastSeen \in Nat /\ s.tLastSeen <= active[t]
        BY <2>4, KSessionAssumption DEF Follows, Record
      <3> QED
        BY <2>3, <2>4, <3>1 DEF Follows
    <2>5. ASSUME NEW t \in Token
          PROVE  /\ InDatabase(t)' => Follows(Backend[t], t)'
                 /\ Cached(t)' => Follows(Cache[t], t)'
      BY <2>2, <2>4 DEF TimesFollow, Follows, InDatabase, Cached, TypeOK, Never
    <2>6. ASSUME NEW q \in Request
          PROVE  /\ pc'[q] = "found" => Follows(Rec[q], token[q])'
                 /\ pc'[q] = "touch" => tNow'[q] <= active'[token'[q]]
      <3>1. CASE q = r
        BY <2>1, <2>2, <2>3, <3>1 DEF TypeOK
      <3>2. CASE q # r /\ pc[q] = "found"
        BY <2>2, <2>4, <3>2 DEF TimesFollow, RequestsKnow, Follows, Never
      <3>3. CASE q # r /\ pc[q] = "touch"
        <4>1. /\ token[q] \in Token /\ tNow[q] \in Nat /\ tNow[q] <= active[token[q]]
          BY <3>3, KSessionAssumption DEF TimesFollow, RequestsKnow, TypeOK
        <4> QED
          BY <2>2, <2>3, <3>3, <4>1
      <3> QED
        BY <2>2, <3>1, <3>2, <3>3
    <2> QED
      BY <2>2, <2>3, <2>5, <2>6 DEF TimesFollow
  <1>5. ASSUME NEW r \in Request, ValidateErase(r) PROVE TimesFollow'
    <2>1. \E ts \in SUBSET Token : EraseAll(ts)
      BY <1>5 DEF ValidateErase, RequestsKnow
    <2> QED
      BY <1>b, <1>5, <2>1, StoreFollows DEF ValidateErase
  <1>6. ASSUME NEW r \in Request, ValidateTouch(r) PROVE TimesFollow'
    <2> DEFINE t == token[r]
    <2>1. /\ pc[r] = "touch" /\ Touch(t, tNow[r]) /\ Return(r)
          /\ UNCHANGED <<now, history>>
      BY <1>6 DEF ValidateTouch
    <2>2. /\ t \in Token /\ tNow[r] \in 0 .. MaxNow /\ tNow[r] \in Nat
          /\ tNow[r] <= active[t] /\ active[t] \in Nat
      BY <2>1, KSessionAssumption DEF TypeOK, RequestsKnow, TimesFollow
    <2>3. Seconds(tNow[r]) \in Nat /\ Seconds(tNow[r]) <= tNow[r]
      BY <2>2, SecondsBelow
    <2> HIDE DEF t
    <2>4. ASSUME NEW u \in Token, InDatabase(u)' PROVE Follows(Backend'[u], u)
      <3>1. CASE Backend'[u] = Backend[u]
        BY <2>4, <3>1 DEF TimesFollow, InDatabase
      <3>2. CASE Backend'[u] # Backend[u]
        <4>1. /\ u = t /\ Backend[t] \in Record
              /\ Backend'[t].tLastSeen = Seconds(tNow[r])
              /\ Backend'[t].tCreated = Backend[t].tCreated
          BY <2>1, <2>2, <3>2, TouchEffect
        <4>2. Follows(Backend[t], t)
          BY <4>1, <2>2, NoneAssumption DEF TimesFollow, InDatabase
        <4> QED
          BY <2>2, <2>3, <4>1, <4>2 DEF Follows
      <3> QED
        BY <3>1, <3>2
    <2>5. ASSUME NEW u \in Token, Cached(u)' PROVE Follows(Cache'[u], u)
      <3>1. CASE Cache'[u] = Cache[u]
        BY <2>5, <3>1 DEF TimesFollow, Cached
      <3>2. CASE Cache'[u] # Cache[u]
        <4>1. /\ u = t /\ Cached(t)
              /\ Cache'[t].tLastSeen = tNow[r]
              /\ Cache'[t].tCreated = Cache[t].tCreated
          BY <2>1, <2>2, <3>2, TouchEffect
        <4>2. Follows(Cache[t], t)
          BY <4>1, <2>2 DEF TimesFollow
        <4> QED
          BY <2>2, <4>1, <4>2 DEF Follows
      <3> QED
        BY <3>1, <3>2
    <2>6. \A u \in Token : /\ InDatabase(u)' => Follows(Backend[u], u)'
                           /\ Cached(u)' => Follows(Cache[u], u)'
      BY <2>1, <2>4, <2>5 DEF Follows, history, Never
    <2> QED
      BY <1>b, <2>1, <2>6
  <1>7. ASSUME NEW ts \in SUBSET Token, EraseAll(ts),
               UNCHANGED <<now, request, born, active>>
        PROVE  TimesFollow'
    <2>1. /\ \A u \in Token : Cache'[u] \in {None, Cache[u]}
          /\ \A u \in Token : Backend'[u] \in {None, Backend[u]}
      BY <1>7, EraseEffect
    <2> QED
      BY <1>7, <2>1 DEF TimesFollow, Follows, InDatabase, Cached, request, Never
  <1>8. CASE Logout \/ LogoutAllFor
    BY <1>7, <1>8 DEF Logout, LogoutAllFor, LogoutOf
  <1>9. CASE PurgeExpired
    <2>1. Cutoff(cutoff, IdleTimeout) \in Nat /\ Cutoff(cutoff, AbsoluteTimeout) \in Nat
      BY CutoffIsTime, KSessionAssumption DEF TypeOK
    <2>2. \E a \in Nat, b \in Nat : Purge(a, b)
      BY <1>9, <2>1 DEF PurgeExpired
    <2> QED
      BY <1>a, <1>9, <2>2, StoreFollows DEF PurgeExpired
  <1>10. CASE Crash
    BY <1>10 DEF Crash, Forget, TimesFollow, Follows, InDatabase, Cached, history, Never
  <1>11. CASE Shutdown
    <2>1. /\ Backend' = Flushed /\ UNCHANGED <<now, history>>
          /\ Cache' = [t \in Token |-> None] /\ pc' = [r \in Request |-> "idle"]
      BY <1>11 DEF Shutdown, Forget
    <2>2. ASSUME NEW u \in Token, InDatabase(u)' PROVE Follows(Flushed[u], u)
      <3>1. CASE u \in bLastSeenDirty /\ InDatabase(u)
        <4>1. /\ Cache[u] \in Record /\ Cached(u) /\ active[u] \in Nat
              /\ Cache[u].tLastSeen \in Nat
              /\ Flushed[u].tLastSeen = Seconds(Cache[u].tLastSeen)
              /\ Flushed[u].tCreated = Backend[u].tCreated
          BY <3>1, FlushedRows, KSessionAssumption DEF TypeOK, Record
        <4>2. Follows(Cache[u], u) /\ Follows(Backend[u], u)
          BY <3>1, <4>1 DEF TimesFollow
        <4>3. /\ Seconds(Cache[u].tLastSeen) \in Nat
              /\ Seconds(Cache[u].tLastSeen) <= Cache[u].tLastSeen
          BY <4>1, SecondsBelow
        <4> QED
          BY <4>1, <4>2, <4>3 DEF Follows
      <3>2. CASE ~(u \in bLastSeenDirty /\ InDatabase(u))
        BY <2>1, <2>2, <3>2, FlushedRows DEF TimesFollow, InDatabase
      <3> QED
        BY <3>1, <3>2
    <2> QED
      BY <2>1, <2>2 DEF TimesFollow, Follows, Cached, history, Never
  <1>12. CASE Tick
    <2>1. \A t \in Token : active[t] \in Nat /\ active[t] <= now /\ now \in Nat
      BY KSessionAssumption DEF TypeOK, TimesFollow
    <2>2. /\ UNCHANGED <<Backend, Cache, pc, token, Rec, tNow, born, active>>
          /\ now' = now + 1
      BY <1>12 DEF Tick, store, request, history
    <2>3. \A t \in Token : active'[t] <= now'
      BY <2>1, <2>2
    <2> QED
      BY <2>2, <2>3 DEF TimesFollow, Follows, InDatabase, Cached, Never
  <1>13. CASE PurgeStart \/ UNCHANGED vars
    BY <1>13
    DEF PurgeStart, vars, store, request, history, TimesFollow, Follows, InDatabase, Cached, Never
  <1> QED
    BY <1>1, <1>2, <1>3, <1>4, <1>5, <1>6, <1>8, <1>9, <1>10, <1>11, <1>12, <1>13 DEF Next

\* A request accepts a session by a record that follows the history, so that the time
\* since it was made and last found valid is no longer than the record says.
LEMMA AcceptStep ==
    ASSUME TypeInv, TimesFollow, [Next]_vars,
           NEW r \in Request, pc[r] = "found", pc'[r] = "touch"
    PROVE  /\ AbsoluteTimeout > 0 => now - born[token[r]] <= AbsoluteTimeout
           /\ IdleTimeout > 0 => now - active[token[r]] <= IdleTimeout
  <1> USE DEF TypeInv
  <1>1. ~TimedOut(Rec[r], now)
    <2>1. ASSUME NEW q \in Request, Decide(q) PROVE ~TimedOut(Rec[r], now)
      BY <2>1 DEF Decide, Enter, TypeOK
    <2>2. ASSUME NEW q \in Request, NEW t \in Token, Validate(q, t) PROVE FALSE
      BY <2>2 DEF Validate, Enter, TypeOK
    <2>3. ASSUME NEW q \in Request, ValidateErase(q) \/ ValidateTouch(q) PROVE FALSE
      BY <2>3 DEF ValidateErase, ValidateTouch, Return, Enter, TypeOK
    <2>4. ASSUME NEW t \in Token, NEW x \in Extra, MakeSession(t, x) \/ UpdateExtra(t, x)
          PROVE  FALSE
      BY <2>4 DEF MakeSession, UpdateExtra, request
    <2>5. CASE Logout \/ LogoutAllFor \/ PurgeStart \/ PurgeExpired \/ Tick \/ UNCHANGED vars
      BY <2>5
      DEF Logout, LogoutAllFor, LogoutOf, PurgeStart, PurgeExpired, Tick, vars, request
    <2>6. CASE Crash \/ Shutdown
      BY <2>6 DEF Crash, Shutdown, Forget
    <2> QED
      BY <2>1, <2>2, <2>3, <2>4, <2>5, <2>6 DEF Next
  <1>2. /\ token[r] \in Token /\ Rec[r] \in Record /\ Follows(Rec[r], token[r])
    BY DEF RequestsKnow, TimesFollow
  <1>3. /\ Rec[r].tCreated \in Nat /\ Rec[r].tLastSeen \in Nat /\ now \in Nat
        /\ born[token[r]] \in Nat /\ active[token[r]] \in Nat
        /\ AbsoluteTimeout \in Nat /\ IdleTimeout \in Nat
    BY <1>2, KSessionAssumption DEF TypeOK, Record, Never
  <1>4. Rec[r].tCreated <= born[token[r]] /\ Rec[r].tLastSeen <= active[token[r]]
    BY <1>2 DEF Follows
  <1> QED
    BY <1>1, <1>3, <1>4 DEF TimedOut

\* Validate() only accepts a session within its time-outs, whatever was cached, flushed,
\* rounded, lost to a crash or to a failed statement, or written late by another request
\* (ksession.cpp:197-243).
THEOREM AcceptedWithinTimeouts == Spec => AcceptedInTime
  <1>1. Init => TimesFollow
    <2> SUFFICES ASSUME Init PROVE TimesFollow
      OBVIOUS
    <2>1. /\ \A t \in Token : ~InDatabase(t) /\ ~Cached(t) /\ active[t] <= now
          /\ \A r \in Request : pc[r] = "idle"
      BY DEF Init, InDatabase, Cached
    <2> QED
      BY <2>1 DEF TimesFollow
  <1>2. TypeInv /\ TimesFollow /\ [Next]_vars => TimesFollow'
    BY FollowStep
  <1>3. TypeInv /\ TimesFollow /\ [Next]_vars =>
            [\A r \in Request : (pc[r] = "found" /\ pc'[r] = "touch") =>
                LET t == token[r]
                IN  /\ AbsoluteTimeout > 0 => now - born[t] <= AbsoluteTimeout
                    /\ IdleTimeout > 0 => now - active[t] <= IdleTimeout]_vars
    BY AcceptStep
  <1> QED
    BY <1>1, <1>2, <1>3, TypeInit, TypeStep, PTL DEF Spec, AcceptedInTime

-----------------------------------------------------------------------------
\* Logout.

\* A session that was logged out was made, and no record of it is left.
GoneForGood == \A t \in gone : born[t] # Never /\ ~InDatabase(t) /\ ~Cached(t)

LEMMA GoneStep ==
    ASSUME TypeInv, GoneForGood, [Next]_vars
    PROVE  GoneForGood'
  <1> USE DEF TypeInv
  <1>a. ASSUME UNCHANGED <<born, gone>>,
               \A t \in gone : ~InDatabase(t)' /\ ~Cached(t)'
        PROVE  GoneForGood'
    BY <1>a DEF GoneForGood, Never
  <1>1. ASSUME NEW t \in Token, NEW x \in Extra, MakeSession(t, x) PROVE GoneForGood'
    <2>1. /\ t \notin gone /\ gone' = gone
          /\ \A u \in Token : u # t => /\ born'[u] = born[u]
                                       /\ Backend'[u] = Backend[u] /\ Cache'[u] = Cache[u]
      BY <1>1 DEF MakeSession, GoneForGood, TypeOK, store
    <2> QED
      BY <2>1 DEF GoneForGood, InDatabase, Cached, TypeOK, Never
  <1>2. ASSUME NEW t \in Token, NEW x \in Extra, UpdateExtra(t, x) PROVE GoneForGood'
    <2>1. /\ t \notin gone /\ UNCHANGED history
          /\ \A u \in Token : u # t => Backend'[u] = Backend[u] /\ Cache'[u] = Cache[u]
      BY <1>2 DEF UpdateExtra, GoneForGood, TypeOK
    <2> QED
      BY <1>a, <2>1 DEF GoneForGood, InDatabase, Cached, TypeOK, history
  <1>3. ASSUME NEW r \in Request, NEW t \in Token, Validate(r, t) PROVE GoneForGood'
    <2>1. /\ Backend' = Backend /\ Cache' = [Cache EXCEPT ![t] = Lookup(t)]
          /\ Lookup(t) # None /\ UNCHANGED history
      BY <1>3 DEF Validate, Load
    <2>2. t \notin gone
      BY <2>1 DEF Lookup, GoneForGood, InDatabase
    <2> QED
      BY <1>a, <2>1, <2>2 DEF GoneForGood, InDatabase, Cached, TypeOK, history
  <1>4. ASSUME NEW r \in Request, Decide(r) PROVE GoneForGood'
    BY <1>a, <1>4 DEF Decide, store, GoneForGood, InDatabase, Cached
  <1>5. ASSUME NEW ts \in SUBSET Token, EraseAll(ts), NEW u \in gone
        PROVE ~InDatabase(u)' /\ ~Cached(u)'
    <2>1. u \in Token /\ Backend[u] = None /\ Cache[u] = None
      BY DEF GoneForGood, InDatabase, Cached, TypeOK
    <2> QED
      BY <1>5, <2>1, EraseEffect DEF InDatabase, Cached
  <1>6. ASSUME NEW r \in Request, ValidateErase(r) PROVE GoneForGood'
    <2>1. {token[r]} \in SUBSET Token /\ EraseAll({token[r]}) /\ UNCHANGED history
      BY <1>6 DEF ValidateErase, RequestsKnow
    <2> QED
      BY <1>a, <1>5, <2>1 DEF history
  <1>7. ASSUME NEW r \in Request, ValidateTouch(r) PROVE GoneForGood'
    <2>1. pc[r] = "touch" /\ Touch(token[r], tNow[r]) /\ UNCHANGED history
      BY <1>7 DEF ValidateTouch
    <2>2. token[r] \in Token /\ tNow[r] \in 0 .. MaxNow
      BY <2>1 DEF TypeOK, RequestsKnow
    <2>3. ASSUME NEW u \in gone PROVE ~InDatabase(u)' /\ ~Cached(u)'
      <3>1. u \in Token /\ Backend[u] = None /\ Cache[u] = None
        BY DEF GoneForGood, InDatabase, Cached, TypeOK
      <3> QED
        BY <2>1, <2>2, <3>1, TouchEffect, NoneAssumption DEF InDatabase, Cached
    <2> QED
      BY <1>a, <2>1, <2>3 DEF history
  <1>8. ASSUME NEW ts \in SUBSET Token, LogoutOf(ts) PROVE GoneForGood'
    <2>1. EraseAll(ts) /\ born' = born
      BY <1>8 DEF LogoutOf
    <2>2. ASSUME NEW u \in gone PROVE born[u] # Never /\ ~InDatabase(u)' /\ ~Cached(u)'
      BY <1>5, <2>1 DEF GoneForGood
    <2>3. CASE gone' = gone
      BY <1>a, <2>1, <2>2, <2>3
    <2>4. CASE gone' # gone
      <3>1. gone' = gone \cup {t \in ts : born[t] # Never}
        BY <1>8, <2>4 DEF LogoutOf
      <3>2. Backend' = Rows(Token \ ts)
        BY <1>8, <2>4 DEF LogoutOf, EraseAll, Statement
      <3>3. ASSUME NEW u \in ts, born[u] # Never
            PROVE  born[u] # Never /\ ~InDatabase(u)' /\ ~Cached(u)'
        BY <2>1, <3>2, <3>3 DEF Rows, EraseAll, Uncache, InDatabase, Cached
      <3> QED
        BY <2>1, <2>2, <3>1, <3>3 DEF GoneForGood, Never
    <2> QED
      BY <2>3, <2>4
  <1>9. CASE PurgeExpired
    <2>1. Cutoff(cutoff, IdleTimeout) \in Nat /\ Cutoff(cutoff, AbsoluteTimeout) \in Nat
      BY CutoffIsTime, KSessionAssumption DEF TypeOK
    <2>2. /\ Purge(Cutoff(cutoff, IdleTimeout), Cutoff(cutoff, AbsoluteTimeout))
          /\ UNCHANGED history
      BY <1>9 DEF PurgeExpired
    <2>3. ASSUME NEW u \in gone PROVE ~InDatabase(u)' /\ ~Cached(u)'
      <3>1. u \in Token /\ Backend[u] = None /\ Cache[u] = None /\ Flushed[u] = Backend[u]
        BY FlushedRows DEF GoneForGood, InDatabase, Cached, TypeOK
      <3> QED
        BY <2>1, <2>2, <3>1, PurgeEffect DEF InDatabase, Cached
    <2> QED
      BY <1>a, <2>2, <2>3 DEF history
  <1>10. CASE Crash
    BY <1>a, <1>10 DEF Crash, Forget, history, GoneForGood, InDatabase, Cached, TypeOK
  <1>11. CASE Shutdown
    <2>1. \A u \in gone : u \in Token /\ Flushed[u] = None
      BY FlushedRows DEF GoneForGood, InDatabase, TypeOK
    <2> QED
      BY <1>a, <1>11, <2>1 DEF Shutdown, Forget, history, InDatabase, Cached
  <1>12. CASE PurgeStart \/ Tick \/ UNCHANGED vars
    BY <1>a, <1>12
    DEF PurgeStart, Tick, vars, store, history, GoneForGood, InDatabase, Cached
  <1>13. CASE Logout \/ LogoutAllFor
    BY <1>8, <1>13 DEF Logout, LogoutAllFor
  <1> QED
    BY <1>1, <1>2, <1>3, <1>4, <1>6, <1>7, <1>8, <1>9, <1>10, <1>11, <1>12, <1>13 DEF Next

\* A logout that reached the database is final: a Validate() that still has a copy of the
\* record, the flush of a purge or of the destructor, or a restart never brings the session
\* back (ksession.cpp:246-282, ksessioncachingstore.cpp).
THEOREM LogoutIsFinal == Spec => []LoggedOutIsGone
  <1>1. Init => GoneForGood
    BY DEF Init, GoneForGood
  <1>2. TypeInv /\ GoneForGood /\ [Next]_vars => GoneForGood'
    BY GoneStep
  <1>3. TypeInv /\ GoneForGood => LoggedOutIsGone
    BY DEF GoneForGood, LoggedOutIsGone, Lookup, InDatabase, Cached
  <1> QED
    BY <1>1, <1>2, <1>3, TypeInit, TypeStep, PTL DEF Spec
-----------------------------------------------------------------------------
(***************************************************************************)
(* Sessions over the caching store implement KSessionStore, for any        *)
(* tokens, requests, time-outs and bounds: every step maps to a step of    *)
(* the one simple store, or to none.                                       *)
(***************************************************************************)
\* What the refinement rests on: the invariants above, and a purge whose
\* clock was read in the past.
Inv == /\ TypeInv /\ CacheCoherent /\ WholeSeconds /\ TimesFollow /\ GoneForGood
       /\ cutoff <= now

\* The record of a token and the doomed tokens, as the refinement maps them.
records == [t \in Token |-> Lookup(t)]
Doomed  == {token[r] : r \in {q \in Request : pc[q] = "erase"}}

LEMMA InvInit == Init => Inv
  <1> SUFFICES ASSUME Init PROVE Inv
    OBVIOUS
  <1>1. TypeInv
    BY TypeInit
  <1>2. CacheCoherent /\ WholeSeconds /\ GoneForGood /\ cutoff <= now
    BY DEF Init, CacheCoherent, WholeSeconds, GoneForGood, Cached, InDatabase
  <1>3. /\ \A t \in Token : ~InDatabase(t) /\ ~Cached(t) /\ active[t] <= now
        /\ \A r \in Request : pc[r] = "idle"
    BY DEF Init, InDatabase, Cached
  <1>4. TimesFollow
    BY <1>3 DEF TimesFollow
  <1> QED
    BY <1>1, <1>2, <1>4 DEF Inv

\* The purge's clock stays in the past.
LEMMA CutoffStep ==
    ASSUME TypeInv, cutoff <= now, [Next]_vars
    PROVE  cutoff' <= now'
  <1>1. now \in Nat /\ cutoff \in Nat
    BY KSessionAssumption DEF TypeInv, TypeOK
  <1>2. cutoff' \in {cutoff, 0, now} /\ now' \in {now, now + 1}
    <2>1. ASSUME NEW t \in Token, NEW x \in Extra, MakeSession(t, x) \/ UpdateExtra(t, x)
          PROVE  UNCHANGED <<now, cutoff>>
      BY <2>1 DEF MakeSession, UpdateExtra
    <2>2. ASSUME NEW r \in Request, NEW t \in Token,
                 Validate(r, t) \/ Decide(r) \/ ValidateErase(r) \/ ValidateTouch(r)
          PROVE  UNCHANGED <<now, cutoff>>
      BY <2>2 DEF Validate, Decide, ValidateErase, ValidateTouch
    <2>3. ASSUME NEW r \in Request, Decide(r) \/ ValidateErase(r) \/ ValidateTouch(r)
          PROVE  UNCHANGED <<now, cutoff>>
      BY <2>3 DEF Decide, ValidateErase, ValidateTouch
    <2>4. CASE Logout \/ LogoutAllFor
      BY <2>4 DEF Logout, LogoutAllFor, LogoutOf
    <2>5. CASE PurgeStart \/ PurgeExpired \/ Tick \/ Crash \/ Shutdown \/ UNCHANGED vars
      BY <2>5 DEF PurgeStart, PurgeExpired, Tick, Crash, Shutdown, Forget, vars
    <2> QED
      BY <2>1, <2>2, <2>3, <2>4, <2>5 DEF Next
  <1> QED
    BY <1>1, <1>2

LEMMA InvStep ==
    ASSUME "touch" \notin Faults
    PROVE  Inv /\ [Next]_vars => Inv'
  BY TypeStep, CoherentStep, WholeSecondsStep, FollowStep, GoneStep, CutoffStep DEF Inv

\* What a record looks like after rounding: the same session, no younger.
LEMMA LookupType ==
    ASSUME TypeOK, NEW t \in Token
    PROVE  Lookup(t) \in Record \cup {None} /\ (Lookup(t) # None <=> Cached(t) \/ InDatabase(t))
  BY DEF TypeOK, Lookup, Cached, InDatabase

\* A row that takes the place of the record, as it is or flushed, is the same session
\* and looks no younger.
LEMMA RowIsAged ==
    ASSUME Inv, NEW t \in Token, Lookup(t) # None, NEW row \in {Backend[t], Flushed[t]}
    PROVE  /\ row \in Record
           /\ row.sExtra = Lookup(t).sExtra
           /\ row.tCreated <= Lookup(t).tCreated
           /\ row.tLastSeen <= active[t]
  <1> USE DEF Inv, TypeInv
  <1>1. InDatabase(t) /\ Backend[t] \in Record
    BY DEF CacheCoherent, Lookup, Cached, InDatabase, TypeOK
  <1>2. Follows(Backend[t], t)
    BY <1>1 DEF TimesFollow
  <1>3. CASE ~Cached(t)
    <2>1. t \notin bLastSeenDirty
      BY <1>3 DEF TypeOK
    <2>2. row = Backend[t]
      BY <2>1, FlushedRows
    <2>3. Backend[t].tCreated \in Nat
      BY <1>1, KSessionAssumption DEF Record
    <2> QED
      BY <1>1, <1>2, <1>3, <2>2, <2>3 DEF Lookup, Follows
  <1>4. CASE Cached(t)
    <2>1. /\ Cache[t] \in Record /\ Lookup(t) = Cache[t]
          /\ Backend[t].sExtra = Cache[t].sExtra
          /\ Backend[t].tCreated = Seconds(Cache[t].tCreated)
          /\ Follows(Cache[t], t)
      BY <1>4 DEF CacheCoherent, Lookup, Cached, TypeOK, TimesFollow
    <2>2. /\ Cache[t].tCreated \in Nat /\ Cache[t].tLastSeen \in Nat /\ active[t] \in Nat
          /\ Seconds(Cache[t].tCreated) <= Cache[t].tCreated
          /\ Seconds(Cache[t].tLastSeen) \in Nat
          /\ Seconds(Cache[t].tLastSeen) <= Cache[t].tLastSeen
      BY <2>1, SecondsBelow, KSessionAssumption DEF Record, TypeOK
    <2>3. CASE row = Backend[t]
      BY <1>1, <1>2, <2>1, <2>2, <2>3 DEF Follows
    <2>4. CASE row = Flushed[t] /\ row # Backend[t]
      <3>1. /\ Flushed[t] \in Record
            /\ Flushed[t].tLastSeen = Seconds(Cache[t].tLastSeen)
            /\ Flushed[t].tCreated = Backend[t].tCreated
            /\ Flushed[t].sExtra = Backend[t].sExtra
        BY <2>4, FlushedRows
      <3> QED
        BY <2>1, <2>2, <2>4, <3>1 DEF Follows
    <2> QED
      BY <2>3, <2>4
  <1> QED
    BY <1>3, <1>4

\* Steps of the abstract store, from what they do to each token.
LEMMA RecordsUnchanged ==
    ASSUME \A t \in Token : Lookup(t)' = Lookup(t)
    PROVE  UNCHANGED records
  BY DEF records

\* A step that leaves records, clock, history and requests alone is a stutter.
LEMMA Stutter ==
    ASSUME \A t \in Token : Lookup(t)' = Lookup(t), UNCHANGED <<now, active, gone, Doomed>>
    PROVE  UNCHANGED S!vars
  BY RecordsUnchanged DEF S!vars, records, Doomed

\* Nothing is doomed that was not, when the request that moves was not about to erase and
\* is not now.
LEMMA DoomedStays ==
    ASSUME NEW r \in Request, pc[r] # "erase", pc'[r] # "erase",
           \A q \in Request : q # r => pc'[q] = pc[q] /\ token'[q] = token[q]
    PROVE  UNCHANGED Doomed
  BY DEF Doomed

LEMMA MapMakeSession ==
    ASSUME Inv, NEW t \in Token, NEW x \in Extra, MakeSession(t, x)
    PROVE  S!Create(t) \/ UNCHANGED S!vars
  <1> USE DEF Inv, TypeInv
  <1> DEFINE r == [tCreated |-> now, tLastSeen |-> now, sExtra |-> x]
  <1>1. UNCHANGED Doomed
    BY DEF MakeSession, Doomed, request
  <1>2. CASE UNCHANGED <<store, active>>
    BY <1>1, <1>2, Stutter DEF MakeSession, Lookup, Cached, store
  <1>3. CASE ~UNCHANGED <<store, active>>
    <2>1. /\ born[t] = Never /\ Cache' = [Cache EXCEPT ![t] = r]
          /\ Backend' = [Backend EXCEPT ![t] = Stored(r)]
          /\ active' = [active EXCEPT ![t] = now] /\ UNCHANGED <<now, gone>>
      BY <1>3 DEF MakeSession
    <2>2. Lookup(t) = None /\ t \notin gone
      BY <2>1 DEF TimesFollow, Follows, GoneForGood, Lookup, Cached, InDatabase
    <2>3. r \in Record
      BY KSessionAssumption DEF TypeOK, Record
    <2>4. \A u \in Token : Lookup(u)' = IF u = t THEN r ELSE Lookup(u)
      BY <2>1, <2>3, NoneAssumption DEF Lookup, Cached, TypeOK
    <2> HIDE DEF r
    <2>5. records' = [records EXCEPT ![t] = r]
      BY <2>4 DEF records
    <2> QED
      BY <1>1, <2>1, <2>2, <2>5 DEF S!Create, S!Known, records, Doomed, r
  <1> QED
    BY <1>2, <1>3

LEMMA MapUpdateExtra ==
    ASSUME Inv, NEW t \in Token, NEW x \in Extra, UpdateExtra(t, x)
    PROVE  S!UpdateExtra(t)
  <1> USE DEF Inv, TypeInv
  <1>1. /\ Backend[t] \in Record /\ (Cached(t) => Cache[t] \in Record)
        /\ Backend' = [Backend EXCEPT ![t] = [Backend[t] EXCEPT !.sExtra = x]]
        /\ Cached(t) => Cache' = [Cache EXCEPT ![t] = [Cache[t] EXCEPT !.sExtra = x]]
        /\ ~Cached(t) => Cache' = Cache
        /\ UNCHANGED <<now, request, history>>
    BY DEF UpdateExtra, TypeOK, InDatabase, Cached
  <1>2. UNCHANGED Doomed
    BY <1>1 DEF Doomed, request
  <1>3. ASSUME NEW r \in Record PROVE [r EXCEPT !.sExtra = x] \in Record
    BY DEF Record
  <1>4. Lookup(t) \in Record /\ Lookup(t) # None
    BY <1>1, NoneAssumption DEF Lookup, Cached
  <1>5. Lookup(t)' = [Lookup(t) EXCEPT !.sExtra = x]
    <2>1. CASE Cached(t)
      <3>1. Cache'[t] = [Cache[t] EXCEPT !.sExtra = x] /\ Cache'[t] # None
        BY <1>1, <1>3, <2>1, NoneAssumption DEF TypeOK
      <3> QED
        BY <2>1, <3>1 DEF Lookup, Cached
    <2>2. CASE ~Cached(t)
      BY <1>1, <2>2 DEF Lookup, Cached, TypeOK
    <2> QED
      BY <2>1, <2>2
  <1>6. ASSUME NEW u \in Token, u # t PROVE Lookup(u)' = Lookup(u)
    <2>1. Backend'[u] = Backend[u] /\ Cache'[u] = Cache[u]
      BY <1>1, <1>6 DEF TypeOK
    <2> QED
      BY <2>1 DEF Lookup, Cached
  <1>7. records' = [records EXCEPT ![t] = [records[t] EXCEPT !.sExtra = x]]
    BY <1>5, <1>6 DEF records
  <1> QED
    BY <1>1, <1>2, <1>4, <1>7 DEF S!UpdateExtra, S!Known, records, Doomed, history

LEMMA MapValidate ==
    ASSUME Inv, NEW r \in Request, NEW t \in Token, Validate(r, t)
    PROVE  UNCHANGED S!vars
  <1> USE DEF Inv, TypeInv
  <1>1. /\ pc[r] = "idle" /\ pc' = [pc EXCEPT ![r] = "found"]
        /\ token' = [token EXCEPT ![r] = t]
        /\ Cache' = [Cache EXCEPT ![t] = Lookup(t)]
        /\ UNCHANGED <<Backend, now, history>>
    BY DEF Validate, Enter, Load
  <1>2. UNCHANGED Doomed
    <2>1. pc[r] # "erase" /\ pc'[r] # "erase"
      BY <1>1 DEF TypeOK
    <2>2. \A q \in Request : q # r => pc'[q] = pc[q] /\ token'[q] = token[q]
      BY <1>1 DEF TypeOK
    <2> QED
      BY <2>1, <2>2, DoomedStays
  <1>3. \A u \in Token : Lookup(u)' = Lookup(u)
    BY <1>1 DEF Lookup, Cached, TypeOK
  <1> QED
    BY <1>1, <1>2, <1>3, Stutter DEF history

LEMMA MapDecide ==
    ASSUME Inv, NEW r \in Request, Decide(r)
    PROVE  \E t \in Token : S!FindValid(t) \/ S!FindExpired(t)
  <1> USE DEF Inv, TypeInv
  <1> DEFINE t == token[r]
  <1>1. pc[r] = "found" /\ t \in Token /\ UNCHANGED <<store, token, now, gone>>
    BY DEF Decide, RequestsKnow
  <1>2. UNCHANGED records
    BY <1>1, RecordsUnchanged DEF Lookup, Cached, store
  <1>3. CASE pc' = [pc EXCEPT ![r] = "touch"] /\ active' = [active EXCEPT ![t] = now]
    <2>1. UNCHANGED Doomed
      <3>1. pc[r] # "erase" /\ pc'[r] # "erase"
        BY <1>1, <1>3 DEF TypeOK
      <3>2. \A q \in Request : q # r => pc'[q] = pc[q] /\ token'[q] = token[q]
        BY <1>1, <1>3 DEF TypeOK
      <3> QED
        BY <3>1, <3>2, DoomedStays
    <2> QED
      BY <1>1, <1>2, <1>3, <2>1 DEF S!FindValid, records, Doomed
  <1>4. CASE pc' = [pc EXCEPT ![r] = "erase"] /\ UNCHANGED active
    <2>1. Doomed' = Doomed \cup {t}
      BY <1>1, <1>4 DEF Doomed, TypeOK
    <2> QED
      BY <1>1, <1>2, <1>4, <2>1 DEF S!FindExpired, records, Doomed
  <1> QED
    BY <1>3, <1>4 DEF Decide, Enter

\* An erase that reaches the database leaves nothing of the sessions.
LEMMA EraseMaps ==
    ASSUME TypeOK, "erase" \notin Faults, NEW ts \in SUBSET Token, EraseAll(ts)
    PROVE  records' = [t \in Token |-> IF t \in ts THEN None ELSE records[t]]
  <1>1. /\ \A t \in Token : Cache'[t] = IF t \in ts THEN None ELSE Cache[t]
        /\ \A t \in Token : Backend'[t] = IF t \in ts THEN None ELSE Backend[t]
    BY DEF EraseAll, Uncache, Statement, Rows, TypeOK
  <1>2. \A t \in Token : Lookup(t)' = IF t \in ts THEN None ELSE Lookup(t)
    BY <1>1 DEF Lookup, Cached
  <1> QED
    BY <1>2 DEF records

LEMMA MapValidateErase ==
    ASSUME Inv, "erase" \notin Faults, NEW r \in Request, ValidateErase(r)
    PROVE  \E t \in Token : S!EraseDoomed(t)
  <1> USE DEF Inv, TypeInv
  <1> DEFINE t == token[r]
  <1>1. /\ pc[r] = "erase" /\ t \in Token /\ EraseAll({t})
        /\ pc' = [pc EXCEPT ![r] = "idle"] /\ token' = [token EXCEPT ![r] = None]
        /\ UNCHANGED <<now, history>>
    BY DEF ValidateErase, Return, Enter, RequestsKnow
  <1>2. t \in Doomed
    BY <1>1 DEF Doomed
  <1>3. Doomed' \in {Doomed, Doomed \ {t}}
    <2>1. Doomed \ {t} \subseteq Doomed'
      BY <1>1 DEF Doomed, TypeOK
    <2>2. Doomed' \subseteq Doomed
      BY <1>1 DEF Doomed, TypeOK
    <2>3. CASE t \in Doomed'
      BY <2>1, <2>2, <2>3
    <2>4. CASE t \notin Doomed'
      BY <2>1, <2>2, <2>4
    <2> QED
      BY <2>3, <2>4
  <1>4. records' = [u \in Token |-> IF u \in {t} THEN None ELSE records[u]]
    BY <1>1, EraseMaps
  <1> HIDE DEF t
  <1> QED
    BY <1>1, <1>2, <1>3, <1>4 DEF S!EraseDoomed, S!Erase, records, Doomed, history

LEMMA MapValidateTouch ==
    ASSUME Inv, NEW r \in Request, ValidateTouch(r)
    PROVE  (\E t \in Token : S!Touch(t)) \/ UNCHANGED S!vars
  <1> USE DEF Inv, TypeInv
  <1>0. PICK t \in Token : t = token[r]
    BY DEF ValidateTouch, RequestsKnow
  <1>1. /\ pc[r] = "touch" /\ Touch(t, tNow[r])
        /\ pc' = [pc EXCEPT ![r] = "idle"] /\ token' = [token EXCEPT ![r] = None]
        /\ UNCHANGED <<now, history>>
    BY <1>0 DEF ValidateTouch, Return, Enter
  <1>2. /\ tNow[r] \in 0 .. MaxNow /\ tNow[r] \in Nat
        /\ tNow[r] <= active[t] /\ active[t] \in Nat
        /\ Seconds(tNow[r]) \in Nat /\ Seconds(tNow[r]) <= tNow[r]
    <2>1. tNow[r] \in 0 .. MaxNow /\ tNow[r] \in Nat /\ active[t] \in Nat
      BY <1>1, KSessionAssumption DEF TypeOK
    <2>2. tNow[r] <= active[t]
      BY <1>0, <1>1 DEF TimesFollow
    <2> QED
      BY <2>1, <2>2, SecondsBelow
  <1>3. UNCHANGED Doomed
    <2>1. pc[r] # "erase" /\ pc'[r] # "erase"
      BY <1>1 DEF TypeOK
    <2>2. \A q \in Request : q # r => pc'[q] = pc[q] /\ token'[q] = token[q]
      BY <1>1 DEF TypeOK
    <2> QED
      BY <2>1, <2>2, DoomedStays
  <1>4. ASSUME NEW u \in Token, u # t PROVE Lookup(u)' = Lookup(u)
    <2>1. Backend'[u] = Backend[u] /\ Cache'[u] = Cache[u]
      BY <1>1, <1>2, <1>4, TouchEffect
    <2> QED
      BY <2>1 DEF Lookup, Cached
  <1>5. CASE Lookup(t)' = Lookup(t)
    BY <1>1, <1>3, <1>4, <1>5, Stutter DEF history
  <1>6. CASE Lookup(t)' # Lookup(t)
    <2>1. /\ Lookup(t) # None /\ Lookup(t)' \in Record
          /\ Lookup(t)'.sExtra = Lookup(t).sExtra
          /\ Lookup(t)'.tCreated = Lookup(t).tCreated
          /\ Lookup(t)'.tLastSeen \in {tNow[r], Seconds(tNow[r])}
      <3>1. CASE Cached(t)
        <4>1. /\ Cache'[t] \in Record
              /\ Cache'[t].tLastSeen = tNow[r]
              /\ Cache'[t].tCreated = Cache[t].tCreated
              /\ Cache'[t].sExtra = Cache[t].sExtra
          BY <1>1, <1>2, <3>1, TouchEffect
        <4> QED
          BY <3>1, <4>1, NoneAssumption DEF Lookup, Cached
      <3>2. CASE ~Cached(t)
        <4>1. Cache' = Cache
          BY <1>1, <1>2, <3>2, TouchEffect
        <4>2. Backend'[t] # Backend[t]
          BY <1>6, <3>2, <4>1 DEF Lookup, Cached
        <4>3. /\ Backend[t] \in Record /\ Backend'[t] \in Record
              /\ Backend'[t].tLastSeen = Seconds(tNow[r])
              /\ Backend'[t].tCreated = Backend[t].tCreated
              /\ Backend'[t].sExtra = Backend[t].sExtra
          BY <1>1, <1>2, <3>2, <4>2, TouchEffect
        <4> QED
          BY <3>2, <4>1, <4>3, NoneAssumption DEF Lookup, Cached
      <3> QED
        BY <3>1, <3>2
    <2>2. Lookup(t)'.tLastSeen <= active[t]
      BY <1>2, <2>1
    <2>3. records' = [records EXCEPT ![t] = Lookup(t)']
      BY <1>4 DEF records
    <2>4. Lookup(t)' \in S!Record
      BY <2>1 DEF Record, S!Record
    <2>5. S!Touch(t)
      BY <1>1, <1>3, <2>1, <2>2, <2>3, <2>4
      DEF S!Touch, S!Known, records, Doomed, history
    <2> QED
      BY <1>1, <2>5
  <1> QED
    BY <1>5, <1>6

LEMMA MapLogoutOf ==
    ASSUME Inv, "erase" \notin Faults, NEW ts \in SUBSET Token, LogoutOf(ts)
    PROVE  \E us \in SUBSET Token : S!Logout(us)
  <1> USE DEF Inv, TypeInv
  <1> DEFINE us == {t \in ts : born[t] # Never}
  <1>1. /\ EraseAll(ts) /\ gone' = gone \cup us
        /\ UNCHANGED <<now, request, active>>
    BY DEF LogoutOf
  <1>2. UNCHANGED Doomed
    BY <1>1 DEF Doomed, request
  <1>3. \A t \in ts : t \notin us => records[t] = None
    BY DEF TimesFollow, Follows, records, Lookup, Cached, InDatabase
  <1>4. records' = [t \in Token |-> IF t \in us THEN None ELSE records[t]]
    BY <1>1, <1>3, EraseMaps DEF records
  <1>5. us \in SUBSET Token
    OBVIOUS
  <1> HIDE DEF us
  <1> QED
    BY <1>1, <1>2, <1>4, <1>5 DEF S!Logout, S!Erase, records, Doomed

\* What a cutoff of the past finds expired is expired now.
LEMMA ExpiredThen ==
    ASSUME Inv, NEW r \in Record,
           NEW a \in {Cutoff(cutoff, IdleTimeout), Seconds(Cutoff(cutoff, IdleTimeout))},
           NEW b \in {Cutoff(cutoff, AbsoluteTimeout), Seconds(Cutoff(cutoff, AbsoluteTimeout))},
           Expired(r, a, b)
    PROVE  S!Expired(r)
  <1>1. /\ cutoff \in Nat /\ now \in Nat /\ cutoff <= now
        /\ IdleTimeout \in Nat /\ AbsoluteTimeout \in Nat
        /\ r.tCreated \in Nat /\ r.tLastSeen \in Nat
    BY KSessionAssumption DEF Inv, TypeInv, TypeOK, Record
  <1>2. ASSUME NEW T \in Nat, NEW c \in {Cutoff(cutoff, T), Seconds(Cutoff(cutoff, T))},
               NEW seen \in Nat, c # 0, seen < c
        PROVE  T > 0 /\ now - seen > T
    <2>1. Cutoff(cutoff, T) \in Nat
      BY <1>1, CutoffIsTime
    <2>2. c \in Nat /\ c <= Cutoff(cutoff, T)
      BY <2>1, SecondsBelow
    <2>3. Cutoff(cutoff, T) # 0
      BY <1>2, <2>1, <2>2
    <2>4. T > 0 /\ Cutoff(cutoff, T) = cutoff - T
      BY <1>1, <2>3 DEF Cutoff
    <2> QED
      BY <1>1, <1>2, <2>2, <2>4
  <1> QED
    BY <1>1, <1>2 DEF Expired, S!Expired

LEMMA MapPurge ==
    ASSUME Inv, "touch" \notin Faults, PurgeExpired
    PROVE  S!PurgeExpired
  <1> USE DEF Inv, TypeInv
  <1> DEFINE a == Cutoff(cutoff, IdleTimeout)
             b == Cutoff(cutoff, AbsoluteTimeout)
  <1>1. /\ Purge(a, b) /\ UNCHANGED <<now, request, history>>
    BY DEF PurgeExpired
  <1>2. a \in Nat /\ b \in Nat
    BY CutoffIsTime, KSessionAssumption DEF TypeOK
  <1>3. UNCHANGED Doomed
    BY <1>1 DEF Doomed, request
  <1>4. /\ \/ "purge" \in Faults /\ Backend' = Flushed
           \/ Backend' = [u \in Token |->
                            IF Flushed[u] # None /\ Expired(Flushed[u], Seconds(a), Seconds(b))
                            THEN None ELSE Flushed[u]]
        /\ Cache' = [u \in Token |->
                        IF Cached(u) /\ Expired(Cache[u], a, b) THEN None ELSE Cache[u]]
    BY <1>1 DEF Purge
  <1>5. ASSUME NEW t \in Token
        PROVE  \/ Lookup(t)' = Lookup(t)
               \/ /\ Lookup(t) # None /\ S!Expired(Lookup(t))
                  /\ \/ Lookup(t)' = None
                     \/ /\ Lookup(t)' # None
                        /\ Lookup(t)'.sExtra = Lookup(t).sExtra
                        /\ Lookup(t)'.tCreated <= Lookup(t).tCreated
                        /\ Lookup(t)'.tLastSeen <= active[t]
    <2>1. CASE Cached(t) /\ ~Expired(Cache[t], a, b)
      BY <1>4, <2>1 DEF Lookup, Cached
    <2>2. CASE Cached(t) /\ Expired(Cache[t], a, b)
      <3>1. Cache[t] \in Record /\ Lookup(t) = Cache[t] /\ Lookup(t) # None
        BY <2>2 DEF TypeOK, Lookup, Cached
      <3>2. S!Expired(Lookup(t))
        BY <2>2, <3>1, ExpiredThen
      <3>3. Lookup(t)' = Backend'[t] /\ Backend'[t] \in {None, Flushed[t]}
        BY <1>4, <2>2 DEF Lookup, Cached
      <3>4. /\ Flushed[t] \in Record
            /\ Flushed[t].sExtra = Lookup(t).sExtra
            /\ Flushed[t].tCreated <= Lookup(t).tCreated
            /\ Flushed[t].tLastSeen <= active[t]
        BY <3>1, RowIsAged
      <3> QED
        BY <3>1, <3>2, <3>3, <3>4, NoneAssumption
    <2>3. CASE ~Cached(t)
      <3>1. Cache'[t] = None
        BY <1>4, <2>3 DEF Cached
      <3>2. Lookup(t) = Backend[t] /\ Lookup(t)' = Backend'[t] /\ Flushed[t] = Backend[t]
        <4>1. t \notin bLastSeenDirty
          BY <2>3 DEF TypeOK
        <4> QED
          BY <2>3, <3>1, <4>1, FlushedRows DEF Lookup, Cached
      <3>3. CASE Backend'[t] = Flushed[t]
        BY <3>2, <3>3
      <3>4. CASE Backend'[t] # Flushed[t]
        <4>1. /\ Backend'[t] = None /\ Backend[t] # None
              /\ Expired(Backend[t], Seconds(a), Seconds(b))
          BY <1>4, <3>2, <3>4
        <4>2. Backend[t] \in Record
          BY <4>1 DEF TypeOK
        <4>3. S!Expired(Backend[t])
          BY <4>1, <4>2, ExpiredThen
        <4> QED
          BY <3>2, <4>1, <4>3
      <3> QED
        BY <3>3, <3>4
    <2> QED
      BY <2>1, <2>2, <2>3
  <1>6. \A t \in Token : records[t] = Lookup(t) /\ records'[t] = Lookup(t)'
    BY DEF records
  <1> QED
    BY <1>1, <1>3, <1>5, <1>6 DEF S!PurgeExpired, S!Known, S!Aged, records, Doomed, history

LEMMA MapRestart ==
    ASSUME Inv, Crash \/ Shutdown
    PROVE  S!Restart
  <1> USE DEF Inv, TypeInv
  <1>1. /\ Cache' = [t \in Token |-> None] /\ pc' = [r \in Request |-> "idle"]
        /\ UNCHANGED <<now, history>>
        /\ Backend' \in {Backend, Flushed}
    BY DEF Crash, Shutdown, Forget
  <1>2. Doomed' = {}
    BY <1>1 DEF Doomed
  <1>3. ASSUME NEW t \in Token
        PROVE  IF Lookup(t) # None
               THEN /\ Lookup(t)' # None
                    /\ Lookup(t)'.sExtra = Lookup(t).sExtra
                    /\ Lookup(t)'.tCreated <= Lookup(t).tCreated
                    /\ Lookup(t)'.tLastSeen <= active[t]
               ELSE Lookup(t)' = None
    <2>1. Lookup(t)' = Backend'[t] /\ Backend'[t] \in {Backend[t], Flushed[t]}
      BY <1>1 DEF Lookup, Cached
    <2>2. CASE Lookup(t) # None
      BY <2>1, <2>2, RowIsAged, NoneAssumption
    <2>3. CASE Lookup(t) = None
      <3>1. Backend[t] = None /\ t \notin bLastSeenDirty
        BY <2>3 DEF Lookup, Cached, TypeOK
      <3> QED
        BY <2>1, <2>3, <3>1, FlushedRows
    <2> QED
      BY <2>2, <2>3
  <1>4. \A t \in Token : records[t] = Lookup(t) /\ records'[t] = Lookup(t)'
    BY DEF records
  <1> QED
    BY <1>1, <1>2, <1>3, <1>4 DEF S!Restart, S!Known, S!Aged, records, Doomed, history

LEMMA MapStep ==
    ASSUME Inv, {"touch", "erase"} \cap Faults = {}, [Next]_vars
    PROVE  [S!Next]_S!vars
  <1>1. ASSUME NEW t \in Token, NEW x \in Extra, MakeSession(t, x) PROVE [S!Next]_S!vars
    BY <1>1, MapMakeSession DEF S!Next
  <1>2. ASSUME NEW t \in Token, NEW x \in Extra, UpdateExtra(t, x) PROVE [S!Next]_S!vars
    BY <1>2, MapUpdateExtra DEF S!Next
  <1>3. ASSUME NEW r \in Request, NEW t \in Token, Validate(r, t) PROVE [S!Next]_S!vars
    BY <1>3, MapValidate
  <1>4. ASSUME NEW r \in Request, Decide(r) PROVE [S!Next]_S!vars
    BY <1>4, MapDecide DEF S!Next
  <1>5. ASSUME NEW r \in Request, ValidateErase(r) PROVE [S!Next]_S!vars
    BY <1>5, MapValidateErase DEF S!Next
  <1>6. ASSUME NEW r \in Request, ValidateTouch(r) PROVE [S!Next]_S!vars
    BY <1>6, MapValidateTouch DEF S!Next
  <1>7. CASE Logout
    <2>1. PICK t \in Token : LogoutOf({t})
      BY <1>7 DEF Logout
    <2> QED
      BY <2>1, MapLogoutOf DEF S!Next
  <1>8. CASE LogoutAllFor
    <2>1. PICK u \in Username : LogoutOf({t \in Token : UserOf[t] = u})
      BY <1>8 DEF LogoutAllFor
    <2> QED
      BY <2>1, MapLogoutOf DEF S!Next
  <1>9. CASE PurgeExpired
    BY <1>9, MapPurge DEF S!Next
  <1>10. CASE Crash \/ Shutdown
    BY <1>10, MapRestart DEF S!Next
  <1>11. CASE Tick
    <2>1. /\ now' = now + 1 /\ now' \in 0 .. MaxNow /\ now' > now
          /\ UNCHANGED <<store, request, history>>
      BY <1>11, KSessionAssumption DEF Tick, Inv, TypeInv, TypeOK
    <2>2. UNCHANGED records /\ UNCHANGED Doomed
      BY <2>1, RecordsUnchanged DEF Lookup, Cached, store, Doomed, request
    <2>3. S!Tick
      BY <2>1, <2>2 DEF S!Tick, records, Doomed, history
    <2> QED
      BY <2>3 DEF S!Next
  <1>12. CASE PurgeStart \/ UNCHANGED vars
    <2>1. UNCHANGED <<store, now, request, history>>
      BY <1>12 DEF PurgeStart, vars
    <2>2. UNCHANGED <<now, active, gone, Doomed>>
      BY <2>1 DEF history, request, Doomed
    <2>3. \A t \in Token : Lookup(t)' = Lookup(t)
      BY <2>1 DEF Lookup, Cached, store
    <2> QED
      BY <2>2, <2>3, Stutter
  <1> QED
    BY <1>1, <1>2, <1>3, <1>4, <1>5, <1>6, <1>7, <1>8, <1>9, <1>10, <1>11, <1>12 DEF Next

LEMMA MapInit == Init => S!Init
  <1> SUFFICES ASSUME Init PROVE S!Init
    OBVIOUS
  <1>1. /\ records = [t \in Token |-> None] /\ Doomed = {}
        /\ now = 1 /\ active = [t \in Token |-> 0] /\ gone = {}
    BY DEF Init, records, Doomed, Lookup, Cached
  <1>2. now \in 0 .. MaxNow
    BY <1>1, KSessionAssumption
  <1> QED
    BY <1>1, <1>2 DEF S!Init, records, Doomed

\* Sessions over the caching store are sessions in one simple store, with a logout that is
\* final, while the database takes every LastSeen and every erase; a session that cannot be
\* made and a purge that fails do no harm (ksession.h:112-172, ksessioncachingstore.h:66-90).
THEOREM SessionsImplementStore ==
    ASSUME {"touch", "erase"} \cap Faults = {}
    PROVE  Spec => ImplementsStore
  <1>1. "touch" \notin Faults
    OBVIOUS
  <1>2. Inv /\ [Next]_vars => Inv'
    BY <1>1, InvStep
  <1>3. Inv /\ [Next]_vars => [S!Next]_S!vars
    BY MapStep
  <1> QED
    BY <1>2, <1>3, InvInit, MapInit, PTL DEF Spec, ImplementsStore, S!Spec
=============================================================================
