------------------------------- MODULE KSession -----------------------------
(***************************************************************************)
(* KSession over a KSessionCachingStore over a database: login, Validate() *)
(* by requests in parallel, logout, the purge of the timer, and restarts.  *)
(*                                                                         *)
(* Every function of the store holds one mutex from begin to end, so a     *)
(* store call is one step.  A Validate() is three: look the record up,     *)
(* read the clock and decide, erase or touch.  The database (the SQLite    *)
(* and KSQL stores) keeps whole seconds; a second has Second ticks.        *)
(***************************************************************************)
EXTENDS Naturals, FiniteSets

CONSTANTS Token,           \* tokens, each given out once
          Username, UserOf,  \* and the user each is made for
          Request,         \* the threads that serve requests
          Extra,           \* values of sExtra
          None,            \* no record, no token
          IdleTimeout, AbsoluteTimeout,     \* in ticks, 0 = disabled
          Second,          \* ticks to a second
          Faults,          \* database statements that may fail
          MaxNow           \* bound: the clock

ASSUME KSessionAssumption ==
    /\ UserOf \in [Token -> Username]
    /\ {IdleTimeout, AbsoluteTimeout} \subseteq Nat /\ {Second, MaxNow} \subseteq Nat \ {0}
    /\ Faults \subseteq {"create", "extra", "touch", "erase", "purge"}

Record == [tCreated : 0 .. MaxNow, tLastSeen : 0 .. MaxNow, sExtra : Extra]

ASSUME NoneAssumption == None \notin Record

VARIABLES Backend,         \* rows of the database, by token
          Cache,           \* records in RAM, by token
          bLastSeenDirty,  \* the tokens of the dirty entries
          now,
          pc, token, Rec, tNow,   \* of a Validate() in a request
          cutoff,          \* the purge's tNow, between clock and store; 0 = none
          born,            \* history: when a token was made
          active,          \* history: when the session was last found valid
          gone             \* history: tokens that were logged out

store   == <<Backend, Cache, bLastSeenDirty>>
request == <<pc, token, Rec, tNow>>
history == <<born, active, gone>>
vars    == <<store, now, request, cutoff, history>>

Never == MaxNow + 1

Init ==
    /\ Backend = [t \in Token |-> None] /\ Cache = [t \in Token |-> None]
    /\ bLastSeenDirty = {}
    /\ now = 1 /\ cutoff = 0
    /\ pc = [r \in Request |-> "idle"] /\ token = [r \in Request |-> None]
    /\ Rec = [r \in Request |-> None] /\ tNow = [r \in Request |-> 0]
    /\ born = [t \in Token |-> Never] /\ active = [t \in Token |-> 0] /\ gone = {}

-----------------------------------------------------------------------------
\* The database: whole seconds, and statements that may fail.

Seconds(tick) == (tick \div Second) * Second

Stored(r) == [r EXCEPT !.tCreated = Seconds(@), !.tLastSeen = Seconds(@)]

\* a statement that failed leaves the rows as they were
Statement(name, rows) == \/ Backend' = rows
                         \/ name \in Faults /\ UNCHANGED Backend

-----------------------------------------------------------------------------
\* KSessionCachingStore.

Cached(t) == Cache[t] # None
InDatabase(t) == Backend[t] # None

\* what a Lookup() finds
Lookup(t) == IF Cached(t) THEN Cache[t] ELSE Backend[t]

\* a miss loads the row
Load(t) == /\ Cache' = [Cache EXCEPT ![t] = Lookup(t)]
           /\ UNCHANGED <<Backend, bLastSeenDirty>>

Touch(t, tLastSeen) ==
    \/ /\ Cached(t)
       /\ Cache' = [Cache EXCEPT ![t].tLastSeen = tLastSeen]
       /\ bLastSeenDirty' = bLastSeenDirty \cup {t}
       /\ UNCHANGED Backend
    \/ /\ ~Cached(t)
       /\ Statement("touch", IF InDatabase(t)
                             THEN [Backend EXCEPT ![t].tLastSeen = Seconds(tLastSeen)]
                             ELSE Backend)
       /\ UNCHANGED <<Cache, bLastSeenDirty>>

Uncache(ts) == /\ Cache' = [t \in Token |-> IF t \in ts THEN None ELSE Cache[t]]
               /\ bLastSeenDirty' = bLastSeenDirty \ ts

Rows(keep) == [t \in Token |-> IF t \in keep THEN Backend[t] ELSE None]

\* mutant: only the cache forgets
EraseAll_CacheOnly(ts) == Uncache(ts) /\ UNCHANGED Backend

\* Erase and EraseAllFor
EraseAll(ts) == Uncache(ts) /\ Statement("erase", Rows(Token \ ts))

\* mutant: the time of the flush is written
Flushed_Now == [t \in Token |-> IF t \in bLastSeenDirty /\ InDatabase(t)
                                THEN [Backend[t] EXCEPT !.tLastSeen = Seconds(now)]
                                ELSE Backend[t]]

\* the rows after the dirty LastSeen values were written
Flushed == [t \in Token |-> IF t \in bLastSeenDirty /\ InDatabase(t)
                            THEN [Backend[t] EXCEPT !.tLastSeen = Seconds(Cache[t].tLastSeen)]
                            ELSE Backend[t]]

Expired(r, tOldestLastSeen, tOldestCreated) ==
    \/ tOldestLastSeen # 0 /\ r.tLastSeen < tOldestLastSeen
    \/ tOldestCreated  # 0 /\ r.tCreated  < tOldestCreated

Cutoff(at, Timeout) == IF Timeout = 0 \/ Timeout > at THEN 0 ELSE at - Timeout

\* mutant: the database purges before the LastSeen values are written
Purge_Unflushed(tOldestLastSeen, tOldestCreated) ==
    LET Old(t) == Expired(Cache[t], tOldestLastSeen, tOldestCreated)
    IN  /\ Statement("purge", Rows({t \in Token : InDatabase(t) =>
              ~Expired(Backend[t], Seconds(tOldestLastSeen), Seconds(tOldestCreated))}))
        /\ Cache' = [t \in Token |-> IF Cached(t) /\ Old(t) THEN None ELSE Cache[t]]
        /\ bLastSeenDirty' = {}

\* PurgeExpired: flush, purge the database, evict.  A LastSeen that could not be
\* written is clean all the same.
Purge(tOldestLastSeen, tOldestCreated) ==
    LET Old(t) == Expired(Cache[t], tOldestLastSeen, tOldestCreated)
    IN  /\ \E rows \in {Flushed} \cup (IF "touch" \in Faults THEN {Backend} ELSE {}) :
              \/ "purge" \in Faults /\ Backend' = rows
              \/ Backend' =
                    [t \in Token |->
                        IF rows[t] # None /\ Expired(rows[t], Seconds(tOldestLastSeen),
                                                         Seconds(tOldestCreated))
                        THEN None ELSE rows[t]]
        /\ Cache' = [t \in Token |-> IF Cached(t) /\ Old(t) THEN None ELSE Cache[t]]
        /\ bLastSeenDirty' = {}

-----------------------------------------------------------------------------
\* KSession.

\* Login or CreateTrustedSession, the authenticator agreeing
MakeSession(t, x) ==
    LET r == [tCreated |-> now, tLastSeen |-> now, sExtra |-> x]
    IN  /\ born[t] = Never
        /\ born' = [born EXCEPT ![t] = now]
        /\ \/ /\ Backend' = [Backend EXCEPT ![t] = Stored(r)]
              /\ Cache' = [Cache EXCEPT ![t] = r]
              /\ active' = [active EXCEPT ![t] = now]
              /\ UNCHANGED bLastSeenDirty
           \/ "create" \in Faults /\ UNCHANGED <<store, active>>
        /\ UNCHANGED <<now, request, cutoff, gone>>

Enter(r, where) == pc' = [pc EXCEPT ![r] = where]

Return(r) == /\ Enter(r, "idle")
             /\ token' = [token EXCEPT ![r] = None]
             /\ tNow' = [tNow EXCEPT ![r] = 0]
             /\ UNCHANGED Rec

\* Validate(): the record
Validate(r, t) ==
    /\ pc[r] = "idle" /\ Lookup(t) # None
    /\ Load(t)
    /\ Rec' = [Rec EXCEPT ![r] = Lookup(t)] /\ token' = [token EXCEPT ![r] = t]
    /\ Enter(r, "found")
    /\ UNCHANGED <<tNow, now, cutoff, history>>

TimedOut(r, at) == \/ AbsoluteTimeout > 0 /\ at - r.tCreated  > AbsoluteTimeout
                   \/ IdleTimeout     > 0 /\ at - r.tLastSeen > IdleTimeout

\* ... the clock: expired, or valid until now
Decide(r) ==
    /\ pc[r] = "found"
    /\ \/ TimedOut(Rec[r], now) /\ Enter(r, "erase") /\ UNCHANGED <<active, tNow>>
       \/ ~TimedOut(Rec[r], now) /\ Enter(r, "touch")
          /\ active' = [active EXCEPT ![token[r]] = now]
          /\ tNow' = [tNow EXCEPT ![r] = now]
    /\ Rec' = [Rec EXCEPT ![r] = None]
    /\ UNCHANGED <<store, token, now, cutoff, born, gone>>

ValidateErase(r) ==
    /\ pc[r] = "erase"
    /\ EraseAll({token[r]})
    /\ Return(r)
    /\ UNCHANGED <<now, cutoff, history>>

ValidateTouch(r) ==
    /\ pc[r] = "touch"
    /\ Touch(token[r], tNow[r])
    /\ Return(r)
    /\ UNCHANGED <<now, cutoff, history>>

\* Logout of one session, or of all a user has
LogoutOf(ts) ==
    /\ EraseAll(ts)
    /\ gone' = IF "erase" \in Faults /\ Backend' # Rows(Token \ ts)
               THEN gone ELSE gone \cup {t \in ts : born[t] # Never}
    /\ UNCHANGED <<now, request, cutoff, born, active>>

Logout == \E t \in Token : LogoutOf({t})
LogoutAllFor == \E u \in Username : LogoutOf({t \in Token : UserOf[t] = u})

\* mutant: the cache keeps the old data
UpdateExtra_DatabaseOnly(t, x) ==
    /\ InDatabase(t)
    /\ Backend' = [Backend EXCEPT ![t].sExtra = x]
    /\ UNCHANGED <<Cache, bLastSeenDirty, now, request, cutoff, history>>

UpdateExtra(t, x) ==
    /\ InDatabase(t)
    /\ Backend' = [Backend EXCEPT ![t].sExtra = x]
    /\ Cache' = IF Cached(t) THEN [Cache EXCEPT ![t].sExtra = x] ELSE Cache
    /\ UNCHANGED <<bLastSeenDirty, now, request, cutoff, history>>

\* the timer's purge reads the clock, and then calls the store
PurgeStart == /\ cutoff = 0 /\ cutoff' = now
              /\ UNCHANGED <<store, now, request, history>>

PurgeExpired == /\ cutoff # 0
                /\ Purge(Cutoff(cutoff, IdleTimeout), Cutoff(cutoff, AbsoluteTimeout))
                /\ cutoff' = 0
                /\ UNCHANGED <<now, request, history>>

\* The process ends and a new one starts.
Forget == /\ Cache' = [t \in Token |-> None] /\ bLastSeenDirty' = {}
          /\ pc' = [r \in Request |-> "idle"]
          /\ token' = [r \in Request |-> None]
          /\ Rec' = [r \in Request |-> None] /\ tNow' = [r \in Request |-> 0]
          /\ cutoff' = 0
          /\ UNCHANGED <<now, history>>

Crash == Forget /\ UNCHANGED Backend

\* the destructor, when no request is served any more: the store flushes
Shutdown == /\ \A r \in Request : pc[r] = "idle"
            /\ cutoff = 0
            /\ Backend' = Flushed
            /\ Forget

Tick == /\ now < MaxNow /\ now' = now + 1
        /\ UNCHANGED <<store, request, cutoff, history>>

Next == \/ \E t \in Token, x \in Extra : MakeSession(t, x) \/ UpdateExtra(t, x)
        \/ \E r \in Request, t \in Token : Validate(r, t)
        \/ \E r \in Request : Decide(r) \/ ValidateErase(r) \/ ValidateTouch(r)
        \/ Logout \/ LogoutAllFor
        \/ PurgeStart \/ PurgeExpired
        \/ Crash \/ Shutdown \/ Tick

Spec == Init /\ [][Next]_vars

-----------------------------------------------------------------------------
\* Properties.

TypeOK ==
    /\ Backend \in [Token -> Record \cup {None}]
    /\ Cache \in [Token -> Record \cup {None}]
    /\ bLastSeenDirty \subseteq {t \in Token : Cached(t)}
    /\ now \in 1 .. MaxNow /\ cutoff \in 0 .. MaxNow
    /\ pc \in [Request -> {"idle", "found", "erase", "touch"}]
    /\ token \in [Request -> Token \cup {None}]
    /\ Rec \in [Request -> Record \cup {None}] /\ tNow \in [Request -> 0 .. MaxNow]
    /\ born \in [Token -> 0 .. Never] /\ active \in [Token -> 0 .. MaxNow]
    /\ gone \subseteq Token

\* The cache never diverges from the database (ksessioncachingstore.h:79-83): what
\* it holds has a row with the same extra data, and an entry that is not dirty has
\* the row's time stamps, up to their rounding.
CacheCoherent ==
    \A t \in Token : Cached(t) =>
        /\ InDatabase(t)
        /\ Backend[t].sExtra = Cache[t].sExtra
        /\ Backend[t].tCreated = Seconds(Cache[t].tCreated)
        /\ t \notin bLastSeenDirty => Backend[t].tLastSeen = Seconds(Cache[t].tLastSeen)

\* A session that was logged out is never found again: no Validate() on its way
\* with a copy of the record, no purge and no restart brings it back.
LoggedOutIsGone == \A t \in gone : Lookup(t) = None

\* Validate() only accepts a session that was made within AbsoluteTimeout, and made
\* or found valid within IdleTimeout, whatever was cached, flushed, rounded, lost
\* to a crash, or written late by another request.
AcceptedInTime ==
    [][\A r \in Request : (pc[r] = "found" /\ pc'[r] = "touch") =>
          LET t == token[r]
          IN  /\ AbsoluteTimeout > 0 => now - born[t] <= AbsoluteTimeout
              /\ IdleTimeout > 0 => now - active[t] <= IdleTimeout]_vars

\* Sessions over the caching store behave like sessions in one simple store: the
\* record of a token is the cached one, or else the row (ksession.h:112-172).
S == INSTANCE KSessionStore
        WITH records   <- [t \in Token |-> Lookup(t)],
             lastActive <- active, loggedOut <- gone,
             doomed    <- {token[r] : r \in {q \in Request : pc[q] = "erase"}},
             Time      <- 0 .. MaxNow

ImplementsStore == S!Spec

\* A session ends only by a logout or when it is expired: a request that read an
\* older LastSeen does not erase what another request has renewed since.
EndsOnlyWhenExpired ==
    [][\A t \in Token : (Lookup(t) # None /\ Lookup(t)' = None) =>
          t \in gone' \/ TimedOut(Lookup(t), now)]_vars
=============================================================================
