---------------------------- MODULE KSessionStore ---------------------------
(***************************************************************************)
(* What sessions promise, with one store, no cache and no parallel steps:  *)
(* one record per token.  Logins, logouts and updates of the extra data    *)
(* take effect at once and survive everything.  A session ends by a        *)
(* logout, because it is expired, or because a request found it expired.   *)
(* Its time stamps may be rounded or lost to a restart, but it never looks *)
(* younger or more recently used than it is.  KSessionMemoryStore is this  *)
(* machine with nothing lost; KSession over the caching store implements   *)
(* it (ImplementsStore there).                                             *)
(***************************************************************************)
EXTENDS Naturals

CONSTANTS Token, Extra, None, IdleTimeout, AbsoluteTimeout,
          Time                  \* the times a clock may show

VARIABLES records,     \* [Token -> record or None]
          now,
          lastActive,  \* [Token -> Time], when a session was last made or found valid
          loggedOut,
          doomed       \* tokens that requests found expired and will erase

vars == <<records, now, lastActive, loggedOut, doomed>>

Record == [tCreated : Time, tLastSeen : Time, sExtra : Extra]

Known(t) == records[t] # None

\* the same session, at most looking older, or less recently used, than it is
Aged(t, older) == /\ older # None
                  /\ older.sExtra = records[t].sExtra
                  /\ older.tCreated <= records[t].tCreated
                  /\ older.tLastSeen <= lastActive[t]

Expired(r) == \/ AbsoluteTimeout > 0 /\ now - r.tCreated  > AbsoluteTimeout
              \/ IdleTimeout     > 0 /\ now - r.tLastSeen > IdleTimeout

Init == /\ records = [t \in Token |-> None]
        /\ now \in Time /\ lastActive = [t \in Token |-> 0] /\ loggedOut = {} /\ doomed = {}

Create(t) == /\ ~Known(t) /\ t \notin loggedOut
             /\ \E x \in Extra : records' = [records EXCEPT ![t] =
                                   [tCreated |-> now, tLastSeen |-> now, sExtra |-> x]]
             /\ lastActive' = [lastActive EXCEPT ![t] = now]
             /\ UNCHANGED <<now, loggedOut, doomed>>

Touch(t) == /\ Known(t)
            /\ \E r \in Record : /\ records' = [records EXCEPT ![t] = r]
                                 /\ r.sExtra = records[t].sExtra
                                 /\ r.tCreated = records[t].tCreated
                                 /\ r.tLastSeen <= lastActive[t]
            /\ UNCHANGED <<now, lastActive, loggedOut, doomed>>

UpdateExtra(t) == /\ Known(t)
                  /\ \E x \in Extra : records' = [records EXCEPT ![t].sExtra = x]
                  /\ UNCHANGED <<now, lastActive, loggedOut, doomed>>

Erase(ts) == records' = [t \in Token |-> IF t \in ts THEN None ELSE records[t]]

Logout(ts) == /\ Erase(ts) /\ loggedOut' = loggedOut \cup ts
              /\ UNCHANGED <<now, lastActive, doomed>>

\* a request accepts the session, and touches it in a later step
FindValid(t) == /\ lastActive' = [lastActive EXCEPT ![t] = now]
                /\ UNCHANGED <<records, now, loggedOut, doomed>>

FindExpired(t) == /\ doomed' = doomed \cup {t}
                  /\ UNCHANGED <<records, now, lastActive, loggedOut>>

\* a request erases what it found expired, another one may still be about to
EraseDoomed(t) == /\ t \in doomed /\ doomed' \in {doomed, doomed \ {t}}
                  /\ Erase({t})
                  /\ UNCHANGED <<now, lastActive, loggedOut>>

\* only expired records go, and an expired one that stays may look older still
PurgeExpired ==
    /\ \A t \in Token : \/ records'[t] = records[t]
                        \/ /\ Known(t) /\ Expired(records[t])
                           /\ records'[t] = None \/ Aged(t, records'[t])
    /\ UNCHANGED <<now, lastActive, loggedOut, doomed>>

\* the process ends, orderly or not: no record is lost
Restart ==
    /\ \A t \in Token : IF Known(t) THEN Aged(t, records'[t])
                                    ELSE records'[t] = None
    /\ doomed' = {}
    /\ UNCHANGED <<now, lastActive, loggedOut>>

Tick == now' \in Time /\ now' > now /\ UNCHANGED <<records, lastActive, loggedOut, doomed>>

Next == \/ \E t \in Token : \/ Create(t) \/ Touch(t) \/ UpdateExtra(t)
                            \/ FindValid(t) \/ FindExpired(t) \/ EraseDoomed(t)
        \/ \E ts \in SUBSET Token : Logout(ts)
        \/ PurgeExpired \/ Restart \/ Tick

Spec == Init /\ [][Next]_vars

=============================================================================
