------------------------------ MODULE KMailQueue ----------------------------
(***************************************************************************)
(* What a KMailSpool promises about mail, with no thread, retry or file    *)
(* format in sight: an accepted mail is kept, in memory or on disk, until  *)
(* the relay has answered for it, it is overdue and an attempt of this run *)
(* failed, or the disk failed it.  A crash takes what is only in memory    *)
(* and never what is on disk.  KMailSpool implements this specification    *)
(* (ImplementsMailQueue there gives the mapping).                          *)
(***************************************************************************)
EXTENDS Naturals

CONSTANTS Mail

VARIABLES where,      \* where the program keeps a mail
          outcome,    \* what happened to it: answers of the relay, failed
                      \* attempts of this run, disk faults
          overdue,    \* the mails that exceeded MaxAge
          stops       \* crashes and requests to stop

vars == <<where, outcome, overdue, stops>>

Place   == {"nowhere", "memory", "disk"}
Outcome == {"sent", "rejected", "failed", "unwritable", "unreadable"}

Init == /\ where   = [m \in Mail |-> "nowhere"]
        /\ outcome = [m \in Mail |-> {}]
        /\ overdue = {}
        /\ stops = 0

Accept(m) == /\ where[m] = "nowhere" /\ outcome[m] = {}
             /\ where' = [where EXCEPT ![m] = "memory"]
             /\ UNCHANGED <<outcome, overdue, stops>>

Store(m) == /\ where[m] = "memory"
            /\ where' = [where EXCEPT ![m] = "disk"]
            /\ UNCHANGED <<outcome, overdue, stops>>

Happens(m, what) == /\ where[m] # "nowhere"
                    /\ outcome' = [outcome EXCEPT ![m] = @ \cup {what}]
                    /\ UNCHANGED <<where, overdue, stops>>

MayDrop(m, what) ==
    \/ what \cap {"sent", "rejected", "unwritable", "unreadable"} # {}
    \/ "failed" \in what /\ m \in overdue

Drop(m) == /\ where[m] # "nowhere" /\ MayDrop(m, outcome[m])
           /\ where' = [where EXCEPT ![m] = "nowhere"]
           /\ UNCHANGED <<outcome, overdue, stops>>

\* a disk fault and the loss it causes are one step of the program
Spoil(m, fault) == /\ where[m] # "nowhere"
                   /\ where'   = [where EXCEPT ![m] = "nowhere"]
                   /\ outcome' = [outcome EXCEPT ![m] = @ \cup {fault}]
                   /\ UNCHANGED <<overdue, stops>>

Age(ms) == /\ overdue' = overdue \cup ms
           /\ UNCHANGED <<where, outcome, stops>>

\* the process ends: what is on disk stays, and a failed attempt of this run
\* does not excuse the next one from trying
Forget == outcome' = [m \in Mail |-> outcome[m] \ {"failed"}]

AskToStop == stops' = stops + 1 /\ UNCHANGED <<where, outcome, overdue>>

\* an orderly end has written everything before
Close == /\ \A m \in Mail : where[m] # "memory"
         /\ Forget
         /\ UNCHANGED <<where, overdue, stops>>

Crash == /\ where' = [m \in Mail |-> IF where[m] = "memory" THEN "nowhere" ELSE where[m]]
         /\ Forget
         /\ stops' = stops + 1
         /\ UNCHANGED overdue

\* a restart removes the files it cannot read
Reopen(unreadable) ==
    /\ \A m \in Mail : where[m] # "memory"
    /\ where'   = [m \in Mail |-> IF m \in unreadable THEN "nowhere" ELSE where[m]]
    /\ outcome' = [m \in Mail |-> IF m \in unreadable THEN outcome[m] \cup {"unreadable"}
                                                      ELSE outcome[m]]
    /\ UNCHANGED <<overdue, stops>>

Next == \/ \E m \in Mail : Accept(m) \/ Store(m) \/ Drop(m)
        \/ \E m \in Mail, what \in Outcome : Happens(m, what)
        \/ \E m \in Mail, fault \in {"unwritable", "unreadable"} : Spoil(m, fault)
        \/ \E ms \in SUBSET Mail : Age(ms) \/ Reopen(ms)
        \/ AskToStop \/ Close \/ Crash

Spec == Init /\ [][Next]_vars

=============================================================================
