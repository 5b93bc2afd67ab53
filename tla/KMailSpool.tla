------------------------------ MODULE KMailSpool ----------------------------
(***************************************************************************)
(* KMailSpool: mail is sent by one thread that exists while mail waits.    *)
(* What cannot be sent is written to a spool directory and tried again,    *)
(* with a growing delay and across restarts of the process.                *)
(*                                                                         *)
(* A file operation, an exchange with the relay and a critical section of  *)
(* m_Mutex are one step each, and the process may die between any two.     *)
(* The relay is the environment: every connection and every mail may have  *)
(* any outcome.  Time is counted in ticks of RetryInterval; an entry holds *)
(* the ticks left to its tNextAttempt, a mail the ticks since it was made. *)
(***************************************************************************)
EXTENDS Naturals, Sequences, FiniteSets

CONSTANTS Mail,               \* the mails a program may Add()
          MaxRetryInterval,   \* in ticks
          MaxAge,             \* in ticks
          DiskFaults,         \* what may fail: "write" (or rename), "read", and
                              \* "remove" (a .mail file; nobody looks at a .tmp file)
          MaxStops            \* bound: ends of the process, orderly or not

ASSUME KMailSpoolAssumption ==
    /\ MaxRetryInterval \in Nat \ {0} /\ MaxAge \in Nat /\ MaxStops \in Nat
    /\ DiskFaults \subseteq {"write", "read", "remove"}

\* The data members.  An entry of m_Spooled is a SpoolEntry.
VARIABLES m_Fresh, m_Spooled, m_bThreadRunning, m_bQuit,
          process,     \* "down", "up", or "quitting" in the destructor
          thread,      \* where m_Thread is; "held": it holds m_Mutex
          Due, Fresh, Pending,                  \* the arguments of Deliver
          connection, bConnected, bConnectFailed,  \* its Server and flags
          step,        \* how far it is with the first mail of Due or Fresh
          disk,        \* the .mail files, in the order of their names
          tmp,         \* the mails with a .tmp file
          age,         \* ticks since the mail was made, up to MaxAge + 1
          stops,
          added,       \* history: mails accepted by Add()
          copies,      \* history: how often the relay took the mail, up to 2
          unsure,      \* history: mails whose acceptance nobody recorded
          outcome      \* history: as in KMailQueue

memory  == <<m_Fresh, m_Spooled, m_bThreadRunning, m_bQuit>>
deliver == <<Due, Fresh, Pending, connection, bConnected, bConnectFailed, step>>
files   == <<disk, tmp>>
history == <<added, copies, unsure, outcome>>
vars    == <<memory, process, thread, deliver, files, age, stops, history>>

Entry(m, attempts, wait) == [mail |-> m, iAttempts |-> attempts, wait |-> wait]

Elements(seq)   == {seq[i] : i \in 1 .. Len(seq)}
EntryMails(seq) == {seq[i].mail : i \in 1 .. Len(seq)}

\* what is in S, in the order of seq.  (SelectSeq, as a recursive function.)
Select(seq, S) ==
    LET kept[i \in 0 .. Len(seq)] ==
            IF i = 0 THEN <<>>
            ELSE IF seq[i] \in S THEN Append(kept[i - 1], seq[i]) ELSE kept[i - 1]
    IN  kept[Len(seq)]

\* A mail is kept on disk when it has a .mail file, and in memory when it waits to
\* be sent or written for the first time.
where == [m \in Mail |-> IF m \in Elements(disk) THEN "disk"
                         ELSE IF m \in Elements(m_Fresh) \cup Elements(Fresh) THEN "memory"
                         ELSE "nowhere"]

NoDelivery == /\ Due' = <<>> /\ Fresh' = <<>> /\ Pending' = <<>>
              /\ connection' = FALSE /\ bConnected' = FALSE /\ bConnectFailed' = FALSE
              /\ step' = "next"

Init ==
    /\ m_Fresh = <<>> /\ m_Spooled = <<>>
    /\ m_bThreadRunning = FALSE /\ m_bQuit = FALSE
    /\ process = "down" /\ thread = "none"
    /\ Due = <<>> /\ Fresh = <<>> /\ Pending = <<>>
    /\ connection = FALSE /\ bConnected = FALSE /\ bConnectFailed = FALSE
    /\ step = "next"
    /\ disk = <<>> /\ tmp = {}
    /\ age = [m \in Mail |-> 0] /\ stops = 0
    /\ added = {} /\ copies = [m \in Mail |-> 0] /\ unsure = {}
    /\ outcome = [m \in Mail |-> {}]

-----------------------------------------------------------------------------
\* The process: construction, destruction, death.

\* The constructor: half written files are removed, and those it cannot read
\* (unread); the others are due at once.
Construct ==
    /\ process = "down"
    /\ \E unread \in SUBSET Elements(disk) : \E stays \in SUBSET unread :
          /\ unread # {} => "read" \in DiskFaults
          /\ stays # {} => "remove" \in DiskFaults
          /\ LET kept == Select(disk, Mail \ unread)
             IN  /\ disk' = Select(disk, Mail \ (unread \ stays))
                 /\ m_Spooled' = [i \in 1 .. Len(kept) |-> Entry(kept[i], 0, 0)]
                 /\ m_bThreadRunning' = (kept # <<>>)
                 /\ thread' = IF kept # <<>> THEN "start" ELSE "none"
          /\ outcome' = [m \in Mail |-> IF m \in unread THEN outcome[m] \cup {"unreadable"}
                                                        ELSE outcome[m]]
    /\ tmp' = {}
    /\ process' = "up"
    /\ m_bQuit' = FALSE /\ m_Fresh' = <<>>
    /\ UNCHANGED <<deliver, age, stops, added, copies, unsure>>

\* the mail whose answer is in, but not yet acted upon
Answered == IF step # "sent" THEN {}
            ELSE IF Due # <<>> THEN {Head(Due).mail} ELSE {Head(Fresh)}

\* what the end of the process takes away
Vanish ==
    /\ process' = "down" /\ thread' = "none"
    /\ m_Fresh' = <<>> /\ m_Spooled' = <<>>
    /\ m_bThreadRunning' = FALSE /\ m_bQuit' = FALSE
    /\ outcome' = [m \in Mail |-> outcome[m] \ {"failed"}]
    /\ NoDelivery

\* the process dies: files stay, half written ones too
Crash ==
    /\ process # "down" /\ stops < MaxStops /\ stops' = stops + 1
    /\ unsure' = unsure \cup Answered
    /\ Vanish
    /\ UNCHANGED <<files, age, added, copies>>

\* ~KMailSpool
Quit ==
    /\ process = "up" /\ thread # "held" /\ stops < MaxStops /\ stops' = stops + 1
    /\ process' = "quitting" /\ m_bQuit' = TRUE
    /\ thread' = IF thread = "wait" THEN "woken" ELSE thread
    /\ UNCHANGED <<m_Fresh, m_Spooled, m_bThreadRunning, deliver, files, age,
                   history>>

QuitJoin ==
    /\ process = "quitting" /\ thread = "ended"
    /\ thread' = "none"
    /\ UNCHANGED <<memory, process, deliver, files, age, stops, history>>

\* mutant: what nobody tried to send yet is forgotten
QuitDone_Unspooled ==
    /\ process = "quitting" /\ thread = "none" /\ step = "next"
    /\ Vanish
    /\ UNCHANGED <<files, age, stops, added, copies, unsure>>

QuitDone ==
    /\ process = "quitting" /\ thread = "none" /\ step = "next" /\ m_Fresh = <<>>
    /\ Vanish
    /\ UNCHANGED <<files, age, stops, added, copies, unsure>>

-----------------------------------------------------------------------------
\* Callers.

\* Add() of a Good() mail by any thread; StartThread() reaps a thread that ended
Add(m) ==
    /\ process = "up" /\ thread # "held"
    /\ m \notin added /\ added' = added \cup {m}
    /\ m_Fresh' = Append(m_Fresh, m)
    /\ m_bThreadRunning' = TRUE
    /\ thread' = IF ~m_bThreadRunning THEN "start"
                 ELSE IF thread = "wait" THEN "woken" ELSE thread
    /\ UNCHANGED <<m_Spooled, m_bQuit, process, deliver, files, age, stops,
                   copies, unsure, outcome>>

-----------------------------------------------------------------------------
\* Time.

Elapse(seq) == [i \in 1 .. Len(seq) |->
                  [seq[i] EXCEPT !.wait = IF @ > 0 THEN @ - 1 ELSE 0]]

Tick ==
    /\ age' = [m \in Mail |-> IF m \in added /\ age[m] <= MaxAge THEN age[m] + 1
                                                                         ELSE age[m]]
    /\ m_Spooled' = Elapse(m_Spooled)
    /\ Pending' = Elapse(Pending)
    /\ UNCHANGED <<m_Fresh, m_bThreadRunning, m_bQuit, process, thread, Due,
                   Fresh, connection, bConnected, bConnectFailed, step, files, stops, history>>

-----------------------------------------------------------------------------
\* Run(): the sender thread.

IsDue(e) == e.wait = 0

DueOf(seq) == {seq[i] : i \in {j \in 1 .. Len(seq) : IsDue(seq[j])}}

Lock ==
    /\ thread \in {"start", "woken"}
    /\ thread' = "held"
    /\ UNCHANGED <<memory, process, deliver, files, age, stops, history>>

\* wait_for ends: its time is over, or spuriously
Wake ==
    /\ thread = "wait"
    /\ thread' = "held"
    /\ UNCHANGED <<memory, process, deliver, files, age, stops, history>>

TimeOut == Wake /\ DueOf(m_Spooled) # {}

\* one round of the loop, up to the unlock: deliver, wait, or end
Round ==
    /\ thread = "held"
    /\ LET due  == Select(m_Spooled, DueOf(m_Spooled))
           rest == Select(m_Spooled, Elements(m_Spooled) \ DueOf(m_Spooled))
       IN  \/ /\ m_bQuit \/ (m_Fresh = <<>> /\ m_Spooled = <<>>)
              /\ thread' = "ended" /\ m_bThreadRunning' = FALSE
              /\ UNCHANGED <<m_Fresh, m_Spooled, deliver>>
           \/ /\ ~m_bQuit /\ m_Fresh = <<>> /\ due = <<>> /\ m_Spooled # <<>>
              /\ thread' = "wait"
              /\ UNCHANGED <<m_Fresh, m_Spooled, m_bThreadRunning, deliver>>
           \/ /\ ~m_bQuit /\ (m_Fresh # <<>> \/ due # <<>>)
              /\ thread' = "deliver"
              /\ Due' = due /\ Fresh' = m_Fresh
              /\ m_Spooled' = rest /\ m_Fresh' = <<>>
              /\ UNCHANGED <<m_bThreadRunning, Pending, connection, bConnected,
                             bConnectFailed, step>>
    /\ UNCHANGED <<m_bQuit, process, files, age, stops, history>>

\* mutant: the entries that failed again are left out of the queue
Merge_Forget ==
    /\ thread = "deliver" /\ Due = <<>> /\ Fresh = <<>>
    /\ thread' = "held"
    /\ m_Spooled' = [i \in 1 .. Len(m_Spooled) |->
                        IF bConnected THEN [m_Spooled[i] EXCEPT !.wait = 0] ELSE m_Spooled[i]]
    /\ NoDelivery
    /\ UNCHANGED <<m_Fresh, m_bThreadRunning, m_bQuit, process, files, age, stops, history>>

\* Deliver() has returned: after a connection all that waits is due at once
Merge ==
    /\ thread = "deliver" /\ Due = <<>> /\ Fresh = <<>>
    /\ thread' = "held"
    /\ m_Spooled' = [i \in 1 .. Len(m_Spooled) |->
                        IF bConnected THEN [m_Spooled[i] EXCEPT !.wait = 0] ELSE m_Spooled[i]]
                    \o Pending
    /\ NoDelivery
    /\ UNCHANGED <<m_Fresh, m_bThreadRunning, m_bQuit, process, files, age, stops, history>>

-----------------------------------------------------------------------------
\* Deliver(): one mail after the other, the spooled ones first.

Delivering == thread = "deliver" /\ step = "next" /\ (Due # <<>> \/ Fresh # <<>>)

Current == IF Due # <<>> THEN Head(Due).mail ELSE Head(Fresh)

Record(m, what) == outcome' = [outcome EXCEPT ![m] = @ \cup {what}]

\* EnsureConnected(): an open connection, or one attempt of a round that fails
Connected   == /\ connection \/ ~bConnectFailed
               /\ bConnected' = TRUE
               /\ UNCHANGED bConnectFailed
Unconnected == /\ ~connection
               /\ bConnectFailed' = TRUE /\ connection' = FALSE
               /\ UNCHANGED bConnected

Attempt ==
    /\ Delivering
    /\ \/ /\ Unconnected
          /\ step' = "failed" /\ Record(Current, "failed")
          /\ UNCHANGED <<copies, unsure>>
       \/ /\ Due # <<>> /\ "read" \in DiskFaults       \* Restore() fails
          /\ Connected /\ connection' = TRUE
          /\ step' = "unreadable" /\ Record(Current, "unreadable")
          /\ UNCHANGED <<copies, unsure>>
       \/ /\ Connected
          /\ \E answer \in {"sent", "rejected", "deferred", "lost"} :
                /\ connection' = (answer = "sent")
                /\ step' = IF answer \in {"sent", "rejected"} THEN answer ELSE "failed"
                /\ Record(Current, step')
                /\ copies' = IF answer \in {"sent", "lost"} /\ copies[Current] < 2
                             THEN [copies EXCEPT ![Current] = @ + 1] ELSE copies
                /\ unsure' = IF answer = "lost" THEN unsure \cup {Current} ELSE unsure
    /\ UNCHANGED <<memory, process, thread, Due, Fresh, Pending, files, age, stops, added>>

\* the delay before attempt n + 1, in ticks: doubled until it reaches the maximum
Delay[n \in 1 .. MaxRetryInterval + 1] ==
    IF n = 1 THEN 1
    ELSE IF Delay[n - 1] < MaxRetryInterval THEN 2 * Delay[n - 1] ELSE Delay[n - 1]

Backoff(iAttempts) == IF Delay[iAttempts] < MaxRetryInterval THEN Delay[iAttempts]
                                                             ELSE MaxRetryInterval

\* kRemoveFile of the mail's file, whose failure nobody notices
Remove(m) == \/ disk' = Select(disk, Mail \ {m})
             \/ "remove" \in DiskFaults /\ UNCHANGED disk

\* bound: iAttempts, whose only use is the delay, stops where the delay does
NextAttempt(e) == LET n == IF e.iAttempts <= MaxRetryInterval THEN e.iAttempts + 1
                                                               ELSE e.iAttempts
                  IN  Entry(e.mail, n, Backoff(n))

\* mutant: overaged mail is tried for ever
Reschedule_Always(e) == Pending' = Append(Pending, NextAttempt(e)) /\ UNCHANGED disk

\* after a failed attempt: give up, or wait for the next one
Reschedule(e) ==
    \/ age[e.mail] > MaxAge /\ Remove(e.mail) /\ UNCHANGED Pending
    \/ age[e.mail] <= MaxAge /\ Pending' = Append(Pending, NextAttempt(e)) /\ UNCHANGED disk

\* mutant: the file of a mail that was sent stays
SettleDue_KeepSent ==
    /\ thread = "deliver" /\ Due # <<>> /\ step # "next"
    /\ \/ step = "sent" /\ UNCHANGED <<disk, Pending>>
       \/ step \in {"rejected", "unreadable"} /\ Remove(Current) /\ UNCHANGED Pending
       \/ step = "failed" /\ Reschedule(Head(Due))
    /\ Due' = Tail(Due) /\ step' = "next"
    /\ UNCHANGED <<memory, process, thread, Fresh, connection, bConnected, bConnectFailed,
                   tmp, age, stops, history>>

\* what becomes of a spooled mail after the attempt
SettleDue ==
    /\ thread = "deliver" /\ Due # <<>> /\ step # "next"
    /\ \/ step \in {"sent", "rejected", "unreadable"} /\ Remove(Current) /\ UNCHANGED Pending
       \/ step = "failed" /\ Reschedule(Head(Due))
    /\ Due' = Tail(Due) /\ step' = "next"
    /\ UNCHANGED <<memory, process, thread, Fresh, connection, bConnected, bConnectFailed,
                   tmp, age, stops, history>>

\* what becomes of a fresh one: it is done with, or it is in a file by now
SettleFresh ==
    /\ thread = "deliver" /\ Due = <<>> /\ Fresh # <<>>
    /\ \/ step \in {"sent", "rejected"} /\ UNCHANGED <<disk, Pending>>
       \/ step = "spooled" /\ Reschedule(Entry(Head(Fresh), 0, 0))
    /\ Fresh' = Tail(Fresh) /\ step' = "next"
    /\ UNCHANGED <<memory, process, thread, Due, connection, bConnected, bConnectFailed,
                   tmp, age, stops, history>>

-----------------------------------------------------------------------------
\* Spool(), called by Deliver for a fresh mail that failed and by the destructor
\* for every mail nobody tried to send.

Spooling == IF thread = "deliver" THEN Head(Fresh) ELSE Head(m_Fresh)

PopSpooling == IF thread = "deliver" THEN Fresh' = Tail(Fresh) /\ UNCHANGED m_Fresh
                                     ELSE m_Fresh' = Tail(m_Fresh) /\ UNCHANGED Fresh

SpoolFails == /\ "write" \in DiskFaults
              /\ tmp' = tmp \ {Spooling}
              /\ Record(Spooling, "unwritable")
              /\ PopSpooling /\ step' = "next"
              /\ UNCHANGED disk

SpoolWrite ==
    /\ \/ thread = "deliver" /\ Due = <<>> /\ Fresh # <<>> /\ step = "failed"
       \/ process = "quitting" /\ thread = "none" /\ m_Fresh # <<>> /\ step = "next"
    /\ \/ SpoolFails
       \/ /\ tmp' = tmp \cup {Spooling} /\ step' = "written"
          /\ UNCHANGED <<m_Fresh, Fresh, disk, outcome>>
    /\ UNCHANGED <<m_Spooled, m_bThreadRunning, m_bQuit, process, thread, Due,
                   Pending, connection, bConnected, bConnectFailed, age, stops, added,
                   copies, unsure>>

SpoolRename ==
    /\ step = "written"
    /\ \/ SpoolFails
       \/ /\ tmp' = tmp \ {Spooling} /\ disk' = Append(disk, Spooling)
          /\ IF thread = "deliver" THEN step' = "spooled" /\ UNCHANGED <<m_Fresh, Fresh>>
                                   ELSE step' = "next" /\ PopSpooling
          /\ UNCHANGED outcome
    /\ UNCHANGED <<m_Spooled, m_bThreadRunning, m_bQuit, process, thread, Due,
                   Pending, connection, bConnected, bConnectFailed, age, stops, added,
                   copies, unsure>>

-----------------------------------------------------------------------------

Next == \/ Construct \/ Crash \/ Quit \/ QuitJoin \/ QuitDone
        \/ \E m \in Mail : Add(m)
        \/ Tick
        \/ Lock \/ Wake \/ Round \/ Merge
        \/ Attempt \/ SettleDue \/ SettleFresh \/ SpoolWrite \/ SpoolRename

\* The thread goes on, a wait ends when its time is over, time passes, and no
\* connection attempt, exchange or file operation takes for ever.  Nothing makes
\* the relay answer well, and nothing makes a program add mail, stop or start.
Fairness == /\ WF_vars(Tick)
            /\ WF_vars(Lock) /\ WF_vars(TimeOut) /\ WF_vars(Round) /\ WF_vars(Merge)
            /\ WF_vars(Attempt) /\ WF_vars(SettleDue) /\ WF_vars(SettleFresh)
            /\ WF_vars(SpoolWrite) /\ WF_vars(SpoolRename)

Spec == Init /\ [][Next]_vars /\ Fairness

-----------------------------------------------------------------------------
\* Properties.

TypeOK ==
    LET Entries == [mail : Mail, iAttempts : 0 .. MaxRetryInterval + 1,
                    wait : 0 .. MaxRetryInterval]
    IN  /\ m_Fresh \in Seq(Mail) /\ Fresh \in Seq(Mail) /\ disk \in Seq(Mail)
        /\ m_Spooled \in Seq(Entries) /\ Due \in Seq(Entries) /\ Pending \in Seq(Entries)
        /\ {m_bThreadRunning, m_bQuit, connection, bConnected, bConnectFailed} \subseteq BOOLEAN
        /\ process \in {"down", "up", "quitting"}
        /\ thread \in {"none", "start", "held", "wait", "woken", "deliver", "ended"}
        /\ m_bThreadRunning <=> thread \notin {"none", "ended"}
        /\ step \in {"next", "sent", "rejected", "failed", "unreadable", "written", "spooled"}
        /\ tmp \subseteq Mail /\ added \subseteq Mail /\ unsure \subseteq Mail
        /\ age \in [Mail -> 0 .. MaxAge + 1] /\ stops \in 0 .. MaxStops
        /\ copies \in [Mail -> 0 .. 2]

\* the mapping to KMailQueue: where above, and
overdue == {m \in Mail : age[m] > MaxAge}

Q == INSTANCE KMailQueue

\* An accepted mail is in memory or in a file until the relay took or rejected it,
\* it is overaged and an attempt of this run failed, or a disk fault hit it; a
\* crash takes only what was never written (kmailspool.h:91-103).
ImplementsMailQueue == Q!Spec

\* While the thread may work, every file in the spool directory is known to
\* exactly one entry of the retry queue, and every entry has its file: nothing on
\* disk is overlooked until the next restart and nothing is sent twice from it.
FilesTrackedOnce ==
    (process = "up" \/ thread # "none") =>
        LET entries == m_Spooled \o Due \o Pending
            justSpooled == IF step = "spooled" THEN {Head(Fresh)} ELSE {}
        IN  /\ Cardinality(EntryMails(entries)) = Len(entries)
            /\ EntryMails(entries) \cap justSpooled = {}
            /\ EntryMails(entries) \cup justSpooled = Elements(disk)
            /\ Cardinality(Elements(disk)) = Len(disk)

\* The relay gets a mail a second time only when its answer was lost, or when the
\* process died after the relay took it and before the file was removed.
DuplicateOnlyIfUnsure == \A m \in Mail : copies[m] > 1 => m \in unsure

\* However the relay behaves, mail does not wait for ever in a running process: it
\* is sent, rejected, or given up when it is overaged, so the wakeup of Add(), the
\* timed wait and the end and restart of the thread overlook none.
EveryMailSettles ==
    \A m \in Mail : (m \in added /\ process = "up")
                        ~> (where[m] = "nowhere" \/ process # "up")

=============================================================================
