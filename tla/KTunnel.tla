-------------------------------- MODULE KTunnel -----------------------------
(***************************************************************************)
(* Two KTunnel instances that carry many connections over one stream.      *)
(*                                                                         *)
(* On each side one thread (Run) owns the tunnel's stream: it writes the   *)
(* messages which all threads put into m_OutQueue, and hands the messages  *)
(* it reads to the connections.  Each connection has a thread (Pump) that  *)
(* owns the direct stream to the outside.  Both sleep in a poll() that     *)
(* other threads end with a KPollInterruptor.  Bytes are counted in the    *)
(* chunks that one read takes in; login and pings are left out.  A message *)
(* may pass the stream in parts: Run() then blocks in the midst of it, with *)
(* the stream locked.                                                      *)
(***************************************************************************)
EXTENDS Naturals, Sequences, FiniteSets

CONSTANTS Side,                  \* the two instances
          MaxChannel,            \* bound: connections a side asks for
          Connector,             \* the sides whose program calls Connect()
          Input,                 \* bound: chunks the outside sends, by end
          Stopping,              \* sides whose program may call Stop()
          Slow,                  \* ends whose outside may be slow to read,
          Closing,               \* ... and may close
          MaxMessageQueueSize,
          MaxWire,               \* messages the tunnel's stream holds
          Faults,                \* what may go wrong
          None

Channel == 1 .. MaxChannel

\* a connection has an end on either side
End == Side \X Channel

Other(s) == CHOOSE o \in Side : o # s
Peer(e)  == <<Other(e[1]), e[2]>>

\* chunks are numbered in the order in which the outside sends them
Chunk == [from : {"forward", "target"}, n : Nat \ {0}]

Sent == [type : {"Connect", "Data", "Disconnect", "Pause", "Resume"},
         chan : Channel, chunk : Chunk \cup {None}]

ASSUME KTunnelAssumption ==
    /\ IsFiniteSet(Side) /\ Cardinality(Side) = 2 /\ Connector \subseteq Side
    /\ {MaxChannel, MaxMessageQueueSize, MaxWire} \subseteq Nat \ {0}
    /\ Input \in [End -> Nat] /\ Slow \subseteq End /\ Closing \subseteq End
    /\ Stopping \subseteq Side
    /\ Faults \subseteq {"idle", "unreachable", "limit", "stall", "timeout", "broken"}

ASSUME NoneAssumption == None \notin Chunk /\ None \notin Sent

VARIABLES m_OutQueue,      \* [Side -> messages]
          wire,            \* [Side -> messages it wrote and the other has not read]
          partial,         \* sides that have sent only a part of their last message
          m_Wakeup,        \* sides whose interruptor is set
          run,             \* [Side -> where Run() is]
          stream,          \* sides whose tunnel stream is good
          stop,            \* sides where a call of Stop() waits
          m_Connections,   \* the listed ends
          m_iConnection,   \* [Side -> the last channel given out]
          conn,            \* [End -> the Connection and its Pump()]
          outside,         \* [End -> the other end of the direct stream]
          taken,           \* history: chunks read from the outside
          delivered,       \* history: chunks written to it
          why              \* history: what made an end close

tunnel  == <<m_OutQueue, wire, partial, m_Wakeup, run, stream, stop>>
streams == <<wire, partial, run, stream, stop>>
table   == <<m_Connections, m_iConnection>>
history == <<taken, delivered, why>>
vars    == <<tunnel, table, conn, outside, history>>

\* "at" is where the end's thread is; "sleep" polls for input, "deaf" does not
Closed == {"ended", "done"}
Pumping == {"round", "resume", "sleep", "deaf"}

Connection(role, at) ==
    [role |-> role, at |-> at, m_MessageQueue |-> <<>>, ToDirect |-> None, bDisconnect |-> FALSE,
     m_bRXPaused |-> FALSE, m_bPaused |-> FALSE, m_Wakeup |-> FALSE]

Quiet == [input |-> 0, full |-> FALSE, closed |-> FALSE]

Message(type, e) == [type |-> type, chan |-> e[2], chunk |-> None]

Init ==
    /\ m_OutQueue = [s \in Side |-> <<>>] /\ wire = [s \in Side |-> <<>>]
    /\ partial = {} /\ m_Wakeup = {} /\ run = [s \in Side |-> "round"]
    /\ stream = Side /\ stop = {}
    /\ m_Connections = {} /\ m_iConnection = [s \in Side |-> 0]
    /\ conn = [e \in End |-> Connection("none", "none")]
    /\ outside = [e \in End |-> Quiet]
    /\ taken = [e \in End |-> 0] /\ delivered = [e \in End |-> <<>>]
    /\ why = [e \in End |-> "none"]

QueueMessage(s, message) ==
    /\ m_OutQueue' = [m_OutQueue EXCEPT ![s] = Append(@, message)]
    /\ m_Wakeup' = m_Wakeup \cup {s}

NoMessage == UNCHANGED <<m_OutQueue, m_Wakeup>>

-----------------------------------------------------------------------------
\* Connections.

\* Connections::Create for a channel: a fresh connection
Create(e, role, at) ==
    /\ m_Connections' = m_Connections \cup {e}
    /\ conn'      = [conn EXCEPT ![e] = Connection(role, at)]
    /\ outside'   = [outside EXCEPT ![e] = Quiet]
    /\ taken'     = [taken EXCEPT ![e] = 0]
    /\ delivered' = [delivered EXCEPT ![e] = <<>>]
    /\ why'       = [why EXCEPT ![e] = "none"]

\* Connect() on the side of the client: the next free channel
Connect(s) ==
    LET free == {c \in Channel : c > m_iConnection[s] /\ <<s, c>> \notin m_Connections}
        c    == CHOOSE x \in free : \A y \in free : x <= y
    IN  /\ s \in Connector /\ free # {}
        /\ m_iConnection' = [m_iConnection EXCEPT ![s] = c]
        /\ Create(<<s, c>>, "forward", "connect")
        /\ UNCHANGED tunnel

\* ... asks for the connection, and pumps
ConnectAsks(e) ==
    /\ conn[e].at = "connect"
    /\ QueueMessage(e[1], Message("Connect", e))
    /\ conn' = [conn EXCEPT ![e].at = "round"]
    /\ UNCHANGED <<streams, table, outside, history>>

\* the far side's thread for a new connection
ConnectToTarget(e) ==
    /\ conn[e].at = "connecting"
    /\ \/ conn' = [conn EXCEPT ![e].at = "round"] /\ UNCHANGED why
       \/ /\ "unreachable" \in Faults
          /\ conn' = [conn EXCEPT ![e].at = "ended"]
          /\ why'  = [why EXCEPT ![e] = "unreachable"]
    /\ UNCHANGED <<tunnel, table, outside, taken, delivered>>

Remove(e) ==
    /\ conn[e].at = "ended"
    /\ m_Connections' = m_Connections \ {e}
    /\ conn' = [conn EXCEPT ![e] = Connection(conn[e].role, "done")]
    /\ UNCHANGED <<tunnel, m_iConnection, outside, history>>

\* queues a message for the pump, and asks for a pause when there are many
SendData(e, message) ==
    LET queue == Append(conn[e].m_MessageQueue, message)
        pause == ~conn[e].m_bRXPaused /\ Len(queue) >= MaxMessageQueueSize
    IN  /\ conn' = [conn EXCEPT ![e].m_MessageQueue = queue, ![e].m_bRXPaused = @ \/ pause,
                                ![e].m_Wakeup = TRUE]
        /\ IF pause THEN QueueMessage(e[1], Message("Pause", e)) ELSE NoMessage

Pause(e) == conn' = [conn EXCEPT ![e].m_bPaused = TRUE]

\* mutant: a pump that has stopped polling for input is not woken
Resume_Silent(e) == conn' = [conn EXCEPT ![e].m_bPaused = FALSE]

Resume(e) == conn' = [conn EXCEPT ![e].m_bPaused = FALSE,
                                  ![e].m_Wakeup = @ \/ conn[e].m_bPaused]

-----------------------------------------------------------------------------
\* Pump().  What a thread does between two accesses to shared state is one step
\* with the first of them.

\* mutant: a disconnect is acted on before what was queued earlier
First_Disconnect(e) ==
    LET queue == conn[e].m_MessageQueue
        quits == SelectSeq(queue, LAMBDA m : m.type = "Disconnect")
    IN  IF conn[e].ToDirect # None \/ queue = <<>> THEN None
        ELSE IF quits # <<>> THEN quits[1] ELSE Head(queue)

\* the next message for the outside, once the last one is out
First(e) == IF conn[e].ToDirect # None \/ conn[e].m_MessageQueue = <<>>
            THEN None ELSE Head(conn[e].m_MessageQueue)

Rest(e) == IF First(e) = None THEN conn[e].m_MessageQueue ELSE Tail(conn[e].m_MessageQueue)

Quits(e) == First(e) # None /\ First(e).type = "Disconnect"

Outbound(e) == IF First(e) = None THEN conn[e].ToDirect ELSE First(e).chunk

Resumes(e) == /\ conn[e].ToDirect = None /\ conn[e].m_bRXPaused
              /\ Len(Rest(e)) < MaxMessageQueueSize \div 2

\* the begin of a round, when the peer is to be resumed: the queue is unlocked
\* before the message is sent
PumpMakesRoom(e) ==
    /\ conn[e].at = "round" /\ Resumes(e)
    /\ conn' = [conn EXCEPT ![e].at = "resume", ![e].m_MessageQueue = Rest(e),
                            ![e].ToDirect = Outbound(e), ![e].bDisconnect = Quits(e),
                            ![e].m_bRXPaused = FALSE]
    /\ UNCHANGED <<tunnel, table, outside, history>>

PumpResume(e) ==
    /\ conn[e].at = "resume"
    /\ QueueMessage(e[1], Message("Resume", e))
    /\ conn' = [conn EXCEPT ![e].at = "round"]
    /\ UNCHANGED <<streams, table, outside, history>>

\* mutant: the peer is not told
Finish_Silent(e, reason) ==
    /\ NoMessage
    /\ conn' = [conn EXCEPT ![e].at = "ended", ![e].m_MessageQueue = <<>>, ![e].ToDirect = None]
    /\ why'  = [why EXCEPT ![e] = reason]

\* the end of Pump()
Finish(e, reason) ==
    /\ QueueMessage(e[1], Message("Disconnect", e))
    /\ conn' = [conn EXCEPT ![e].at = "ended", ![e].m_MessageQueue = <<>>, ![e].ToDirect = None]
    /\ why'  = [why EXCEPT ![e] = reason]

PumpQuits(e) ==
    /\ conn[e].at = "round" /\ ~Resumes(e) /\ (Quits(e) \/ conn[e].bDisconnect)
    /\ Finish(e, "peer")
    /\ UNCHANGED <<streams, table, outside, taken, delivered>>

CanWrite(e) == Outbound(e) # None /\ (~outside[e].full \/ outside[e].closed)
Readable(e) == outside[e].input > 0 \/ outside[e].closed
CanRead(e)  == ~conn[e].m_bPaused /\ Readable(e)

InRound(e) == /\ conn[e].at = "round"
              /\ ~Resumes(e) /\ ~Quits(e) /\ ~conn[e].bDisconnect

\* one write and one read
PumpIO(e) ==
    LET eof   == CanRead(e) /\ outside[e].input = 0
        reads == CanRead(e) /\ outside[e].input > 0
        chunk == [from |-> conn[e].role, n |-> taken[e] + 1]
    IN  /\ InRound(e) /\ (CanWrite(e) \/ CanRead(e))
        /\ delivered' = IF CanWrite(e) THEN [delivered EXCEPT ![e] = Append(@, Outbound(e))]
                                       ELSE delivered
        /\ outside' = [outside EXCEPT ![e].full  = @ \/ (CanWrite(e) /\ e \in Slow),
                                      ![e].input = IF reads THEN 0 ELSE @]
        /\ \/ eof /\ Finish(e, "outside") /\ UNCHANGED taken
           \/ /\ ~eof
              /\ conn' = [conn EXCEPT ![e].m_MessageQueue = Rest(e),
                                      ![e].ToDirect = IF CanWrite(e) THEN None ELSE Outbound(e)]
              /\ IF reads THEN /\ QueueMessage(e[1], [Message("Data", e) EXCEPT !.chunk = chunk])
                               /\ taken' = [taken EXCEPT ![e] = @ + 1]
                          ELSE NoMessage /\ UNCHANGED taken
              /\ UNCHANGED why
        /\ UNCHANGED <<streams, table>>

\* nothing to do: what poll() waits for is decided here
PumpSleeps(e) ==
    /\ InRound(e) /\ ~CanWrite(e) /\ ~CanRead(e)
    /\ conn' = [conn EXCEPT ![e].at = IF conn[e].m_bPaused THEN "deaf" ELSE "sleep",
                            ![e].m_MessageQueue = Rest(e), ![e].ToDirect = Outbound(e)]
    /\ UNCHANGED <<tunnel, table, outside, history>>

Asleep(e) == conn[e].at \in {"sleep", "deaf"}

\* what poll() returns for
Ready(e) == \/ conn[e].ToDirect # None /\ (~outside[e].full \/ outside[e].closed)
            \/ conn[e].at = "sleep" /\ Readable(e)

PumpWakes(e) ==
    /\ Asleep(e) /\ (conn[e].m_Wakeup \/ Ready(e))
    /\ conn' = [conn EXCEPT ![e].at = "round", ![e].m_Wakeup = FALSE]
    /\ UNCHANGED <<tunnel, table, outside, history>>

\* the outside is gone, noticed in a write or by poll()
PumpLost(e) ==
    /\ outside[e].closed
    /\ (InRound(e) /\ CanWrite(e)) \/ (Asleep(e) /\ ~conn[e].m_Wakeup)
    /\ Finish(e, "outside")
    /\ UNCHANGED <<streams, table, outside, taken, delivered>>

PumpTimesOut(e) ==
    /\ "idle" \in Faults /\ Asleep(e) /\ ~conn[e].m_Wakeup /\ ~Ready(e)
    /\ Finish(e, "timeout")
    /\ UNCHANGED <<streams, table, outside, taken, delivered>>

Pump(e) == \/ ConnectAsks(e) \/ ConnectToTarget(e)
           \/ PumpMakesRoom(e) \/ PumpResume(e) \/ PumpQuits(e)
           \/ PumpIO(e) \/ PumpSleeps(e) \/ PumpWakes(e) \/ Remove(e)

-----------------------------------------------------------------------------
\* Run(), and the messages.

\* the channel is refused when it is taken, or at iMaxTunneledConnections (which
\* REPL channels count for, too)
HandleConnect(e) ==
    \/ /\ e \notin m_Connections
       /\ Create(e, "target", "connecting")
       /\ NoMessage
    \/ /\ e \in m_Connections \/ "limit" \in Faults
       /\ QueueMessage(e[1], Message("Disconnect", e))
       /\ UNCHANGED <<m_Connections, conn, outside, history>>

\* the other messages, for a connection that is listed, or not
HandleKnown(e, message) ==
    /\ e \in m_Connections
    /\ \/ message.type \in {"Data", "Disconnect"} /\ SendData(e, message)
       \/ message.type = "Pause"  /\ Pause(e)  /\ NoMessage
       \/ message.type = "Resume" /\ Resume(e) /\ NoMessage

HandleUnknown(e, message) ==
    /\ e \notin m_Connections
    /\ IF message.type = "Disconnect" THEN NoMessage
                                      ELSE QueueMessage(e[1], Message("Disconnect", e))
    /\ UNCHANGED conn

HandleMessage(e, message) ==
    \/ message.type = "Connect" /\ HandleConnect(e)
    \/ /\ message.type # "Connect"
       /\ HandleKnown(e, message) \/ HandleUnknown(e, message)
       /\ UNCHANGED <<m_Connections, outside, history>>

Goto(s, where) == run' = [run EXCEPT ![s] = where]

CanSend(s) == m_OutQueue[s] # <<>> /\ Len(wire[s]) < MaxWire

\* Run() holds m_Tunnel while it reads or writes a message, also when that blocks.
Locked(s) == run[s] \in {"reading", "writing"}

\* A round writes one message, if the stream takes some of it: the write blocks
\* until the stream has taken the rest,
RunSend(s) ==
    /\ s \in stream /\ run[s] = "round" /\ CanSend(s)
    /\ wire' = [wire EXCEPT ![s] = Append(@, Head(m_OutQueue[s]))]
    /\ m_OutQueue' = [m_OutQueue EXCEPT ![s] = Tail(@)]
    /\ \/ UNCHANGED <<partial, run>>
       \/ "stall" \in Faults /\ partial' = partial \cup {s} /\ Goto(s, "writing")
    /\ UNCHANGED <<m_Wakeup, stream, stop, table, conn, outside, history>>

\* for which the other side has to make room.
HasRoom(s) == Len(wire[s]) < MaxWire \/ run[Other(s)] = "reading"

RunHasSent(s) ==
    /\ run[s] = "writing" /\ HasRoom(s)
    /\ partial' = partial \ {s} /\ Goto(s, "round")
    /\ UNCHANGED <<m_OutQueue, wire, m_Wakeup, stream, stop, table, conn, outside, history>>

\* The next message to read has come in as a whole.
Whole(s) == s \notin partial \/ Len(wire[s]) > 1

\* It reads and handles one, if there is one,
RunReceive(s) ==
    LET in == wire[Other(s)]
    IN  /\ s \in stream /\ run[s] \in {"round", "reading"}
        /\ in # <<>> /\ Whole(Other(s))
        /\ wire' = [wire EXCEPT ![Other(s)] = Tail(@)]
        /\ HandleMessage(<<s, Head(in).chan>>, Head(in))
        /\ Goto(s, "round")
        /\ UNCHANGED <<partial, stream, stop, m_iConnection>>

\* or blocks in the midst of it.
RunReads(s) ==
    /\ s \in stream /\ run[s] = "round"
    /\ wire[Other(s)] # <<>> /\ ~Whole(Other(s))
    /\ Goto(s, "reading")
    /\ UNCHANGED <<m_OutQueue, wire, partial, m_Wakeup, stream, stop, table, conn, outside, history>>

\* Else it polls, for room too if there is something to write.
RunSleeps(s) ==
    /\ s \in stream /\ run[s] = "round" /\ ~CanSend(s) /\ wire[Other(s)] = <<>>
    /\ Goto(s, IF m_OutQueue[s] # <<>> THEN "full" ELSE "sleep")
    /\ UNCHANGED <<m_OutQueue, wire, partial, m_Wakeup, stream, stop, table, conn, outside, history>>

RunWakes(s) ==
    /\ run[s] \in {"sleep", "full"}
    /\ \/ s \in m_Wakeup
       \/ s \in stream /\ (wire[Other(s)] # <<>> \/ (run[s] = "full" /\ CanSend(s)))
    /\ m_Wakeup' = m_Wakeup \ {s}
    /\ Goto(s, "round")
    /\ UNCHANGED <<m_OutQueue, wire, partial, stream, stop, table, conn, outside, history>>

\* Stop(), in any thread, waits for m_Tunnel,
Stop(s) ==
    /\ s \in Stopping /\ s \in stream
    /\ stop' = stop \cup {s}
    /\ UNCHANGED <<m_OutQueue, wire, partial, m_Wakeup, run, stream, table, conn, outside, history>>

\* mutant: "closing a socket does not reliably unblock a poll()"
StopCloses_Silent(s) ==
    /\ s \in stop /\ ~Locked(s)
    /\ stream' = stream \ {s} /\ stop' = stop \ {s}
    /\ UNCHANGED <<m_OutQueue, wire, partial, m_Wakeup, run, table, conn, outside, history>>

\* closes the stream and wakes Run().
StopCloses(s) ==
    /\ s \in stop /\ ~Locked(s)
    /\ stream' = stream \ {s} /\ stop' = stop \ {s} /\ m_Wakeup' = m_Wakeup \cup {s}
    /\ UNCHANGED <<m_OutQueue, wire, partial, run, table, conn, outside, history>>

Leave(s) ==
    /\ Goto(s, "home") /\ stream' = stream \ {s}
    /\ UNCHANGED <<m_OutQueue, wire, partial, m_Wakeup, stop, table, conn, outside, history>>

\* Run() finds its stream closed, or poll(), a read or a write reports that the peer
\* has closed it.
RunEnds(s) ==
    /\ \/ run[s] = "round" /\ s \notin stream
       \/ run[s] # "home" /\ s \in stream /\ Other(s) \notin stream
    /\ Leave(s)

\* ... or it throws: an error of the stream, or nothing came for too long
RunThrows(s) == "broken" \in Faults /\ s \in stream /\ run[s] # "home" /\ Leave(s)

\* The stream ends a read or a write that is blocked for IdleTimeout.
RunTimesOut(s) == "timeout" \in Faults /\ Locked(s) /\ Leave(s)

-----------------------------------------------------------------------------
\* The outside: sends, reads, and closes.

Connected(e) == conn[e].at \in Pumping \cup {"connect"}

OutsideSends(e) ==
    /\ Connected(e) /\ ~outside[e].closed /\ outside[e].input = 0 /\ taken[e] < Input[e]
    /\ outside' = [outside EXCEPT ![e].input = 1]
    /\ UNCHANGED <<tunnel, table, conn, history>>

OutsideReads(e) ==
    /\ outside[e].full
    /\ outside' = [outside EXCEPT ![e].full = FALSE]
    /\ UNCHANGED <<tunnel, table, conn, history>>

OutsideCloses(e) ==
    /\ e \in Closing /\ Connected(e) /\ ~outside[e].closed
    /\ outside' = [outside EXCEPT ![e].closed = TRUE]
    /\ UNCHANGED <<tunnel, table, conn, history>>

Run(s) == \/ RunSend(s) \/ RunReceive(s) \/ RunReads(s) \/ RunSleeps(s) \/ RunWakes(s)
          \/ RunEnds(s)

Next == \/ \E s \in Side : \/ Connect(s) \/ Run(s) \/ RunHasSent(s) \/ RunTimesOut(s)
                           \/ RunThrows(s) \/ Stop(s) \/ StopCloses(s)
        \/ \E e \in End : \/ Pump(e) \/ PumpLost(e) \/ PumpTimesOut(e)
                          \/ OutsideSends(e) \/ OutsideReads(e) \/ OutsideCloses(e)

\* The threads go on, and an outside reads what it gets, slowly or not.  Nothing makes
\* it send or close, and nothing makes a program connect.  A message that the stream has
\* taken in part need not get on; that a blocked operation times out is just time passing.
Fairness == /\ \A s \in Side : WF_vars(Run(s)) /\ WF_vars(RunTimesOut(s)) /\ WF_vars(StopCloses(s))
            /\ \A e \in End  : WF_vars(Pump(e))
            /\ \A e \in Slow : WF_vars(OutsideReads(e))

Spec == Init /\ [][Next]_vars /\ Fairness

-----------------------------------------------------------------------------
\* Properties.

Down == stream # Side

ClosedEnd(e) == conn[e].at \in Closed

TypeOK ==
    /\ m_OutQueue \in [Side -> Seq(Sent)] /\ wire \in [Side -> Seq(Sent)]
    /\ m_Wakeup \subseteq Side /\ stream \subseteq Side /\ m_Connections \subseteq End
    /\ run \in [Side -> {"round", "reading", "writing", "sleep", "full", "home"}]
    /\ partial \subseteq Side /\ stop \subseteq Side
    /\ m_iConnection \in [Side -> 0 .. MaxChannel]
    /\ conn \in [End -> [role : {"none", "forward", "target"},
                         at : Pumping \cup Closed \cup {"none", "connect", "connecting"},
                         m_MessageQueue : Seq(Sent), ToDirect : Chunk \cup {None},
                         bDisconnect : BOOLEAN, m_bRXPaused : BOOLEAN,
                         m_bPaused : BOOLEAN, m_Wakeup : BOOLEAN]]
    /\ outside \in [End -> [input : Nat, full : BOOLEAN, closed : BOOLEAN]]
    /\ taken \in [End -> Nat] /\ delivered \in [End -> Seq(Chunk)]
    /\ why \in [End -> {"none", "outside", "timeout", "unreachable", "peer"}]

\* Each connection is a pair of complete and ordered byte pipes, and one that is
\* closed after its peer has put out everything before (ktunnel.h:74).
Phase(e) == IF conn[e].at = "none" THEN "none"
            ELSE IF conn[e].at \in {"ended", "done"} THEN "closed" ELSE "open"

P == INSTANCE KTunnelPipes
        WITH role  <- [e \in End |-> conn[e].role],
             phase <- [e \in End |-> Phase(e)],
             why   <- [e \in End |-> IF Phase(e) = "closed" THEN why[e] ELSE "none"]

ImplementsPipes == P!Spec

\* What the outside sends at one end arrives at the other, unless an end closes or
\* the tunnel breaks: again and again nothing is under way, as no wakeup, pause or
\* resume is lost.
EveryChunkArrives ==
    \A e \in End : []<>(\/ Len(delivered[Peer(e)]) = taken[e] + outside[e].input
                       \/ ClosedEnd(e) \/ ClosedEnd(Peer(e)) \/ Down)

\* A connection ends when the other side has none, any more or at all: when the other
\* end has closed, be it first, at the same time or before this one pumps, and when
\* it was refused.  Connect() will "return after connection is closed from the other
\* end" (ktunnel.h:433), without a timeout.
Asked(e) == \E i \in DOMAIN (m_OutQueue[e[1]] \o wire[e[1]]) :
                (m_OutQueue[e[1]] \o wire[e[1]])[i] = Message("Connect", e)

Abandoned(e) == /\ conn[e].at \in Pumping \cup {"connecting"}
                /\ conn[Peer(e)].at \in Closed \cup {"none"} /\ ~Asked(e)

CloseReachesPeer == \A e \in End : Abandoned(e) ~> ClosedEnd(e) \/ Down

\* A call of Stop() makes Run() return, and so does the end of the other side's: its
\* thread may be at work, asleep in its poll, or blocked in a read or a write that
\* keeps the lock Stop() needs.  With a stream that stalls this holds by the timeout of
\* the blocked operation only; "a blocked ReadMessage()/WriteMessage() returns promptly"
\* (ktunnel.h:447-449) would be this property without "timeout".
StopEndsRun == \A s \in Side : (s \in stop \/ Down) ~> run[s] = "home"

\* The two Run() never block in a write both, each waiting for the other to read.
NoStandoff == ~ \A s \in Side : run[s] = "writing" /\ ~HasRoom(s)

\* "from either side you can Connect() new connections which will be multiplexed
\* transparently through the tunnel" (ktunnel.h:418-419): what a stream receives
\* comes from the target it asked for, and a target only gets what its stream sent.
Transparent ==
    \A e \in End : \A i \in DOMAIN delivered[e] : delivered[e][i].from # conn[e].role

\* While a pump waits for room ("m_bRXPaused") its peer is paused, or will be by
\* the last message on its way.
OnTheWay(e) == SelectSeq(wire[e[1]] \o m_OutQueue[e[1]],
                         LAMBDA m : m.chan = e[2] /\ m.type \in {"Pause", "Resume"})

PauseHolds ==
    \A e \in End : (conn[e].m_bRXPaused /\ conn[Peer(e)].at \in Pumping) =>
        IF OnTheWay(e) = <<>> THEN conn[Peer(e)].m_bPaused
                              ELSE OnTheWay(e)[Len(OnTheWay(e))].type = "Pause"
=============================================================================
