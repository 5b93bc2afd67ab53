--------------------------- MODULE KTunnel_proofs ---------------------------
(***************************************************************************)
(* Two tunnels whose connections are all asked for by the programs of one  *)
(* side, for any number of connections, chunks, queue and stream bounds,   *)
(* slow or closing outsides and faults: each connection is a pair of byte  *)
(* pipes (TunnelImplementsPipes).                                          *)
(*                                                                         *)
(* That what comes out is complete and in order is not inductive.  Flow    *)
(* says where the chunks are that one end has taken in and the other has   *)
(* not put out: once each and in order in its queue, on the wire, and in   *)
(* the other side's out queue.  Gone says that a disconnect is the last    *)
(* word of an end; Talk that a channel is spoken about only after its      *)
(* client has asked for it, once; Roles which ends are in use, and as what.*)
(* A thread's step adds to what its peer has to handle (Turn), a handled   *)
(* message moves from the wire to a queue (Heard).                         *)
(***************************************************************************)
EXTENDS KTunnel, SequenceTheorems, FiniteSetTheorems, WellFoundedInduction, TLAPS

\* The programs of one side only open connections (see Transparent for both).
OneClient == \E s \in Side : Connector \subseteq {s}

Client == CHOOSE s \in Side : Connector \subseteq {s}
Server == Other(Client)

LEMMA Sides ==
    ASSUME OneClient
    PROVE  /\ Client \in Side /\ Server \in Side /\ Client # Server
           /\ Side = {Client, Server} /\ Connector \subseteq {Client}
           /\ Other(Client) = Server /\ Other(Server) = Client
<1>1. Client \in Side /\ Connector \subseteq {Client} BY DEF OneClient, Client
<1>2. PICK T : T = Side \ {Client} OBVIOUS
<1>3. IsFiniteSet(T) /\ Cardinality(T) = 1
  BY <1>1, <1>2, FS_RemoveElement, KTunnelAssumption
<1>4. PICK x : T = {x} BY <1>3, FS_Singleton
<1>5. Side = {Client, x} /\ x # Client BY <1>1, <1>2, <1>4
<1>6. Other(Client) = x BY <1>5 DEF Other
<1>7. Other(x) = Client BY <1>5 DEF Other
<1> QED BY <1>1, <1>5, <1>6, <1>7 DEF Server

LEMMA Others ==
    ASSUME OneClient, NEW s \in Side
    PROVE  Other(s) \in Side /\ Other(s) # s /\ Other(Other(s)) = s
BY Sides

\* An end and its peer.
LEMMA Ends ==
    ASSUME OneClient, NEW e \in End
    PROVE  /\ e[1] \in Side /\ e[2] \in Channel /\ e = <<e[1], e[2]>>
           /\ Peer(e) \in End /\ Peer(e)[1] = Other(e[1]) /\ Peer(e)[2] = e[2]
           /\ Peer(e) # e /\ Peer(Peer(e)) = e
BY Others DEF End, Peer

\* Two ends of a channel are the same or peers of each other.
LEMMA ChannelEnds ==
    ASSUME OneClient, NEW e \in End, NEW d \in End, d[2] = e[2]
    PROVE  d = e \/ d = Peer(e)
BY Sides, Ends DEF End, Peer

-----------------------------------------------------------------------------
\* What is on its way to an end

\* the messages the tunnel sends: a chunk is in a Data message and in no other
Real == {m \in Sent : (m.type = "Data") <=> (m.chunk # None)}

IsData(m, c) == m.type = "Data" /\ m.chan = c
IsQuit(m, c) == m.type = "Disconnect" /\ m.chan = c
IsAsk(m, c)  == m.type = "Connect" /\ m.chan = c

Says(q, c)  == \E i \in 1 .. Len(q) : q[i].chan = c
Asks(q, c)  == \E i \in 1 .. Len(q) : IsAsk(q[i], c)
Quitting(q, c) == \E i \in 1 .. Len(q) : IsQuit(q[i], c)
NoData(q, c) == \A i \in 1 .. Len(q) : ~IsData(q[i], c)

\* q holds the chunks lo + 1 .. hi of channel c, each once and in their order, and no
\* disconnect before one of them.
InOrder(q, c, from, lo, hi) ==
    /\ lo <= hi
    /\ \A i \in 1 .. Len(q) : IsData(q[i], c) =>
         q[i].chunk.from = from /\ q[i].chunk.n \in lo + 1 .. hi
    /\ \A i, j \in 1 .. Len(q) : i < j /\ IsData(q[j], c) =>
         /\ ~IsQuit(q[i], c)
         /\ IsData(q[i], c) => q[i].chunk.n < q[j].chunk.n
    /\ \A n \in lo + 1 .. hi : \E i \in 1 .. Len(q) : IsData(q[i], c) /\ q[i].chunk.n = n

\* A connection is asked for before anything else is said about its channel.
AskedFirst(q, c) == \A i, j \in 1 .. Len(q) : IsAsk(q[i], c) /\ q[j].chan = c => i <= j

\* a message out of the middle
LEMMA Places ==
    ASSUME NEW q \in Seq(Real), NEW m \in Real, NEW r \in Seq(Real)
    PROVE  LET p == q \o (<<m>> \o r)
               s == q \o r
               k == Len(q) + 1
           IN  /\ p \in Seq(Real) /\ s \in Seq(Real) /\ k \in 1 .. Len(p)
               /\ Len(p) \in Nat /\ Len(p) = Len(s) + 1 /\ p[k] = m
               /\ \A i \in 1 .. Len(s) : IF i < k THEN s[i] = p[i] ELSE s[i] = p[i + 1]
<1>1. <<m>> \in Seq(Real) /\ Len(<<m>>) = 1 /\ <<m>>[1] = m OBVIOUS
<1>2. PICK t : t = <<m>> \o r OBVIOUS
<1>3. PICK a \in Nat, b \in Nat : a = Len(q) /\ b = Len(r) BY LenProperties
<1>4. /\ t \in Seq(Real) /\ Len(t) = b + 1 /\ t[1] = m
      /\ \A i \in 1 .. b : t[i + 1] = r[i]
  <2>1. t \in Seq(Real) /\ Len(t) = 1 + b BY <1>1, <1>2, <1>3, ConcatProperties
  <2>2. \A i \in 1 .. 1 + b : t[i] = IF i <= 1 THEN <<m>>[i] ELSE r[i - 1]
    BY <1>1, <1>2, <1>3, ConcatProperties
  <2>3. t[1] = m BY <1>1, <1>3, <2>2
  <2>4. ASSUME NEW i \in 1 .. b PROVE t[i + 1] = r[i]
    <3>1. i + 1 \in 1 .. 1 + b /\ ~(i + 1 <= 1) /\ (i + 1) - 1 = i OBVIOUS
    <3> QED BY <2>2, <3>1
  <2> QED BY <1>3, <2>1, <2>3, <2>4
<1>5. PICK p, s : p = q \o t /\ s = q \o r OBVIOUS
<1>6. /\ p \in Seq(Real) /\ Len(p) = a + (b + 1)
      /\ \A i \in 1 .. a + (b + 1) : p[i] = IF i <= a THEN q[i] ELSE t[i - a]
  <2>1. t \in Seq(Real) /\ Len(t) = b + 1 BY <1>4
  <2>2. /\ q \o t \in Seq(Real) /\ Len(q \o t) = Len(q) + Len(t)
        /\ \A i \in 1 .. Len(q) + Len(t) :
             (q \o t)[i] = IF i <= Len(q) THEN q[i] ELSE t[i - Len(q)]
    BY <2>1, ConcatProperties
  <2> QED BY <1>3, <1>5, <2>1, <2>2
<1>7. /\ s \in Seq(Real) /\ Len(s) = a + b
      /\ \A i \in 1 .. a + b : s[i] = IF i <= a THEN q[i] ELSE r[i - a]
  BY <1>3, <1>5, ConcatProperties
<1>8. p[a + 1] = m
  <2>1. a + 1 \in 1 .. a + (b + 1) /\ ~(a + 1 <= a) /\ (a + 1) - a = 1 BY <1>3
  <2> QED BY <1>4, <1>6, <2>1
<1>9. ASSUME NEW i \in 1 .. a + b
      PROVE  IF i < a + 1 THEN s[i] = p[i] ELSE s[i] = p[i + 1]
  <2>1. CASE i <= a
    <3>1. i \in 1 .. a + (b + 1) /\ i < a + 1 BY <1>3, <2>1
    <3>2. p[i] = q[i] BY <1>6, <2>1, <3>1
    <3>3. s[i] = q[i] BY <1>7, <2>1
    <3> QED BY <3>1, <3>2, <3>3
  <2>2. CASE ~(i <= a)
    <3>1. i + 1 \in 1 .. a + (b + 1) /\ ~(i + 1 <= a) /\ (i + 1) - a = (i - a) + 1 BY <2>2
    <3>2. i - a \in 1 .. b BY <2>2
    <3>3. p[i + 1] = t[(i - a) + 1] BY <1>6, <3>1
    <3>4. t[(i - a) + 1] = r[i - a] BY <1>4, <3>2
    <3>5. s[i] = r[i - a] BY <1>7, <2>2
    <3> QED BY <2>2, <3>3, <3>4, <3>5
  <2> QED BY <2>1, <2>2
<1> QED BY <1>2, <1>3, <1>5, <1>6, <1>7, <1>8, <1>9

LEMMA DropSays ==
    ASSUME NEW q \in Seq(Real), NEW m \in Real, NEW r \in Seq(Real), NEW c
    PROVE  LET p == q \o (<<m>> \o r)
               s == q \o r
           IN  /\ Says(s, c) => Says(p, c)
               /\ Asks(s, c) => Asks(p, c)
               /\ Quitting(s, c) => Quitting(p, c)
               /\ NoData(p, c) => NoData(s, c)
               /\ AskedFirst(p, c) => AskedFirst(s, c)
               /\ m.chan # c /\ Asks(p, c) => Asks(s, c)
<1>1. PICK p, s, k : p = q \o (<<m>> \o r) /\ s = q \o r /\ k = Len(q) + 1 OBVIOUS
<1>2. /\ k \in 1 .. Len(p) /\ Len(p) = Len(s) + 1 /\ p[k] = m /\ k \in Nat \ {0} /\ Len(s) \in Nat
      /\ \A i \in 1 .. Len(s) : IF i < k THEN s[i] = p[i] ELSE s[i] = p[i + 1]
  BY <1>1, Places, LenProperties
<1>3. \A i \in 1 .. Len(s) : i \in 1 .. Len(p) /\ i + 1 \in 1 .. Len(p) BY <1>2
<1>4. Says(s, c) => Says(p, c) BY <1>2, <1>3 DEF Says
<1>5. Asks(s, c) => Asks(p, c) BY <1>2, <1>3 DEF Asks
<1>6. Quitting(s, c) => Quitting(p, c) BY <1>2, <1>3 DEF Quitting
<1>7. NoData(p, c) => NoData(s, c) BY <1>2, <1>3 DEF NoData
<1>8. ASSUME AskedFirst(p, c) PROVE AskedFirst(s, c)
  <2>1. SUFFICES ASSUME NEW i \in 1 .. Len(s), NEW j \in 1 .. Len(s), IsAsk(s[i], c), s[j].chan = c
                 PROVE  i <= j
    BY DEF AskedFirst
  <2>2. PICK a \in 1 .. Len(p) : s[i] = p[a] /\ a = IF i < k THEN i ELSE i + 1 BY <1>2, <1>3
  <2>3. PICK b \in 1 .. Len(p) : s[j] = p[b] /\ b = IF j < k THEN j ELSE j + 1 BY <1>2, <1>3
  <2>4. a <= b BY <1>8, <2>1, <2>2, <2>3 DEF AskedFirst
  <2> QED BY <1>2, <2>2, <2>3, <2>4
<1>9. ASSUME m.chan # c, Asks(p, c) PROVE Asks(s, c)
  <2>1. PICK i \in 1 .. Len(p) : IsAsk(p[i], c) BY <1>9 DEF Asks
  <2>2. i # k BY <1>2, <1>9, <2>1 DEF IsAsk
  <2>3. CASE i < k
    <3>1. i \in 1 .. Len(s) BY <1>2, <2>3
    <3> QED BY <1>2, <2>1, <2>3, <3>1 DEF Asks
  <2>4. CASE ~(i < k)
    <3>1. i - 1 \in 1 .. Len(s) /\ ~(i - 1 < k) /\ (i - 1) + 1 = i BY <1>2, <2>2, <2>4
    <3>2. s[i - 1] = p[i] BY <1>2, <3>1
    <3> QED BY <2>1, <3>1, <3>2 DEF Asks
  <2> QED BY <2>3, <2>4
<1> QED BY <1>1, <1>4, <1>5, <1>6, <1>7, <1>8, <1>9

LEMMA DropOrder ==
    ASSUME NEW q \in Seq(Real), NEW m \in Real, NEW r \in Seq(Real), NEW c, NEW from,
           NEW lo \in Nat, NEW hi \in Nat, ~IsData(m, c),
           InOrder(q \o (<<m>> \o r), c, from, lo, hi)
    PROVE  InOrder(q \o r, c, from, lo, hi)
<1>1. PICK p, s, k : p = q \o (<<m>> \o r) /\ s = q \o r /\ k = Len(q) + 1 OBVIOUS
<1>2. /\ k \in 1 .. Len(p) /\ Len(p) = Len(s) + 1 /\ p[k] = m /\ k \in Nat \ {0} /\ Len(s) \in Nat
      /\ \A i \in 1 .. Len(s) : IF i < k THEN s[i] = p[i] ELSE s[i] = p[i + 1]
  <2>1. Len(q) \in Nat BY LenProperties
  <2>2. /\ p \in Seq(Real) /\ s \in Seq(Real) /\ k \in 1 .. Len(p)
        /\ Len(p) \in Nat /\ Len(p) = Len(s) + 1 /\ p[k] = m
        /\ \A i \in 1 .. Len(s) : IF i < k THEN s[i] = p[i] ELSE s[i] = p[i + 1]
    BY <1>1, Places
  <2>3. Len(s) \in Nat BY <2>2, LenProperties
  <2> QED BY <1>1, <2>1, <2>2, <2>3
<1> DEFINE place(i) == IF i < k THEN i ELSE i + 1
<1>3. \A i \in 1 .. Len(s) : place(i) \in 1 .. Len(p) /\ s[i] = p[place(i)] BY <1>2
<1>4. \A i, j \in 1 .. Len(s) : i < j => place(i) < place(j) BY <1>2
<1>5. ASSUME NEW n \in lo + 1 .. hi
      PROVE  \E i \in 1 .. Len(s) : IsData(s[i], c) /\ s[i].chunk.n = n
  <2>1. PICK a \in 1 .. Len(p) : IsData(p[a], c) /\ p[a].chunk.n = n BY <1>1 DEF InOrder
  <2>2. a # k BY <1>2, <2>1
  <2>3. CASE a < k
    <3>1. a \in 1 .. Len(s) BY <1>2, <2>3
    <3> QED BY <1>2, <2>1, <2>3, <3>1
  <2>4. CASE ~(a < k)
    <3>1. a - 1 \in 1 .. Len(s) /\ ~(a - 1 < k) /\ (a - 1) + 1 = a BY <1>2, <2>2, <2>4
    <3>2. s[a - 1] = p[a] BY <1>2, <3>1
    <3> QED BY <2>1, <3>1, <3>2
  <2> QED BY <2>3, <2>4
<1> HIDE DEF place
<1>6. InOrder(p, c, from, lo, hi) BY <1>1
<1>7. \A i \in 1 .. Len(s) : IsData(s[i], c) =>
        s[i].chunk.from = from /\ s[i].chunk.n \in lo + 1 .. hi
  <2>1. ASSUME NEW i \in 1 .. Len(s), IsData(s[i], c)
        PROVE  s[i].chunk.from = from /\ s[i].chunk.n \in lo + 1 .. hi
    <3>1. PICK a \in 1 .. Len(p) : s[i] = p[a] BY <1>3
    <3> QED BY <1>6, <2>1, <3>1 DEF InOrder
  <2> QED BY <2>1
<1>8. \A i, j \in 1 .. Len(s) : i < j /\ IsData(s[j], c) =>
        /\ ~IsQuit(s[i], c)
        /\ IsData(s[i], c) => s[i].chunk.n < s[j].chunk.n
  <2>1. SUFFICES ASSUME NEW i \in 1 .. Len(s), NEW j \in 1 .. Len(s), i < j, IsData(s[j], c)
                 PROVE  /\ ~IsQuit(s[i], c)
                        /\ IsData(s[i], c) => s[i].chunk.n < s[j].chunk.n
    OBVIOUS
  <2>2. PICK a \in 1 .. Len(p), b \in 1 .. Len(p) : s[i] = p[a] /\ s[j] = p[b] /\ a < b
    BY <1>3, <1>4, <2>1
  <2> QED BY <1>6, <2>1, <2>2 DEF InOrder
<1>9. lo <= hi BY DEF InOrder
<1> QED BY <1>1, <1>5, <1>7, <1>8, <1>9 DEF InOrder

\* a message more
LEMMA AppendPlaces ==
    ASSUME NEW q \in Seq(Real), NEW m \in Real
    PROVE  LET p == Append(q, m) IN
           /\ p \in Seq(Real) /\ Len(q) \in Nat /\ Len(p) = Len(q) + 1 /\ p[Len(q) + 1] = m
           /\ \A i \in 1 .. Len(q) : p[i] = q[i]
BY AppendProperties, LenProperties

LEMMA AppendSays ==
    ASSUME NEW q \in Seq(Real), NEW m \in Real, NEW c
    PROVE  LET p == Append(q, m) IN
           /\ Says(p, c) <=> Says(q, c) \/ m.chan = c
           /\ Asks(p, c) <=> Asks(q, c) \/ IsAsk(m, c)
           /\ Quitting(p, c) <=> Quitting(q, c) \/ IsQuit(m, c)
           /\ NoData(p, c) <=> NoData(q, c) /\ ~IsData(m, c)
           /\ AskedFirst(q, c) /\ (IsAsk(m, c) => ~Says(q, c)) => AskedFirst(p, c)
<1>1. PICK p, n : p = Append(q, m) /\ n = Len(q) OBVIOUS
<1>2. /\ n \in Nat /\ Len(p) = n + 1 /\ p[n + 1] = m /\ \A i \in 1 .. n : p[i] = q[i]
  BY <1>1, AppendPlaces
<1>3. \A i \in 1 .. n + 1 : i = n + 1 \/ i \in 1 .. n BY <1>2
<1>4. n + 1 \in 1 .. n + 1 /\ \A i \in 1 .. n : i \in 1 .. n + 1 BY <1>2
<1>5. Says(p, c) <=> Says(q, c) \/ m.chan = c BY <1>1, <1>2, <1>3, <1>4 DEF Says
<1>6. Asks(p, c) <=> Asks(q, c) \/ IsAsk(m, c) BY <1>1, <1>2, <1>3, <1>4 DEF Asks
<1>7. Quitting(p, c) <=> Quitting(q, c) \/ IsQuit(m, c) BY <1>1, <1>2, <1>3, <1>4 DEF Quitting
<1>8. NoData(p, c) <=> NoData(q, c) /\ ~IsData(m, c) BY <1>1, <1>2, <1>3, <1>4 DEF NoData
<1>9. ASSUME AskedFirst(q, c), IsAsk(m, c) => ~Says(q, c) PROVE AskedFirst(p, c)
  <2>1. SUFFICES ASSUME NEW i \in 1 .. n + 1, NEW j \in 1 .. n + 1, IsAsk(p[i], c), p[j].chan = c
                 PROVE  i <= j
    BY <1>2 DEF AskedFirst
  <2>2. CASE j = n + 1 BY <1>2, <2>2
  <2>3. CASE j \in 1 .. n /\ i = n + 1
    <3>1. Says(q, c) BY <1>1, <1>2, <2>1, <2>3 DEF Says
    <3> QED BY <1>2, <1>9, <2>1, <2>3, <3>1
  <2>4. CASE j \in 1 .. n /\ i \in 1 .. n BY <1>1, <1>2, <1>9, <2>1, <2>4 DEF AskedFirst
  <2> QED BY <1>3, <2>2, <2>3, <2>4
<1> QED BY <1>1, <1>5, <1>6, <1>7, <1>8, <1>9

LEMMA AppendOrder ==
    ASSUME NEW q \in Seq(Real), NEW m \in Real, NEW c, NEW from,
           NEW lo \in Nat, NEW hi \in Nat, InOrder(q, c, from, lo, hi),
           NEW top, IF IsData(m, c) THEN /\ top = hi + 1 /\ ~Quitting(q, c)
                                         /\ m.chunk.from = from /\ m.chunk.n = hi + 1
                                    ELSE top = hi
    PROVE  InOrder(Append(q, m), c, from, lo, top)
<1>1. PICK p, n : p = Append(q, m) /\ n = Len(q) OBVIOUS
<1>2. /\ n \in Nat /\ Len(p) = n + 1 /\ p[n + 1] = m /\ \A i \in 1 .. n : p[i] = q[i]
  BY <1>1, AppendPlaces
<1>3. \A i \in 1 .. n + 1 : i = n + 1 \/ i \in 1 .. n BY <1>2
<1>4. n + 1 \in 1 .. n + 1 /\ \A i \in 1 .. n : i \in 1 .. n + 1 BY <1>2
<1>5. top \in Nat /\ hi <= top /\ lo <= top /\ lo <= hi BY DEF InOrder
<1>6. ASSUME NEW i \in 1 .. n + 1, IsData(p[i], c)
      PROVE  p[i].chunk.from = from /\ p[i].chunk.n \in lo + 1 .. top
  <2>1. CASE i = n + 1 BY <1>2, <1>5, <1>6, <2>1
  <2>2. CASE i \in 1 .. n
    <3>1. q[i].chunk.from = from /\ q[i].chunk.n \in lo + 1 .. hi
      BY <1>1, <1>2, <1>6, <2>2 DEF InOrder
    <3> QED BY <1>2, <1>5, <2>2, <3>1
  <2> QED BY <1>3, <2>1, <2>2
<1>7. ASSUME NEW i \in 1 .. n + 1, NEW j \in 1 .. n + 1, i < j, IsData(p[j], c)
      PROVE  /\ ~IsQuit(p[i], c)
             /\ IsData(p[i], c) => p[i].chunk.n < p[j].chunk.n
  <2>1. i \in 1 .. n BY <1>2, <1>7
  <2>2. CASE j = n + 1
    <3>1. IsData(m, c) /\ p[i] = q[i] BY <1>2, <1>7, <2>1, <2>2
    <3>2. ~IsQuit(p[i], c) BY <1>1, <2>1, <3>1 DEF Quitting
    <3>3. IsData(p[i], c) => p[i].chunk.n \in lo + 1 .. hi BY <1>1, <2>1, <3>1 DEF InOrder
    <3> QED BY <1>2, <2>2, <3>1, <3>2, <3>3
  <2>3. CASE j \in 1 .. n BY <1>1, <1>2, <1>7, <2>1, <2>3 DEF InOrder
  <2> QED BY <1>3, <2>2, <2>3
<1>8. ASSUME NEW k \in lo + 1 .. top
      PROVE  \E i \in 1 .. n + 1 : IsData(p[i], c) /\ p[i].chunk.n = k
  <2>1. CASE k \in lo + 1 .. hi
    <3>1. PICK i \in 1 .. n : IsData(q[i], c) /\ q[i].chunk.n = k BY <1>1, <2>1 DEF InOrder
    <3> QED BY <1>2, <1>4, <3>1
  <2>2. CASE k \notin lo + 1 .. hi
    <3>1. IsData(m, c) /\ k = hi + 1 BY <1>5, <2>2
    <3> QED BY <1>2, <1>4, <3>1
  <2> QED BY <2>1, <2>2
<1> QED BY <1>1, <1>2, <1>5, <1>6, <1>7, <1>8 DEF InOrder

\* the first message taken out
LEMMA TakeFirst ==
    ASSUME NEW q \in Seq(Real), NEW m \in Real, NEW c, NEW from,
           NEW lo \in Nat, NEW hi \in Nat, InOrder(<<m>> \o q, c, from, lo, hi)
    PROVE  /\ IsData(m, c) => /\ m.chunk.from = from /\ m.chunk.n = lo + 1 /\ lo + 1 <= hi
                              /\ InOrder(q, c, from, lo + 1, hi)
           /\ ~IsData(m, c) => InOrder(q, c, from, lo, hi)
           /\ IsQuit(m, c) => lo = hi /\ NoData(q, c)
<1>1. PICK p, n : p = <<m>> \o q /\ n = Len(q) OBVIOUS
<1>2. n \in Nat /\ Len(p) = n + 1 /\ p[1] = m /\ \A i \in 1 .. n : p[i + 1] = q[i]
  <2>1. <<>> \in Seq(Real) /\ Len(<<>>) = 0 BY EmptySeq
  <2>2. <<m>> \in Seq(Real) OBVIOUS
  <2>3. <<m>> \o q \in Seq(Real) BY <2>2, ConcatProperties
  <2>4. <<>> \o p = p /\ <<>> \o q = q BY <1>1, <2>3, ConcatEmptySeq
  <2>5. /\ 1 \in 1 .. Len(p) /\ Len(p) = Len(q) + 1 /\ p[1] = m
        /\ \A i \in 1 .. Len(q) : IF i < 1 THEN q[i] = p[i] ELSE q[i] = p[i + 1]
    BY <1>1, <2>1, <2>4, Places
  <2> QED BY <1>1, <2>5, LenProperties
<1>3. \A i \in 1 .. n : i + 1 \in 1 .. n + 1 /\ 1 < i + 1 BY <1>2
<1>4. 1 \in 1 .. n + 1 /\ \A i \in 1 .. n + 1 : i = 1 \/ (i - 1 \in 1 .. n /\ (i - 1) + 1 = i)
  BY <1>2
<1>5. InOrder(p, c, from, lo, hi) /\ lo <= hi BY <1>1 DEF InOrder
<1>6. ASSUME IsData(m, c)
      PROVE  m.chunk.from = from /\ m.chunk.n = lo + 1 /\ lo + 1 <= hi
  <2>1. m.chunk.from = from /\ m.chunk.n \in lo + 1 .. hi
    BY <1>2, <1>4, <1>5, <1>6 DEF InOrder
  <2>2. lo + 1 \in lo + 1 .. hi BY <2>1
  <2>3. PICK i \in 1 .. n + 1 : IsData(p[i], c) /\ p[i].chunk.n = lo + 1
    BY <1>2, <1>5, <2>2 DEF InOrder
  <2>4. CASE i = 1 BY <1>2, <2>1, <2>2, <2>3, <2>4
  <2>5. CASE i # 1
    <3>1. 1 < i BY <2>5
    <3>2. p[1].chunk.n < p[i].chunk.n BY <1>2, <1>4, <1>5, <1>6, <2>3, <3>1 DEF InOrder
    <3> QED BY <1>2, <2>1, <2>3, <3>2
  <2> QED BY <2>4, <2>5
<1>7. ASSUME NEW i \in 1 .. n, NEW j \in 1 .. n, i < j, IsData(q[j], c)
      PROVE  /\ ~IsQuit(q[i], c)
             /\ IsData(q[i], c) => q[i].chunk.n < q[j].chunk.n
  <2>1. i + 1 \in 1 .. n + 1 /\ j + 1 \in 1 .. n + 1 /\ i + 1 < j + 1 BY <1>3, <1>7
  <2>2. PICK a \in 1 .. n + 1, b \in 1 .. n + 1 : a < b /\ p[a] = q[i] /\ p[b] = q[j]
    <3>1. p[i + 1] = q[i] /\ p[j + 1] = q[j] BY <1>2
    <3> QED BY <2>1, <3>1
  <2>3. IsData(p[b], c) BY <1>7, <2>2
  <2>4. ~IsQuit(p[a], c) /\ (IsData(p[a], c) => p[a].chunk.n < p[b].chunk.n)
    BY <1>2, <1>5, <2>2, <2>3 DEF InOrder
  <2> QED BY <2>2, <2>4
<1>8. ASSUME NEW i \in 1 .. n, IsData(q[i], c)
      PROVE  /\ q[i].chunk.from = from /\ q[i].chunk.n \in lo + 1 .. hi
             /\ ~IsQuit(m, c)
             /\ IsData(m, c) => m.chunk.n < q[i].chunk.n
  <2> DEFINE j == i + 1
  <2>1. p[j] = q[i] /\ j \in 1 .. n + 1 /\ 1 < j BY <1>2, <1>3
  <2> HIDE DEF j
  <2>2. IsData(p[j], c) /\ 1 \in 1 .. n + 1 BY <1>4, <1>8, <2>1
  <2>3. p[j].chunk.from = from /\ p[j].chunk.n \in lo + 1 .. hi
    BY <1>2, <1>5, <2>1, <2>2 DEF InOrder
  <2>4. ~IsQuit(p[1], c) /\ (IsData(p[1], c) => p[1].chunk.n < p[j].chunk.n)
    BY <1>2, <1>5, <2>1, <2>2 DEF InOrder
  <2> QED BY <1>2, <2>1, <2>3, <2>4
<1>9. ASSUME NEW k \in lo + 1 .. hi, ~(IsData(m, c) /\ m.chunk.n = k)
      PROVE  \E i \in 1 .. n : IsData(q[i], c) /\ q[i].chunk.n = k
  <2>1. PICK i \in 1 .. n + 1 : IsData(p[i], c) /\ p[i].chunk.n = k
    BY <1>2, <1>5 DEF InOrder
  <2>2. i # 1 BY <1>2, <1>9, <2>1
  <2>3. i - 1 \in 1 .. n /\ (i - 1) + 1 = i BY <1>4, <2>2
  <2>4. q[i - 1] = p[i] BY <1>2, <2>3
  <2> QED BY <2>1, <2>3, <2>4
<1>10. ASSUME IsData(m, c) PROVE InOrder(q, c, from, lo + 1, hi)
  <2>1. m.chunk.n = lo + 1 /\ lo + 1 <= hi BY <1>6, <1>10
  <2>2. \A i \in 1 .. n : IsData(q[i], c) => q[i].chunk.from = from /\ q[i].chunk.n \in (lo + 1) + 1 .. hi
    BY <1>8, <1>10, <2>1
  <2>3. \A k \in (lo + 1) + 1 .. hi : \E i \in 1 .. n : IsData(q[i], c) /\ q[i].chunk.n = k
    <3>1. \A k \in (lo + 1) + 1 .. hi : k \in lo + 1 .. hi /\ k # lo + 1 OBVIOUS
    <3> QED BY <1>9, <2>1, <3>1
  <2> QED BY <1>1, <1>7, <2>1, <2>2, <2>3 DEF InOrder
<1>11. ASSUME ~IsData(m, c) PROVE InOrder(q, c, from, lo, hi)
  BY <1>1, <1>5, <1>7, <1>8, <1>9, <1>11 DEF InOrder
<1>12. ASSUME IsQuit(m, c) PROVE lo = hi /\ NoData(q, c)
  <2>1. NoData(q, c) BY <1>1, <1>8, <1>12 DEF NoData
  <2>2. ~IsData(m, c) BY <1>12 DEF IsData, IsQuit
  <2>3. ASSUME lo # hi PROVE FALSE
    <3>1. lo + 1 \in lo + 1 .. hi BY <1>5, <2>3
    <3> QED BY <1>1, <1>9, <2>1, <2>2, <3>1 DEF NoData
  <2> QED BY <2>1, <2>3
<1> QED BY <1>6, <1>10, <1>11, <1>12

LEMMA NothingLeft ==
    ASSUME NEW q, NEW c, NEW from, NEW lo \in Nat, NEW hi \in Nat,
           InOrder(q, c, from, lo, hi), NoData(q, c)
    PROVE  lo = hi
<1>1. lo <= hi /\ ~(lo + 1 \in lo + 1 .. hi) BY DEF InOrder, NoData
<1> QED BY <1>1

LEMMA NothingSent ==
    ASSUME NEW q, NEW c, NEW from, NEW lo \in Nat, NoData(q, c)
    PROVE  InOrder(q, c, from, lo, lo)
<1>1. \A n \in lo + 1 .. lo : FALSE OBVIOUS
<1> QED BY <1>1 DEF InOrder, NoData

-----------------------------------------------------------------------------
\* The inductive invariant

\* the connections
Connections == [role : {"none", "forward", "target"},
                at : Pumping \cup Closed \cup {"none", "connect", "connecting"},
                m_MessageQueue : Seq(Real), ToDirect : Chunk \cup {None},
                bDisconnect : BOOLEAN, m_bRXPaused : BOOLEAN,
                m_bPaused : BOOLEAN, m_Wakeup : BOOLEAN]

\* where a Run() is
Stations == {"round", "reading", "writing", "sleep", "full", "home"}

\* what SendData is called with for an end
Held(e) == {m \in Real : m.chan = e[2] /\ m.type \in {"Data", "Disconnect"}}

Typed == /\ m_OutQueue \in [Side -> Seq(Real)] /\ wire \in [Side -> Seq(Real)]
         /\ m_Wakeup \subseteq Side /\ stream \subseteq Side /\ m_Connections \subseteq End
         /\ partial \subseteq Side /\ stop \subseteq Side
         /\ run \in [Side -> Stations]
         /\ m_iConnection \in [Side -> 0 .. MaxChannel]
         /\ conn \in [End -> Connections]
         /\ \A e \in End : conn[e].m_MessageQueue \in Seq(Held(e))
         /\ outside \in [End -> [input : Nat, full : BOOLEAN, closed : BOOLEAN]]
         /\ taken \in [End -> Nat] /\ delivered \in [End -> Seq(Chunk)]
         /\ why \in [End -> {"none", "outside", "timeout", "unreachable", "peer"}]

IsOpen(e) == conn[e].at \notin {"none", "ended", "done"}

\* what a side has sent, and what an end has still to handle
Way(s)      == wire[s] \o m_OutQueue[s]
Incoming(e) == conn[e].m_MessageQueue \o Way(Other(e[1]))

\* An end that was never used is as Init left it, one that is used has the role of its
\* side, and the table lists those that are in use.
Roles == \A e \in End :
    /\ conn[e].at = "none" => /\ conn[e] = Connection("none", "none") /\ why[e] = "none"
                              /\ taken[e] = 0 /\ delivered[e] = <<>>
    /\ conn[e].at # "none" => conn[e].role = IF e[1] = Client THEN "forward" ELSE "target"
    /\ conn[e].at = "connecting" => e[1] = Server
    /\ conn[e].at = "connect" => /\ e[1] = Client /\ conn[e].m_MessageQueue = <<>>
                                 /\ ~conn[e].bDisconnect /\ taken[e] = 0
    /\ e \in m_Connections <=> conn[e].at \notin {"none", "done"}
    /\ e[1] = Client /\ conn[e].at # "none" => e[2] <= m_iConnection[Client]

\* A channel is talked about once its client has asked for it, by the server once it has
\* heard that; it is asked for once.
Talk == \A c \in Channel :
    /\ Says(Way(Client), c) \/ Says(Way(Server), c) \/ conn[<<Server, c>>].at # "none" =>
         conn[<<Client, c>>].at \notin {"none", "connect"}
    /\ Says(Way(Server), c) \/ conn[<<Server, c>>].at # "none" => ~Asks(Way(Client), c)
    /\ ~Asks(Way(Server), c) /\ AskedFirst(Way(Client), c)

\* A disconnect comes from an end that is not open and will not be.
Gone == \A e \in End : Quitting(Incoming(e), e[2]) \/ conn[e].bDisconnect =>
    ~IsOpen(Peer(e)) /\ ~Asks(Way(e[1]), e[2])

\* Between what an end has put out and what its peer has taken in nothing is missing,
\* from the moment the connection is asked for.
From(e)    == IF e[1] = Client THEN "target" ELSE "forward"
Reached(e) == Len(delivered[e]) + IF conn[e].ToDirect = None THEN 0 ELSE 1

Flowing(e) ==
    /\ conn[e].ToDirect # None =>
         conn[e].ToDirect.from = From(e) /\ conn[e].ToDirect.n = Reached(e)
    /\ InOrder(Incoming(e), e[2], From(e), Reached(e), taken[Peer(e)])
    /\ conn[e].bDisconnect => conn[e].ToDirect = None /\ NoData(Incoming(e), e[2])

Flow == \A e \in End : IsOpen(e) \/ Asks(Way(Other(e[1])), e[2]) => Flowing(e)

\* What an end has put out are the first chunks its peer has taken in, in their order.
Pipes == \A e \in End : \A i \in 1 .. Len(delivered[e]) :
    delivered[e][i] = [from |-> From(e), n |-> i]

IInv == Typed /\ Roles /\ Talk /\ Gone /\ Flow /\ Pipes

-----------------------------------------------------------------------------
\* A step of an end's thread: e has k now, and has said m, or nothing (None).

Works(e, k, m) ==
    /\ conn' = [conn EXCEPT ![e] = k]
    /\ wire' = wire
    /\ m_OutQueue' = IF m = None THEN m_OutQueue
                                 ELSE [m_OutQueue EXCEPT ![e[1]] = Append(@, m)]

LEMMA Ways ==
    ASSUME OneClient, Typed, NEW s \in Side
    PROVE  /\ wire[s] \in Seq(Real) /\ m_OutQueue[s] \in Seq(Real) /\ Way(s) \in Seq(Real)
           /\ Other(s) \in Side
<1>1. wire[s] \in Seq(Real) /\ m_OutQueue[s] \in Seq(Real) BY DEF Typed
<1>2. Way(s) \in Seq(Real) BY <1>1, ConcatProperties DEF Way
<1> QED BY <1>1, <1>2, Others

LEMMA EndTypes ==
    ASSUME OneClient, Typed, NEW e \in End
    PROVE  /\ conn[e].m_MessageQueue \in Seq(Real) /\ conn[e].m_MessageQueue \in Seq(Held(e))
           /\ Incoming(e) \in Seq(Real) /\ conn[e] \in Connections
           /\ taken[e] \in Nat /\ delivered[e] \in Seq(Chunk) /\ Len(delivered[e]) \in Nat
           /\ Reached(e) \in Nat
<1>1. conn[e] \in Connections /\ conn[e].m_MessageQueue \in Seq(Held(e)) BY DEF Typed
<1>2. conn[e].m_MessageQueue \in Seq(Real) BY <1>1 DEF Connections
<1>3. Way(Other(e[1])) \in Seq(Real) BY Ends, Others, Ways
<1>4. Incoming(e) \in Seq(Real) BY <1>2, <1>3, ConcatProperties DEF Incoming
<1>5. taken[e] \in Nat /\ delivered[e] \in Seq(Chunk) BY DEF Typed
<1>6. Len(delivered[e]) \in Nat BY <1>5, LenProperties
<1>7. Reached(e) \in Nat
  <2>1. PICK n \in Nat : n = Len(delivered[e]) BY <1>6
  <2>2. PICK b \in {0, 1} : b = IF conn[e].ToDirect = None THEN 0 ELSE 1 OBVIOUS
  <2>3. Reached(e) = n + b BY <2>1, <2>2 DEF Reached
  <2>4. n + b \in Nat OBVIOUS
  <2> QED BY <2>3, <2>4
<1> QED BY <1>1, <1>2, <1>4, <1>5, <1>6, <1>7

LEMMA ConcatAppend ==
    ASSUME NEW p \in Seq(Real), NEW q \in Seq(Real), NEW m \in Real
    PROVE  p \o Append(q, m) = Append(p \o q, m)
<1>1. PICK a \in Nat, b \in Nat : a = Len(p) /\ b = Len(q) BY LenProperties
<1>2. PICK t, u, r : t = Append(q, m) /\ u = p \o q /\ r = p \o t OBVIOUS
<1>3. t \in Seq(Real) /\ Len(t) = b + 1 /\ t[b + 1] = m /\ \A i \in 1 .. b : t[i] = q[i]
  BY <1>1, <1>2, AppendPlaces
<1>4. u \in Seq(Real) /\ Len(u) = a + b /\ \A i \in 1 .. a + b : u[i] = IF i <= a THEN p[i] ELSE q[i - a]
  BY <1>1, <1>2, ConcatProperties
<1>5. PICK v : v = Append(u, m) OBVIOUS
<1>6. v \in Seq(Real) /\ Len(v) = a + b + 1 /\ v[a + b + 1] = m /\ \A i \in 1 .. a + b : v[i] = u[i]
  <2>1. u \in Seq(Real) /\ Len(u) = a + b BY <1>4
  <2>2. /\ v \in Seq(Real) /\ Len(v) = Len(u) + 1 /\ v[Len(u) + 1] = m
        /\ \A i \in 1 .. Len(u) : v[i] = u[i]
    BY <1>5, <2>1, AppendPlaces
  <2> QED BY <2>1, <2>2
<1>7. /\ r \in Seq(Real) /\ Len(r) = a + (b + 1)
      /\ \A i \in 1 .. a + (b + 1) : r[i] = IF i <= a THEN p[i] ELSE t[i - a]
  <2>1. t \in Seq(Real) /\ Len(t) = b + 1 BY <1>3
  <2>2. /\ p \o t \in Seq(Real) /\ Len(p \o t) = Len(p) + Len(t)
        /\ \A i \in 1 .. Len(p) + Len(t) :
             (p \o t)[i] = IF i <= Len(p) THEN p[i] ELSE t[i - Len(p)]
    BY <2>1, ConcatProperties
  <2> QED BY <1>1, <1>2, <2>1, <2>2
<1>8. ASSUME NEW i \in 1 .. a + b + 1 PROVE r[i] = v[i]
  <2>1. CASE i <= a
    <3>1. i \in 1 .. a + b /\ i \in 1 .. a + (b + 1) BY <2>1
    <3> QED BY <1>4, <1>6, <1>7, <2>1, <3>1
  <2>2. CASE ~(i <= a) /\ i # a + b + 1
    <3>1. i \in 1 .. a + b /\ i \in 1 .. a + (b + 1) /\ i - a \in 1 .. b BY <2>2
    <3>2. r[i] = t[i - a] BY <1>7, <2>2, <3>1
    <3>3. v[i] = q[i - a] BY <1>4, <1>6, <2>2, <3>1
    <3>4. t[i - a] = q[i - a] BY <1>3, <3>1
    <3> QED BY <3>2, <3>3, <3>4
  <2>3. CASE i = a + b + 1
    <3>1. i \in 1 .. a + (b + 1) /\ ~(i <= a) /\ i - a = b + 1 BY <2>3
    <3> QED BY <1>3, <1>6, <1>7, <2>3, <3>1
  <2> QED BY <2>1, <2>2, <2>3
<1>9. Len(r) = Len(v) /\ \A i \in 1 .. Len(r) : r[i] = v[i] BY <1>6, <1>7, <1>8
<1>10. r = v BY <1>6, <1>7, <1>9, SeqEqual
<1> QED BY <1>2, <1>5, <1>10

\* Only what its own side says to its peer is more than before.
LEMMA MoreWays ==
    ASSUME OneClient, Typed, NEW e \in End, NEW k, NEW m \in Real \cup {None},
           Works(e, k, m), NEW s \in Side
    PROVE  Way(s)' = IF s = e[1] /\ m # None THEN Append(Way(s), m) ELSE Way(s)
<1>1. wire[s] \in Seq(Real) /\ m_OutQueue[s] \in Seq(Real) BY Ways
<1>2. Way(s)' = wire[s] \o m_OutQueue'[s] BY DEF Works, Way
<1>3. CASE s = e[1] /\ m # None
  <2>1. m_OutQueue'[s] = Append(m_OutQueue[s], m)
    <3>1. m_OutQueue' = [m_OutQueue EXCEPT ![s] = Append(@, m)] BY <1>3 DEF Works
    <3>2. m_OutQueue \in [Side -> Seq(Real)] BY DEF Typed
    <3> QED BY <3>1, <3>2
  <2>2. m \in Real BY <1>3
  <2>3. wire[s] \o Append(m_OutQueue[s], m) = Append(wire[s] \o m_OutQueue[s], m)
    BY <1>1, <2>2, ConcatAppend
  <2> QED BY <1>2, <1>3, <2>1, <2>3 DEF Way
<1>4. CASE ~(s = e[1] /\ m # None)
  <2>1. m_OutQueue'[s] = m_OutQueue[s] BY <1>4 DEF Works, Typed
  <2> QED BY <1>2, <1>4, <2>1 DEF Way
<1> QED BY <1>3, <1>4

LEMMA MoreIncoming ==
    ASSUME OneClient, Typed, NEW e \in End, NEW k, NEW m \in Real \cup {None},
           Works(e, k, m), NEW d \in End
    PROVE  Incoming(d)' =
             IF d = e THEN k.m_MessageQueue \o Way(Other(e[1]))
             ELSE IF d[1] # e[1] /\ m # None THEN Append(Incoming(d), m)
             ELSE Incoming(d)
<1>1. d[1] \in Side /\ e[1] \in Side /\ Other(d[1]) \in Side /\ Other(d[1]) # d[1]
  BY Ends, Others
<1>2. Incoming(d)' = conn'[d].m_MessageQueue \o Way(Other(d[1]))'
  BY DEF Incoming
<1>3. CASE d = e
  <2>1. conn'[d] = k BY <1>3 DEF Works, Typed
  <2>2. \A s \in Side : s # e[1] => Way(s)' = Way(s) BY MoreWays
  <2>3. Way(Other(d[1]))' = Way(Other(d[1])) BY <1>1, <1>3, <2>2
  <2> QED BY <1>2, <1>3, <2>1, <2>3
<1>4. CASE d # e
  <2>1. conn'[d] = conn[d] BY <1>4 DEF Works, Typed
  <2>2. Other(d[1]) = e[1] <=> d[1] # e[1] BY <1>1, Sides
  <2>3. CASE d[1] # e[1] /\ m # None
    <3>1. Way(Other(d[1]))' = Append(Way(Other(d[1])), m) BY <1>1, <2>2, <2>3, MoreWays
    <3>2. conn[d].m_MessageQueue \in Seq(Real) /\ Way(Other(d[1])) \in Seq(Real)
      BY <1>1, Ways, EndTypes
    <3>3. m \in Real BY <2>3
    <3>4. conn[d].m_MessageQueue \o Append(Way(Other(d[1])), m) = Append(Incoming(d), m)
      BY <3>2, <3>3, ConcatAppend DEF Incoming
    <3> QED BY <1>2, <1>4, <2>1, <2>3, <3>1, <3>4
  <2>4. CASE ~(d[1] # e[1] /\ m # None)
    <3>1. Way(Other(d[1]))' = Way(Other(d[1])) BY <1>1, <2>2, <2>4, MoreWays
    <3> QED BY <1>2, <1>4, <2>1, <2>4, <3>1 DEF Incoming
  <2> QED BY <2>3, <2>4
<1> QED BY <1>3, <1>4

LEMMA OwnIncoming ==
    ASSUME OneClient, Typed, NEW e \in End, NEW k, NEW m \in Real \cup {None}, Works(e, k, m)
    PROVE  Incoming(e)' = k.m_MessageQueue \o Way(Other(e[1]))
<1>1. ASSUME NEW d \in End, d = e
      PROVE  Incoming(d)' = k.m_MessageQueue \o Way(Other(e[1]))
  <2>1. Incoming(d)' =
             IF d = e THEN k.m_MessageQueue \o Way(Other(e[1]))
             ELSE IF d[1] # e[1] /\ m # None THEN Append(Incoming(d), m)
             ELSE Incoming(d)
    BY MoreIncoming
  <2> QED BY <1>1, <2>1
<1> QED BY <1>1

-----------------------------------------------------------------------------
\* What all steps of an end's thread have in common.

Turn(e, k, m) ==
    /\ Works(e, k, m)
    /\ m_iConnection' = m_iConnection
    /\ m_Connections' = IF k.at = "done" THEN m_Connections \ {e} ELSE m_Connections
    /\ conn[e].at \notin {"none", "done"}
    /\ k.at \in Pumping \cup Closed /\ k.role = conn[e].role
    /\ k.at \in Pumping => IsOpen(e)
    /\ m # None => /\ m \in Real /\ m.chan = e[2]
                   /\ \/ m.type = "Connect" /\ conn[e].at = "connect"
                      \/ m.type = "Disconnect" /\ k.at = "ended"
                      \/ m.type = "Data" /\ k.at \in Pumping /\ m.chunk.from = conn[e].role
                                         /\ m.chunk.n = taken[e] + 1
                      \/ m.type = "Resume"
    /\ conn[e].at = "connect" => m # None /\ m.type = "Connect"
    /\ taken' = IF m # None /\ m.type = "Data" THEN [taken EXCEPT ![e] = @ + 1] ELSE taken
    /\ k.bDisconnect => conn[e].bDisconnect \/ Quitting(Incoming(e), e[2])
    /\ Quitting(Incoming(e)', e[2]) => Quitting(Incoming(e), e[2])
    /\ \A d \in End \ {e} : delivered'[d] = delivered[d] /\ why'[d] = why[d]

LEMMA Channels ==
    ASSUME OneClient, NEW c \in Channel
    PROVE  /\ <<Client, c>> \in End /\ <<Server, c>> \in End /\ <<Client, c>> # <<Server, c>>
           /\ Peer(<<Client, c>>) = <<Server, c>> /\ Peer(<<Server, c>>) = <<Client, c>>
BY Sides DEF End, Peer

LEMMA EitherEnd ==
    ASSUME OneClient, NEW e \in End
    PROVE  \/ /\ e[1] = Client /\ e = <<Client, e[2]>> /\ Other(e[1]) = Server
              /\ Peer(e) = <<Server, e[2]>> /\ Peer(e)[1] = Server /\ Other(Peer(e)[1]) = Client
           \/ /\ e[1] = Server /\ e = <<Server, e[2]>> /\ Other(e[1]) = Client
              /\ Peer(e) = <<Client, e[2]>> /\ Peer(e)[1] = Client /\ Other(Peer(e)[1]) = Server
BY Sides, Ends DEF Peer

LEMMA TurnRoles ==
    ASSUME OneClient, Typed, Roles, NEW e \in End, NEW k, NEW m \in Real \cup {None}, Turn(e, k, m)
    PROVE  Roles'
<1>1. conn'[e] = k /\ \A d \in End \ {e} : conn'[d] = conn[d] BY DEF Turn, Works, Typed
<1>2. \A d \in End \ {e} : taken'[d] = taken[d] /\ delivered'[d] = delivered[d] /\ why'[d] = why[d]
  BY DEF Turn, Typed
<1>3. k.at \notin {"none", "connect", "connecting"} BY DEF Turn, Pumping, Closed
<1>4. e \in m_Connections /\ (e \in m_Connections' <=> k.at # "done") BY DEF Roles, Turn
<1>5. \A d \in End \ {e} : d \in m_Connections' <=> d \in m_Connections BY DEF Turn
<1>6. SUFFICES ASSUME NEW d \in End
      PROVE /\ conn'[d].at = "none" => /\ conn'[d] = Connection("none", "none") /\ why'[d] = "none"
                              /\ taken'[d] = 0 /\ delivered'[d] = <<>>
            /\ conn'[d].at # "none" => conn'[d].role = IF d[1] = Client THEN "forward" ELSE "target"
            /\ conn'[d].at = "connecting" => d[1] = Server
            /\ conn'[d].at = "connect" => /\ d[1] = Client /\ conn'[d].m_MessageQueue = <<>>
                                 /\ ~conn'[d].bDisconnect /\ taken'[d] = 0
            /\ d \in m_Connections' <=> conn'[d].at \notin {"none", "done"}
            /\ d[1] = Client /\ conn'[d].at # "none" => d[2] <= m_iConnection'[Client]
  BY DEF Roles, Connection
<1>7. CASE d = e BY <1>1, <1>3, <1>4, <1>7 DEF Turn, Roles
<1>8. CASE d # e BY <1>1, <1>2, <1>5, <1>8 DEF Turn, Roles
<1> QED BY <1>7, <1>8

\* What is said about other channels stays as it is.
LEMMA TurnSays ==
    ASSUME OneClient, Typed, NEW e \in End, NEW k, NEW m \in Real \cup {None}, Turn(e, k, m),
           NEW s \in Side, NEW c \in Channel
    PROVE  /\ Says(Way(s)', c) <=> Says(Way(s), c) \/ (s = e[1] /\ m # None /\ c = e[2])
           /\ Asks(Way(s)', c) <=> Asks(Way(s), c)
                                   \/ (s = e[1] /\ m # None /\ c = e[2] /\ m.type = "Connect")
           /\ AskedFirst(Way(s), c)
              /\ (s = e[1] /\ m # None /\ c = e[2] /\ m.type = "Connect" => ~Says(Way(s), c))
                => AskedFirst(Way(s)', c)
<1>1. Way(s) \in Seq(Real) BY Ways
<1>2. Way(s)' = IF s = e[1] /\ m # None THEN Append(Way(s), m) ELSE Way(s)
  BY MoreWays DEF Turn
<1>3. CASE s = e[1] /\ m # None
  <2>1. m \in Real /\ m.chan = e[2] BY <1>3 DEF Turn
  <2>2. Way(s)' = Append(Way(s), m) BY <1>2, <1>3
  <2> QED BY <1>1, <1>3, <2>1, <2>2, AppendSays DEF IsAsk
<1>4. CASE ~(s = e[1] /\ m # None)
  <2>1. Way(s)' = Way(s) BY <1>2, <1>4
  <2> QED BY <1>4, <2>1
<1> QED BY <1>3, <1>4

LEMMA TurnTalk ==
    ASSUME OneClient, Typed, Roles, Talk, NEW e \in End, NEW k, NEW m \in Real \cup {None},
           Turn(e, k, m)
    PROVE  Talk'
<1>1. conn'[e] = k /\ \A d \in End \ {e} : conn'[d] = conn[d] BY DEF Turn, Works, Typed
<1>2. k.at \notin {"none", "connect", "connecting"} BY DEF Turn, Pumping, Closed
<1>3. SUFFICES ASSUME NEW c \in Channel
      PROVE
        /\ Says(Way(Client)', c) \/ Says(Way(Server)', c) \/ conn'[<<Server, c>>].at # "none" =>
             conn'[<<Client, c>>].at \notin {"none", "connect"}
        /\ Says(Way(Server)', c) \/ conn'[<<Server, c>>].at # "none" => ~Asks(Way(Client)', c)
        /\ ~Asks(Way(Server)', c) /\ AskedFirst(Way(Client)', c)
  BY DEF Talk
<1>4. /\ Says(Way(Client), c) \/ Says(Way(Server), c) \/ conn[<<Server, c>>].at # "none" =>
           conn[<<Client, c>>].at \notin {"none", "connect"}
      /\ Says(Way(Server), c) \/ conn[<<Server, c>>].at # "none" => ~Asks(Way(Client), c)
      /\ ~Asks(Way(Server), c) /\ AskedFirst(Way(Client), c)
  BY DEF Talk
<1>5. <<Client, c>> \in End /\ <<Server, c>> \in End BY Channels
<1>6. Client \in Side /\ Server \in Side /\ Client # Server BY Sides
<1>7. CASE e[2] # c
  <2>1. e # <<Client, c>> /\ e # <<Server, c>> BY <1>7
  <2>2. conn'[<<Client, c>>] = conn[<<Client, c>>] /\ conn'[<<Server, c>>] = conn[<<Server, c>>]
    BY <1>1, <1>5, <2>1
  <2> QED BY <1>4, <1>6, <1>7, <2>2, TurnSays
<1>8. CASE e = <<Client, c>>
  <2>1. e[1] = Client /\ e[2] = c BY <1>8
  <2>2. conn'[<<Client, c>>].at \notin {"none", "connect"} BY <1>1, <1>2, <1>8
  <2>3. conn'[<<Server, c>>] = conn[<<Server, c>>] BY <1>1, <1>5, <1>6, <1>8
  <2>4. m # None /\ m.type = "Connect" => conn[<<Client, c>>].at = "connect" BY <1>8 DEF Turn
  <2> QED BY <1>4, <1>6, <2>1, <2>2, <2>3, <2>4, TurnSays
<1>9. CASE e = <<Server, c>>
  <2>1. e[1] = Server /\ e[2] = c BY <1>9
  <2>2. conn'[<<Client, c>>] = conn[<<Client, c>>] BY <1>1, <1>5, <1>6, <1>9
  <2>3. conn[<<Server, c>>].at # "none" BY <1>9 DEF Turn
  <2>4. ~(m # None /\ m.type = "Connect") BY <1>6, <2>1 DEF Turn, Roles
  <2> QED BY <1>4, <1>6, <2>1, <2>2, <2>3, <2>4, TurnSays
<1> QED BY <1>7, <1>8, <1>9, EitherEnd

LEMMA TurnIncoming ==
    ASSUME OneClient, Typed, NEW e \in End, NEW k, NEW m \in Real \cup {None}, Turn(e, k, m),
           NEW d \in End, d # e
    PROVE  /\ conn'[d] = conn[d]
           /\ \/ Incoming(d)' = Incoming(d)
              \/ /\ m # None /\ m \in Real /\ m.chan = e[2]
                 /\ Incoming(d)' = Append(Incoming(d), m)
           /\ d[1] # e[1] => Incoming(d)' = IF m # None THEN Append(Incoming(d), m) ELSE Incoming(d)
           /\ IsOpen(d)' <=> IsOpen(d)
<1>1. conn'[d] = conn[d] BY DEF Turn, Works, Typed
<1>2. Incoming(d)' = IF d[1] # e[1] /\ m # None THEN Append(Incoming(d), m) ELSE Incoming(d)
  BY MoreIncoming DEF Turn
<1>3. m # None => m \in Real /\ m.chan = e[2] BY DEF Turn
<1> QED BY <1>1, <1>2, <1>3 DEF IsOpen

LEMMA TurnGone ==
    ASSUME OneClient, Typed, Roles, Talk, Gone,
           NEW e \in End, NEW k, NEW m \in Real \cup {None}, Turn(e, k, m)
    PROVE  Gone'
<1>1. conn'[e] = k BY DEF Turn, Works, Typed
<1>2. SUFFICES ASSUME NEW d \in End, Quitting(Incoming(d)', d[2]) \/ conn'[d].bDisconnect
               PROVE  ~IsOpen(Peer(d))' /\ ~Asks(Way(d[1])', d[2])
  BY DEF Gone
<1>3. /\ d[1] \in Side /\ d[2] \in Channel /\ Peer(d) \in End /\ Peer(Peer(d)) = d /\ Peer(d) # d
      /\ e[1] \in Side /\ e[2] \in Channel /\ Peer(d)[1] = Other(d[1]) /\ Peer(d)[2] = d[2]
  BY Ends
<1>4. Quitting(Incoming(d), d[2]) \/ conn[d].bDisconnect =>
        ~IsOpen(Peer(d)) /\ ~Asks(Way(d[1]), d[2])
  BY DEF Gone
<1>5. CASE d = e
  <2>1. Quitting(Incoming(e), e[2]) \/ conn[e].bDisconnect BY <1>1, <1>2, <1>5 DEF Turn
  <2>2. ~IsOpen(Peer(e)) /\ ~Asks(Way(e[1]), e[2]) BY <1>4, <1>5, <2>1
  <2>3. ~IsOpen(Peer(e))' BY <1>3, <1>5, <2>2, TurnIncoming
  <2>4. ~(m # None /\ m.type = "Connect")
    <3>1. SUFFICES ASSUME m # None, m.type = "Connect" PROVE FALSE OBVIOUS
    <3>2. conn[e].at = "connect" BY <3>1 DEF Turn
    <3>3. e[1] = Client /\ conn[e].m_MessageQueue = <<>> /\ ~conn[e].bDisconnect
      BY <3>2 DEF Roles
    <3>4. e = <<Client, e[2]>> /\ Other(e[1]) = Server BY <3>3, EitherEnd, Sides
    <3>5. ~Says(Way(Server), e[2]) BY <1>3, <3>2, <3>4 DEF Talk
    <3>6. Way(Server) \in Seq(Real) BY Sides, Ways
    <3>7. Incoming(e) = Way(Server) BY <3>3, <3>4, <3>6, ConcatEmptySeq DEF Incoming
    <3>8. ~Quitting(Incoming(e), e[2]) BY <3>5, <3>7 DEF Says, Quitting, IsQuit
    <3> QED BY <2>1, <3>3, <3>8
  <2>5. ~Asks(Way(e[1])', e[2]) BY <1>3, <2>2, <2>4, TurnSays
  <2> QED BY <1>5, <2>3, <2>5
<1>6. CASE d # e /\ d[2] # e[2]
  <2>1. conn'[d] = conn[d] BY <1>6, TurnIncoming
  <2>2. Quitting(Incoming(d)', d[2]) => Quitting(Incoming(d), d[2])
    <3>1. CASE Incoming(d)' = Incoming(d) BY <3>1
    <3>2. CASE m \in Real /\ m.chan = e[2] /\ Incoming(d)' = Append(Incoming(d), m)
      <4>1. Incoming(d) \in Seq(Real) BY EndTypes
      <4>2. ~IsQuit(m, d[2]) BY <1>6, <3>2 DEF IsQuit
      <4> QED BY <3>2, <4>1, <4>2, AppendSays
    <3> QED BY <1>6, <3>1, <3>2, TurnIncoming
  <2>3. ~IsOpen(Peer(d)) /\ ~Asks(Way(d[1]), d[2]) BY <1>2, <1>4, <2>1, <2>2
  <2>4. Peer(d) # e BY <1>3, <1>6
  <2>5. ~IsOpen(Peer(d))' BY <1>3, <2>3, <2>4, TurnIncoming
  <2>6. ~Asks(Way(d[1])', d[2]) BY <1>3, <1>6, <2>3, TurnSays
  <2> QED BY <2>5, <2>6
<1>7. CASE d = Peer(e)
  <2>1. Peer(d) = e /\ d # e /\ d[2] = e[2] /\ d[1] # e[1] BY <1>3, <1>7, Ends, Others
  <2>2. conn'[d] = conn[d] /\ Incoming(d)' = IF m # None THEN Append(Incoming(d), m) ELSE Incoming(d)
    BY <2>1, TurnIncoming
  <2>3. ~Asks(Way(d[1])', d[2]) <=> ~Asks(Way(d[1]), d[2]) BY <1>3, <2>1, TurnSays
  <2>4. CASE Quitting(Incoming(d), d[2]) \/ conn[d].bDisconnect
    <3>1. ~IsOpen(e) /\ ~Asks(Way(d[1]), d[2]) BY <1>4, <2>1, <2>4
    <3>2. k.at \notin Pumping BY <3>1 DEF Turn
    <3>3. ~IsOpen(e)' BY <1>1, <3>2 DEF IsOpen, Turn, Closed
    <3> QED BY <2>1, <2>3, <3>1, <3>3
  <2>5. CASE ~(Quitting(Incoming(d), d[2]) \/ conn[d].bDisconnect)
    <3>1. m # None /\ Quitting(Append(Incoming(d), m), d[2]) BY <1>2, <2>2, <2>5
    <3>2. m \in Real BY <3>1 DEF Turn
    <3>3. Incoming(d) \in Seq(Real) BY EndTypes
    <3>4. IsQuit(m, d[2]) BY <2>5, <3>1, <3>2, <3>3, AppendSays
    <3>5. k.at = "ended" BY <3>1, <3>4 DEF Turn, IsQuit
    <3>6. ~IsOpen(e)' BY <1>1, <3>5 DEF IsOpen
    <3>7. conn[e].at # "none" BY DEF Turn
    <3>8. ~Asks(Way(d[1]), d[2])
      <4>1. CASE e = <<Server, e[2]>> /\ d[1] = Client BY <1>3, <2>1, <3>7, <4>1 DEF Talk
      <4>2. CASE d[1] = Server BY <1>3, <4>2 DEF Talk
      <4> QED BY <1>7, <4>1, <4>2, EitherEnd
    <3> QED BY <2>1, <2>3, <3>6, <3>8
  <2> QED BY <2>4, <2>5
<1> QED BY <1>5, <1>6, <1>7, ChannelEnds

\* An end whose connection did nothing, and which has heard one message more, or none.
LEMMA FlowingMore ==
    ASSUME OneClient, Typed, Typed', NEW d \in End, Flowing(d),
           conn'[d] = conn[d], delivered'[d] = delivered[d],
           NEW m, Incoming(d)' = Incoming(d) \/ (m \in Real /\ Incoming(d)' = Append(Incoming(d), m)),
           IF m \in Real /\ Incoming(d)' = Append(Incoming(d), m) /\ IsData(m, d[2])
           THEN /\ taken'[Peer(d)] = taken[Peer(d)] + 1
                /\ ~Quitting(Incoming(d), d[2]) /\ ~conn[d].bDisconnect
                /\ m.chunk.from = From(d) /\ m.chunk.n = taken[Peer(d)] + 1
           ELSE taken'[Peer(d)] = taken[Peer(d)]
    PROVE  Flowing(d)'
<1>1. Incoming(d) \in Seq(Real) /\ Reached(d) \in Nat BY EndTypes
<1>2. Peer(d) \in End BY Ends
<1>3. taken[Peer(d)] \in Nat BY <1>2, EndTypes
<1>4. InOrder(Incoming(d), d[2], From(d), Reached(d), taken[Peer(d)]) BY DEF Flowing
<1>5. Reached(d)' = Reached(d) BY DEF Reached
<1>6. InOrder(Incoming(d)', d[2], From(d), Reached(d), taken'[Peer(d)])
  <2>1. CASE m \in Real /\ Incoming(d)' = Append(Incoming(d), m)
    BY <1>1, <1>3, <1>4, <2>1, AppendOrder
  <2>2. CASE ~(m \in Real /\ Incoming(d)' = Append(Incoming(d), m))
    <3>1. Incoming(d)' = Incoming(d) /\ taken'[Peer(d)] = taken[Peer(d)] BY <2>2
    <3> QED BY <1>4, <3>1
  <2> QED BY <2>1, <2>2
<1>7. ASSUME conn[d].bDisconnect PROVE conn[d].ToDirect = None /\ NoData(Incoming(d)', d[2])
  <2>1. conn[d].ToDirect = None /\ NoData(Incoming(d), d[2]) BY <1>7 DEF Flowing
  <2>2. CASE m \in Real /\ Incoming(d)' = Append(Incoming(d), m)
    <3>1. ~IsData(m, d[2]) BY <1>7, <2>2
    <3> QED BY <1>1, <2>1, <2>2, <3>1, AppendSays
  <2>3. CASE ~(m \in Real /\ Incoming(d)' = Append(Incoming(d), m)) BY <2>1, <2>3
  <2> QED BY <2>2, <2>3
<1> QED BY <1>5, <1>6, <1>7 DEF Flowing, From

\* An end that was never used, and has not heard of its channel but for being asked for.
LEMMA FlowingFresh ==
    ASSUME OneClient, NEW d \in End, Incoming(d) \in Seq(Real), NoData(Incoming(d), d[2]),
           conn[d].ToDirect = None, delivered[d] = <<>>, taken[Peer(d)] = 0
    PROVE  Flowing(d)
<1>1. Reached(d) = 0 BY DEF Reached
<1>2. InOrder(Incoming(d), d[2], From(d), 0, 0) BY NothingSent
<1> QED BY <1>1, <1>2 DEF Flowing

LEMMA TurnFlow ==
    ASSUME OneClient, Typed, Typed', Roles, Talk, Gone, Flow,
           NEW e \in End, NEW k, NEW m \in Real \cup {None}, Turn(e, k, m),
           k.at \in Pumping => Flowing(e)'
    PROVE  Flow'
<1>1. conn'[e] = k BY DEF Turn, Works, Typed
<1>2. SUFFICES ASSUME NEW d \in End, IsOpen(d)' \/ Asks(Way(Other(d[1]))', d[2])
               PROVE  Flowing(d)'
  BY DEF Flow
<1>3. /\ d[1] \in Side /\ d[2] \in Channel /\ Peer(d) \in End /\ Peer(Peer(d)) = d /\ Peer(d) # d
      /\ e[1] \in Side /\ e[2] \in Channel /\ Peer(d)[1] = Other(d[1]) /\ Peer(d)[2] = d[2]
      /\ Other(d[1]) \in Side /\ Other(d[1]) # d[1]
  BY Ends, Others
<1>4. CASE d = e
  <2>1. Talk' BY TurnTalk
  <2>2. k.at \in Pumping \cup Closed /\ k.at # "none" BY DEF Turn, Pumping, Closed
  <2>3. ~Asks(Way(Other(e[1]))', e[2])
    <3>1. CASE e = <<Server, e[2]>> /\ Other(e[1]) = Client
      <4>1. conn'[<<Server, e[2]>>].at # "none" BY <1>1, <2>2, <3>1
      <4> QED BY <1>3, <2>1, <3>1, <4>1 DEF Talk
    <3>2. CASE Other(e[1]) = Server BY <1>3, <2>1, <3>2 DEF Talk
    <3> QED BY <3>1, <3>2, EitherEnd
  <2>4. k.at \in Pumping BY <1>1, <1>2, <1>4, <2>2, <2>3 DEF IsOpen, Closed
  <2> QED BY <1>4, <2>4
<1>5. CASE d # e
  <2>1. /\ conn'[d] = conn[d] /\ delivered'[d] = delivered[d]
        /\ \/ Incoming(d)' = Incoming(d)
           \/ m # None /\ m \in Real /\ m.chan = e[2] /\ Incoming(d)' = Append(Incoming(d), m)
        /\ d[1] # e[1] => Incoming(d)' = IF m # None THEN Append(Incoming(d), m) ELSE Incoming(d)
        /\ IsOpen(d)' <=> IsOpen(d)
    <3>1. delivered'[d] = delivered[d] BY <1>5 DEF Turn
    <3> QED BY <1>5, <3>1, TurnIncoming
  <2>2. CASE d[2] # e[2]
    <3>1. Asks(Way(Other(d[1]))', d[2]) <=> Asks(Way(Other(d[1])), d[2]) BY <1>3, <2>2, TurnSays
    <3>2. Flowing(d) BY <1>2, <2>1, <3>1 DEF Flow
    <3>3. taken'[Peer(d)] = taken[Peer(d)]
      <4>1. Peer(d) # e BY <1>3, <2>2
      <4> QED BY <1>3, <4>1 DEF Turn, Typed
    <3>4. m \in Real /\ Incoming(d)' = Append(Incoming(d), m) => ~IsData(m, d[2])
      <4>1. ASSUME m \in Real, m.chan = d[2], Incoming(d)' = Append(Incoming(d), m) PROVE FALSE
        <5>1. m.chan # e[2] BY <2>2, <4>1
        <5>2. Incoming(d)' = Incoming(d) BY <2>1, <5>1
        <5>3. Incoming(d) \in Seq(Real) BY EndTypes
        <5>4. Len(Append(Incoming(d), m)) = Len(Incoming(d)) + 1 /\ Len(Incoming(d)) \in Nat
          BY <4>1, <5>3, AppendPlaces
        <5> QED BY <4>1, <5>2, <5>4
      <4> QED BY <4>1 DEF IsData
    <3> QED BY <2>1, <3>2, <3>3, <3>4, FlowingMore
  <2>3. CASE d = Peer(e)
    <3>1. d[1] # e[1] /\ Peer(d) = e /\ d[2] = e[2] /\ Other(d[1]) = e[1] /\ From(d) = conn[e].role
      <4>1. d[1] # e[1] /\ Peer(d) = e /\ d[2] = e[2] /\ Other(d[1]) = e[1] BY <2>3, Ends, Others
      <4>2. conn[e].role = IF e[1] = Client THEN "forward" ELSE "target" BY DEF Turn, Roles
      <4>3. d[1] = Client <=> e[1] # Client BY <1>3, <4>1, Sides
      <4> QED BY <4>1, <4>2, <4>3 DEF From
    <3>2. Incoming(d)' = IF m # None THEN Append(Incoming(d), m) ELSE Incoming(d) BY <2>1, <3>1
    <3>3. Incoming(d) \in Seq(Real) BY EndTypes
    <3>4. CASE m # None /\ m.type = "Connect"
      <4>1. m \in Real /\ conn[e].at = "connect" BY <3>4 DEF Turn
      <4>2. taken[e] = 0 /\ e = <<Client, e[2]>> /\ d = <<Server, e[2]>>
        <5>1. taken[e] = 0 /\ e[1] = Client BY <4>1 DEF Roles
        <5> QED BY <2>3, <5>1, EitherEnd, Sides
      <4>3. conn[d].at = "none" /\ ~Says(Way(Client), e[2]) BY <1>3, <4>1, <4>2 DEF Talk
      <4>4. conn[d] = Connection("none", "none") /\ delivered[d] = <<>> BY <4>3 DEF Roles
      <4>5. Way(Client) \in Seq(Real) BY Sides, Ways
      <4>6. Incoming(d) = Way(Client)
        <5>1. conn[d].m_MessageQueue = <<>> /\ Other(d[1]) = Client
          BY <3>1, <4>2, <4>4 DEF Connection
        <5> QED BY <4>5, <5>1, ConcatEmptySeq DEF Incoming
      <4>7. NoData(Incoming(d), d[2]) BY <3>1, <4>3, <4>6 DEF Says, NoData, IsData
      <4>8. NoData(Incoming(d)', d[2])
        <5>1. ~IsData(m, d[2]) BY <3>4 DEF IsData
        <5> QED BY <3>2, <3>3, <3>4, <4>1, <4>7, <5>1, AppendSays
      <4>9. taken'[Peer(d)] = 0 BY <3>1, <3>4, <4>2 DEF Turn
      <4>10. Incoming(d)' \in Seq(Real) BY <3>2, <3>3, <3>4, <4>1, AppendPlaces
      <4>11. conn'[d].ToDirect = None /\ ~conn'[d].bDisconnect /\ delivered'[d] = <<>>
        BY <2>1, <4>4 DEF Connection
      <4>12. Reached(d)' = 0 BY <4>11 DEF Reached
      <4>13. InOrder(Incoming(d)', d[2], From(d), 0, 0) BY <4>8, NothingSent
      <4> QED BY <4>9, <4>11, <4>12, <4>13 DEF Flowing, From
    <3>5. CASE ~(m # None /\ m.type = "Connect")
      <4>1. Asks(Way(Other(d[1]))', d[2]) <=> Asks(Way(Other(d[1])), d[2]) BY <1>3, <3>5, TurnSays
      <4>2. Flowing(d) BY <1>2, <2>1, <4>1 DEF Flow
      <4>3. CASE m # None /\ m.type = "Data"
        <5>1. m \in Real /\ IsData(m, d[2]) BY <3>1, <4>3 DEF Turn, IsData
        <5>2. taken'[e] = taken[e] + 1 BY <4>3 DEF Turn, Typed
        <5>3. k.at \in Pumping /\ m.chunk.from = conn[e].role /\ m.chunk.n = taken[e] + 1
          BY <4>3 DEF Turn
        <5>4. IsOpen(e) BY <5>3 DEF Turn
        <5>5. ~Quitting(Incoming(d), d[2]) /\ ~conn[d].bDisconnect BY <3>1, <5>4 DEF Gone
        <5>6. Incoming(d)' = Append(Incoming(d), m) BY <3>2, <4>3
        <5> QED BY <2>1, <3>1, <4>2, <5>1, <5>2, <5>3, <5>5, <5>6, FlowingMore
      <4>4. CASE ~(m # None /\ m.type = "Data")
        <5>1. taken'[e] = taken[e] BY <4>4 DEF Turn
        <5>2. m \in Real => ~IsData(m, d[2])
          <6>1. m \in Real => m # None BY NoneAssumption DEF Real
          <6> QED BY <4>4, <6>1 DEF IsData
        <5>3. Incoming(d)' = Incoming(d) \/ (m \in Real /\ Incoming(d)' = Append(Incoming(d), m))
          BY <2>1
        <5> QED BY <2>1, <3>1, <4>2, <5>1, <5>2, <5>3, FlowingMore
      <4> QED BY <4>3, <4>4
    <3> QED BY <3>4, <3>5
  <2> QED BY <1>5, <2>2, <2>3, ChannelEnds
<1> QED BY <1>4, <1>5

-----------------------------------------------------------------------------
\* What a pump takes out of its queue

\* the first message, the rest, and what follows on the way
LEMMA Queue ==
    ASSUME OneClient, Typed, NEW e \in End, conn[e].m_MessageQueue # <<>>
    PROVE  LET q == conn[e].m_MessageQueue
               m == Head(q)
               w == Way(Other(e[1]))
           IN  /\ m \in Held(e) /\ m \in Real /\ Tail(q) \in Seq(Held(e)) /\ Tail(q) \in Seq(Real)
               /\ w \in Seq(Real) /\ Tail(q) \o w \in Seq(Real)
               /\ Incoming(e) = <<m>> \o (Tail(q) \o w)
<1>1. PICK q, m, t, w : /\ q = conn[e].m_MessageQueue /\ m = Head(q) /\ t = Tail(q)
                        /\ w = Way(Other(e[1]))
  OBVIOUS
<1>2. q \in Seq(Held(e)) /\ q \in Seq(Real) /\ q # <<>> BY <1>1, EndTypes
<1>3. m \in Held(e) /\ t \in Seq(Held(e)) BY <1>1, <1>2, HeadTailProperties
<1>4. m \in Real /\ t \in Seq(Real) BY <1>1, <1>2, HeadTailProperties
<1>5. w \in Seq(Real) BY <1>1, Ends, Others, Ways
<1>6. q = <<m>> \o t BY <1>1, <1>2, HeadTailProperties
<1>7. <<m>> \in Seq(Real) BY <1>4
<1>8. (<<m>> \o t) \o w = <<m>> \o (t \o w) BY <1>4, <1>5, <1>7, ConcatAssociative
<1>9. t \o w \in Seq(Real) BY <1>4, <1>5, ConcatProperties
<1> QED BY <1>1, <1>3, <1>4, <1>5, <1>6, <1>8, <1>9 DEF Incoming

Staged(e) == Len(delivered[e]) + IF Outbound(e) = None THEN 0 ELSE 1

LEMMA Stage ==
    ASSUME OneClient, Typed, NEW e \in End, Flowing(e)
    PROVE  LET rest == Rest(e) \o Way(Other(e[1])) IN
           /\ Rest(e) \in Seq(Held(e)) /\ Rest(e) \in Seq(Real) /\ rest \in Seq(Real)
           /\ Outbound(e) \in Chunk \cup {None} /\ Quits(e) \in BOOLEAN /\ Staged(e) \in Nat
           /\ Outbound(e) # None => Outbound(e).from = From(e) /\ Outbound(e).n = Staged(e)
           /\ InOrder(rest, e[2], From(e), Staged(e), taken[Peer(e)])
           /\ Quits(e) => /\ Outbound(e) = None /\ NoData(rest, e[2])
                          /\ Quitting(Incoming(e), e[2])
           /\ Quitting(rest, e[2]) => Quitting(Incoming(e), e[2])
           /\ conn[e].bDisconnect => conn[e].ToDirect = None /\ NoData(rest, e[2])
<1>1. /\ conn[e].m_MessageQueue \in Seq(Held(e)) /\ conn[e].m_MessageQueue \in Seq(Real)
      /\ conn[e].ToDirect \in Chunk \cup {None} /\ Len(delivered[e]) \in Nat
      /\ taken[Peer(e)] \in Nat /\ Reached(e) \in Nat /\ Incoming(e) \in Seq(Real)
  <2>1. Peer(e) \in End BY Ends
  <2> QED BY <2>1, EndTypes DEF Connections
<1>2. /\ conn[e].ToDirect # None =>
           conn[e].ToDirect.from = From(e) /\ conn[e].ToDirect.n = Reached(e)
      /\ InOrder(Incoming(e), e[2], From(e), Reached(e), taken[Peer(e)])
      /\ conn[e].bDisconnect => conn[e].ToDirect = None /\ NoData(Incoming(e), e[2])
  BY DEF Flowing
<1>3. CASE conn[e].ToDirect # None \/ conn[e].m_MessageQueue = <<>>
  <2>1. First(e) = None BY <1>3 DEF First
  <2>2. /\ Rest(e) = conn[e].m_MessageQueue /\ Outbound(e) = conn[e].ToDirect
        /\ Quits(e) = FALSE
    BY <2>1 DEF Rest, Outbound, Quits
  <2>3. Staged(e) = Reached(e) BY <2>2 DEF Staged, Reached
  <2>4. Rest(e) \o Way(Other(e[1])) = Incoming(e) BY <2>2 DEF Incoming
  <2> QED BY <1>1, <1>2, <2>2, <2>3, <2>4
<1>4. CASE conn[e].ToDirect = None /\ conn[e].m_MessageQueue # <<>>
  <2>1. PICK m, t, w, r : /\ m = Head(conn[e].m_MessageQueue) /\ t = Tail(conn[e].m_MessageQueue)
                          /\ w = Way(Other(e[1])) /\ r = t \o w
    OBVIOUS
  <2>2. /\ m \in Held(e) /\ m \in Real /\ t \in Seq(Held(e)) /\ t \in Seq(Real)
        /\ r \in Seq(Real) /\ Incoming(e) = <<m>> \o r
    BY <1>4, <2>1, Queue
  <2>3. First(e) = m /\ m # None BY <1>4, <2>1, <2>2, NoneAssumption DEF First, Real
  <2>4. Rest(e) = t /\ Outbound(e) = m.chunk /\ (Quits(e) <=> m.type = "Disconnect") /\ Quits(e) \in BOOLEAN
    BY <2>1, <2>3 DEF Rest, Outbound, Quits
  <2>5. Reached(e) = Len(delivered[e]) BY <1>1, <1>4 DEF Reached
  <2>6. m.chan = e[2] /\ m.type \in {"Data", "Disconnect"} /\ (m.type = "Data" <=> m.chunk # None)
        /\ m.chunk \in Chunk \cup {None}
    BY <2>2 DEF Held, Real, Sent
  <2>7. InOrder(<<m>> \o r, e[2], From(e), Reached(e), taken[Peer(e)]) BY <1>2, <2>2
  <2>8. Quitting(r, e[2]) => Quitting(Incoming(e), e[2])
    <3>1. <<>> \in Seq(Real) /\ <<>> \o r = r BY <2>2, ConcatEmptySeq
    <3>2. <<m>> \o r \in Seq(Real) BY <1>1, <2>2
    <3>3. <<>> \o (<<m>> \o r) = <<m>> \o r BY <3>2, ConcatEmptySeq
    <3> QED BY <2>2, <3>1, <3>3, DropSays
  <2>9. CASE m.type = "Data"
    <3>1. IsData(m, e[2]) BY <2>6, <2>9 DEF IsData
    <3>2. /\ m.chunk.from = From(e) /\ m.chunk.n = Reached(e) + 1
          /\ InOrder(r, e[2], From(e), Reached(e) + 1, taken[Peer(e)])
      BY <1>1, <2>2, <2>7, <3>1, TakeFirst
    <3>3. Staged(e) = Reached(e) + 1 BY <1>1, <2>4, <2>5, <2>6, <2>9 DEF Staged
    <3>4. ~conn[e].bDisconnect
      <4>1. Incoming(e)[1] = m /\ 1 \in 1 .. Len(Incoming(e)) BY <1>1, <2>2, HeadTailProperties
      <4> QED BY <1>2, <3>1, <4>1 DEF NoData
    <3>5. Reached(e) + 1 \in Nat BY <1>1
    <3> QED BY <2>1, <2>2, <2>4, <2>6, <2>8, <2>9, <3>2, <3>3, <3>4, <3>5
  <2>10. CASE m.type = "Disconnect"
    <3>1. ~IsData(m, e[2]) /\ IsQuit(m, e[2]) BY <2>6, <2>10 DEF IsData, IsQuit
    <3>2. InOrder(r, e[2], From(e), Reached(e), taken[Peer(e)]) /\ NoData(r, e[2])
      BY <1>1, <2>2, <2>7, <3>1, TakeFirst
    <3>3. Outbound(e) = None BY <2>4, <2>6, <2>10
    <3>4. Staged(e) = Reached(e) BY <1>1, <2>5, <3>3 DEF Staged
    <3>5. Quitting(Incoming(e), e[2])
      <4>1. Incoming(e)[1] = m /\ 1 \in 1 .. Len(Incoming(e)) BY <1>1, <2>2, HeadTailProperties
      <4> QED BY <3>1, <4>1 DEF Quitting
    <3> QED BY <1>1, <1>4, <2>1, <2>2, <2>4, <2>8, <2>10, <3>2, <3>3, <3>4, <3>5
  <2> QED BY <2>6, <2>9, <2>10
<1> QED BY <1>3, <1>4

\* What a pump writes is the next chunk, and its peer has taken it in.
LEMMA Writes ==
    ASSUME OneClient, Typed, NEW e \in End, Flowing(e), Outbound(e) # None
    PROVE  /\ Outbound(e) \in Chunk
           /\ Outbound(e) = [from |-> From(e), n |-> Len(delivered[e]) + 1]
           /\ Len(delivered[e]) + 1 <= taken[Peer(e)]
<1>1. PICK r : r = Rest(e) \o Way(Other(e[1])) OBVIOUS
<1>2. /\ Outbound(e) \in Chunk /\ Outbound(e).from = From(e) /\ Outbound(e).n = Staged(e)
      /\ InOrder(r, e[2], From(e), Staged(e), taken[Peer(e)])
  BY <1>1, Stage
<1>3. Staged(e) = Len(delivered[e]) + 1 BY DEF Staged
<1>4. Staged(e) <= taken[Peer(e)] BY <1>2 DEF InOrder
<1>5. Outbound(e) = [from |-> Outbound(e).from, n |-> Outbound(e).n] BY <1>2 DEF Chunk
<1> QED BY <1>2, <1>3, <1>4, <1>5

\* Drained: a pump that follows its peer has put out everything.
LEMMA QuitsDrained ==
    ASSUME OneClient, Typed, Gone, NEW e \in End, Flowing(e), Quits(e) \/ conn[e].bDisconnect
    PROVE  ~IsOpen(Peer(e)) /\ Len(delivered[e]) = taken[Peer(e)]
<1>1. PICK r : r = Rest(e) \o Way(Other(e[1])) OBVIOUS
<1>2. /\ Staged(e) \in Nat /\ InOrder(r, e[2], From(e), Staged(e), taken[Peer(e)])
      /\ Quits(e) => /\ Outbound(e) = None /\ NoData(r, e[2])
                     /\ Quitting(Incoming(e), e[2])
      /\ conn[e].bDisconnect => conn[e].ToDirect = None /\ NoData(r, e[2])
  BY <1>1, Stage
<1>3. taken[Peer(e)] \in Nat /\ Len(delivered[e]) \in Nat BY Ends, EndTypes
<1>4. ~IsOpen(Peer(e)) BY <1>2 DEF Gone
<1>5. CASE Quits(e)
  <2>1. Staged(e) = taken[Peer(e)] BY <1>2, <1>3, <1>5, NothingLeft
  <2>2. Staged(e) = Len(delivered[e]) BY <1>2, <1>3, <1>5 DEF Staged
  <2> QED BY <1>4, <2>1, <2>2
<1>6. CASE ~Quits(e) /\ conn[e].bDisconnect
  <2>1. Reached(e) = Len(delivered[e]) /\ Reached(e) \in Nat
    <3>1. conn[e].ToDirect = None BY <1>2, <1>6
    <3> QED BY <1>3, <3>1 DEF Reached
  <2>2. InOrder(Incoming(e), e[2], From(e), Reached(e), taken[Peer(e)]) /\ NoData(Incoming(e), e[2])
    BY <1>6 DEF Flowing
  <2>3. Reached(e) = taken[Peer(e)] BY <1>3, <2>1, <2>2, NothingLeft
  <2> QED BY <1>4, <2>1, <2>3
<1> QED BY <1>5, <1>6

-----------------------------------------------------------------------------
\* The steps of an end's thread preserve the invariant

LEMMA Messages ==
    ASSUME OneClient, NEW e \in End, NEW type \in {"Connect", "Disconnect", "Pause", "Resume"}
    PROVE  /\ Message(type, e) \in Real /\ Message(type, e) # None
           /\ Message(type, e).type = type /\ Message(type, e).chan = e[2]
<1>1. e[2] \in Channel BY Ends
<1>2. Message(type, e) \in Real BY <1>1 DEF Message, Real, Sent
<1> QED BY <1>2, NoneAssumption DEF Message, Real

\* what a thread changes has its type
LEMMA WorksTyped ==
    ASSUME OneClient, Typed, NEW e \in End, NEW k \in Connections,
           k.m_MessageQueue \in Seq(Held(e)), NEW m \in Real \cup {None}, Works(e, k, m),
           m_Wakeup' \subseteq Side, m_Connections' \subseteq m_Connections,
           outside' \in [End -> [input : Nat, full : BOOLEAN, closed : BOOLEAN]],
           taken' \in [End -> Nat], delivered' \in [End -> Seq(Chunk)],
           why' \in [End -> {"none", "outside", "timeout", "unreachable", "peer"}],
           UNCHANGED <<run, stream, partial, stop, m_iConnection>>
    PROVE  Typed'
<1>1. e[1] \in Side BY Ends
<1>2. m_OutQueue' \in [Side -> Seq(Real)]
  <2>1. CASE m = None BY <2>1 DEF Works, Typed
  <2>2. CASE m # None
    <3>1. m \in Real /\ m_OutQueue[e[1]] \in Seq(Real) BY <1>1, <2>2, Ways
    <3>2. Append(m_OutQueue[e[1]], m) \in Seq(Real) BY <3>1, AppendProperties
    <3> QED BY <2>2, <3>2 DEF Works, Typed
  <2> QED BY <2>1, <2>2
<1>3. wire' \in [Side -> Seq(Real)] BY DEF Works, Typed
<1>4. conn' \in [End -> Connections] BY DEF Works, Typed
<1>5. \A d \in End : conn'[d].m_MessageQueue \in Seq(Held(d)) BY DEF Works, Typed
<1>6. \A d \in End : Held(d)' = Held(d) BY DEF Held, Real, Sent
<1>7. /\ m_Connections' \subseteq End /\ stream' \subseteq Side
      /\ partial' \subseteq Side /\ stop' \subseteq Side
      /\ run' \in [Side -> Stations]
      /\ m_iConnection' \in [Side -> 0 .. MaxChannel]
  BY DEF Typed
<1> QED BY <1>2, <1>3, <1>4, <1>5, <1>7 DEF Typed

\* what follows in the queue
LEMMA SuffixQuits ==
    ASSUME NEW p \in Seq(Real), NEW q \in Seq(Real), NEW c, Quitting(q, c)
    PROVE  Quitting(p \o q, c)
<1>1. PICK a \in Nat, b \in Nat : a = Len(p) /\ b = Len(q) BY LenProperties
<1>2. /\ Len(p \o q) = a + b
      /\ \A i \in 1 .. a + b : (p \o q)[i] = IF i <= a THEN p[i] ELSE q[i - a]
  BY <1>1, ConcatProperties
<1>3. PICK i \in 1 .. b : IsQuit(q[i], c) BY <1>1 DEF Quitting
<1>4. a + i \in 1 .. a + b /\ ~(a + i <= a) /\ (a + i) - a = i BY <1>3
<1>5. (p \o q)[a + i] = q[i] BY <1>2, <1>4
<1> QED BY <1>2, <1>3, <1>4, <1>5 DEF Quitting

LEMMA PipesSame ==
    ASSUME Pipes, delivered' = delivered
    PROVE  Pipes'
BY DEF Pipes, From

LEMMA PipesMore ==
    ASSUME OneClient, Typed, Pipes, NEW e \in End, Flowing(e), Outbound(e) # None,
           delivered' = [delivered EXCEPT ![e] = Append(@, Outbound(e))]
    PROVE  Pipes' /\ delivered' \in [End -> Seq(Chunk)]
<1>1. Outbound(e) \in Chunk /\ Outbound(e) = [from |-> From(e), n |-> Len(delivered[e]) + 1]
  BY Writes
<1>2. PICK q \in Seq(Chunk) : q = delivered[e] BY EndTypes
<1>3. PICK n \in Nat : n = Len(q) BY <1>2, LenProperties
<1>4. PICK p : p = Append(q, Outbound(e)) OBVIOUS
<1>5. p \in Seq(Chunk) /\ Len(p) = n + 1 /\ p[n + 1] = Outbound(e) /\ \A i \in 1 .. n : p[i] = q[i]
  BY <1>1, <1>3, <1>4, AppendProperties
<1>6. delivered'[e] = p /\ \A d \in End \ {e} : delivered'[d] = delivered[d]
  BY <1>2, <1>4 DEF Typed
<1>7. delivered' \in [End -> Seq(Chunk)] BY <1>2, <1>4, <1>5 DEF Typed
<1>8. \A i \in 1 .. Len(p) : p[i] = [from |-> From(e), n |-> i]
  <2>1. \A i \in 1 .. n : q[i] = [from |-> From(e), n |-> i] BY <1>2, <1>3 DEF Pipes
  <2>2. \A i \in 1 .. n + 1 : i = n + 1 \/ i \in 1 .. n OBVIOUS
  <2> QED BY <1>1, <1>2, <1>3, <1>5, <2>1, <2>2
<1> QED BY <1>6, <1>7, <1>8 DEF Pipes, From

LEMMA TurnKeeps ==
    ASSUME OneClient, IInv, NEW e \in End, NEW k, NEW m \in Real \cup {None}, Turn(e, k, m),
           Typed', Pipes', k.at \in Pumping => Flowing(e)'
    PROVE  IInv'
BY TurnRoles, TurnTalk, TurnGone, TurnFlow DEF IInv

\* what is under way to the end is as before
LEMMA FlowingSame ==
    ASSUME OneClient, Typed, NEW e \in End, NEW k, NEW m \in Real \cup {None}, Works(e, k, m),
           Flowing(e), k.m_MessageQueue = conn[e].m_MessageQueue,
           k.ToDirect = conn[e].ToDirect, k.bDisconnect = conn[e].bDisconnect,
           delivered'[e] = delivered[e], taken'[Peer(e)] = taken[Peer(e)]
    PROVE  Flowing(e)'
<1>1. conn'[e] = k BY DEF Works, Typed
<1>2. Incoming(e)' = Incoming(e) BY OwnIncoming DEF Incoming
<1>3. Reached(e)' = Reached(e) BY <1>1 DEF Reached
<1> QED BY <1>1, <1>2, <1>3 DEF Flowing, From

\* ... or has moved on
LEMMA FlowingStaged ==
    ASSUME OneClient, Typed, NEW e \in End, NEW k, NEW m \in Real \cup {None}, Works(e, k, m),
           Flowing(e), k.m_MessageQueue = Rest(e), k.bDisconnect => Quits(e),
           \/ k.ToDirect = Outbound(e) /\ delivered'[e] = delivered[e]
           \/ /\ k.ToDirect = None /\ Outbound(e) # None
              /\ delivered'[e] = Append(delivered[e], Outbound(e)),
           taken'[Peer(e)] = taken[Peer(e)]
    PROVE  Flowing(e)' /\ (Quitting(Incoming(e)', e[2]) => Quitting(Incoming(e), e[2]))
<1>1. conn'[e] = k BY DEF Works, Typed
<1>2. PICK r : r = Rest(e) \o Way(Other(e[1])) OBVIOUS
<1>3. Incoming(e)' = r BY <1>2, OwnIncoming
<1>4. /\ Outbound(e) # None => Outbound(e).from = From(e) /\ Outbound(e).n = Staged(e)
      /\ InOrder(r, e[2], From(e), Staged(e), taken[Peer(e)])
      /\ Quits(e) => Outbound(e) = None /\ NoData(r, e[2])
      /\ Quitting(r, e[2]) => Quitting(Incoming(e), e[2])
      /\ Outbound(e) \in Chunk \cup {None}
  BY <1>2, Stage
<1>5. Len(delivered[e]) \in Nat /\ delivered[e] \in Seq(Chunk) BY EndTypes
<1>6. Reached(e)' = Staged(e)
  <2>1. CASE k.ToDirect = Outbound(e) /\ delivered'[e] = delivered[e]
    BY <1>1, <2>1 DEF Reached, Staged
  <2>2. CASE /\ k.ToDirect = None /\ Outbound(e) # None
             /\ delivered'[e] = Append(delivered[e], Outbound(e))
    <3>1. Len(delivered'[e]) = Len(delivered[e]) + 1 BY <1>4, <1>5, <2>2, AppendProperties
    <3> QED BY <1>1, <1>5, <2>2, <3>1 DEF Reached, Staged
  <2> QED BY <2>1, <2>2
<1>7. k.ToDirect # None => k.ToDirect.from = From(e) /\ k.ToDirect.n = Staged(e) BY <1>4
<1>8. k.bDisconnect => k.ToDirect = None /\ NoData(r, e[2]) BY <1>4
<1> QED BY <1>1, <1>3, <1>4, <1>6, <1>7, <1>8 DEF Flowing, From

\* A turn that neither takes a message nor a chunk.
LEMMA SameKeeps ==
    ASSUME OneClient, IInv, NEW e \in End, NEW k \in Connections, NEW m \in Real \cup {None},
           Works(e, k, m), IsOpen(e), k.at \in Pumping, k.role = conn[e].role,
           k.m_MessageQueue = conn[e].m_MessageQueue, k.ToDirect = conn[e].ToDirect,
           k.bDisconnect = conn[e].bDisconnect,
           m # None => m.chan = e[2] /\ m.type \in {"Connect", "Resume"},
           conn[e].at = "connect" <=> m # None /\ m.type = "Connect",
           m_Wakeup' \subseteq Side, UNCHANGED <<run, stream, partial, stop, table, outside, history>>
    PROVE  IInv'
<1>1. Typed /\ Flow /\ Pipes BY DEF IInv
<1>2. Flowing(e) BY <1>1 DEF Flow
<1>3. Typed'
  <2>1. k.m_MessageQueue \in Seq(Held(e)) BY <1>1, EndTypes
  <2>2. /\ m_Connections' \subseteq m_Connections
        /\ outside' \in [End -> [input : Nat, full : BOOLEAN, closed : BOOLEAN]]
        /\ taken' \in [End -> Nat] /\ delivered' \in [End -> Seq(Chunk)]
        /\ why' \in [End -> {"none", "outside", "timeout", "unreachable", "peer"}]
        /\ UNCHANGED <<run, stream, partial, stop, m_iConnection>>
    BY <1>1 DEF Typed, table, history
  <2> QED BY <1>1, <2>1, <2>2, WorksTyped
<1>4. delivered' = delivered /\ taken' = taken /\ why' = why BY DEF history
<1>5. Pipes' BY <1>1, <1>4, PipesSame
<1>6. Flowing(e)' BY <1>1, <1>2, <1>4, FlowingSame
<1>7. Incoming(e)' = Incoming(e) BY <1>1, OwnIncoming DEF Incoming
<1>8. Turn(e, k, m)
  <2>1. conn[e].at \notin {"none", "done"} BY DEF IsOpen
  <2>2. k.at # "done" BY DEF Pumping
  <2>3. m # None /\ m.type = "Connect" => conn[e].at = "connect" OBVIOUS
  <2>4. m # None => m \in Real OBVIOUS
  <2>5. m_iConnection' = m_iConnection /\ m_Connections' = m_Connections BY DEF table
  <2>6. ~(m # None /\ m.type = "Data") OBVIOUS
  <2> QED BY <1>4, <1>7, <2>1, <2>2, <2>3, <2>4, <2>5, <2>6 DEF Turn
<1> QED BY <1>3, <1>5, <1>6, <1>8, TurnKeeps

LEMMA ConnectAsksKeeps ==
    ASSUME OneClient, IInv, NEW e \in End, ConnectAsks(e)
    PROVE  IInv'
<1>1. PICK k, m : k = [conn[e] EXCEPT !.at = "round"] /\ m = Message("Connect", e) OBVIOUS
<1>2. /\ m \in Real /\ m # None /\ m.type = "Connect" /\ m.chan = e[2]
  BY <1>1, Messages
<1>3. conn[e] \in Connections /\ conn[e].at = "connect" BY EndTypes DEF IInv, ConnectAsks
<1>4. /\ k \in Connections /\ k.at \in Pumping /\ k.role = conn[e].role
      /\ k.m_MessageQueue = conn[e].m_MessageQueue /\ k.ToDirect = conn[e].ToDirect
      /\ k.bDisconnect = conn[e].bDisconnect
  BY <1>1, <1>3 DEF Connections, Pumping
<1>5. Works(e, k, m)
  BY <1>1, <1>2 DEF ConnectAsks, QueueMessage, Works, streams
<1>6. IsOpen(e) BY <1>3 DEF IsOpen
<1>7. m_Wakeup' \subseteq Side BY Ends DEF ConnectAsks, QueueMessage, IInv, Typed
<1>8. UNCHANGED <<run, stream, partial, stop, table, outside, history>> BY DEF ConnectAsks, streams
<1> QED BY <1>2, <1>3, <1>4, <1>5, <1>6, <1>7, <1>8, SameKeeps

LEMMA PumpResumeKeeps ==
    ASSUME OneClient, IInv, NEW e \in End, PumpResume(e)
    PROVE  IInv'
<1>1. PICK k, m : k = [conn[e] EXCEPT !.at = "round"] /\ m = Message("Resume", e) OBVIOUS
<1>2. /\ m \in Real /\ m # None /\ m.type = "Resume" /\ m.chan = e[2]
  BY <1>1, Messages
<1>3. conn[e] \in Connections /\ conn[e].at = "resume" BY EndTypes DEF IInv, PumpResume
<1>4. /\ k \in Connections /\ k.at \in Pumping /\ k.role = conn[e].role
      /\ k.m_MessageQueue = conn[e].m_MessageQueue /\ k.ToDirect = conn[e].ToDirect
      /\ k.bDisconnect = conn[e].bDisconnect
  BY <1>1, <1>3 DEF Connections, Pumping
<1>5. Works(e, k, m)
  BY <1>1, <1>2 DEF PumpResume, QueueMessage, Works, streams
<1>6. IsOpen(e) BY <1>3 DEF IsOpen
<1>7. m_Wakeup' \subseteq Side BY Ends DEF PumpResume, QueueMessage, IInv, Typed
<1>8. UNCHANGED <<run, stream, partial, stop, table, outside, history>> BY DEF PumpResume, streams
<1> QED BY <1>2, <1>3, <1>4, <1>5, <1>6, <1>7, <1>8, SameKeeps

LEMMA PumpWakesKeeps ==
    ASSUME OneClient, IInv, NEW e \in End, PumpWakes(e)
    PROVE  IInv'
<1>1. PICK k : k = [conn[e] EXCEPT !.at = "round", !.m_Wakeup = FALSE] OBVIOUS
<1>2. conn[e] \in Connections /\ conn[e].at \in {"sleep", "deaf"}
  BY EndTypes DEF IInv, PumpWakes, Asleep
<1>3. /\ k \in Connections /\ k.at \in Pumping /\ k.role = conn[e].role
      /\ k.m_MessageQueue = conn[e].m_MessageQueue /\ k.ToDirect = conn[e].ToDirect
      /\ k.bDisconnect = conn[e].bDisconnect
  BY <1>1, <1>2 DEF Connections, Pumping
<1>4. Works(e, k, None) BY <1>1 DEF PumpWakes, Works, tunnel
<1>5. IsOpen(e) BY <1>2 DEF IsOpen
<1>6. m_Wakeup' \subseteq Side BY DEF PumpWakes, tunnel, IInv, Typed
<1>7. UNCHANGED <<run, stream, partial, stop, table, outside, history>> BY DEF PumpWakes, tunnel
<1> QED BY <1>2, <1>3, <1>4, <1>5, <1>6, <1>7, SameKeeps

\* A turn that takes a message out of the queue, or writes, and may have read a chunk.
LEMMA StagedKeeps ==
    ASSUME OneClient, IInv, NEW e \in End, NEW k \in Connections, NEW m \in Real \cup {None},
           Works(e, k, m), conn[e].at = "round", k.at \in Pumping, k.role = conn[e].role,
           k.m_MessageQueue = Rest(e), k.bDisconnect => Quits(e),
           \/ k.ToDirect = Outbound(e) /\ delivered' = delivered
           \/ /\ k.ToDirect = None /\ Outbound(e) # None
              /\ delivered' = [delivered EXCEPT ![e] = Append(@, Outbound(e))],
           m # None => /\ m.chan = e[2] /\ m.type = "Data"
                       /\ m.chunk.from = conn[e].role /\ m.chunk.n = taken[e] + 1,
           taken' = IF m # None THEN [taken EXCEPT ![e] = @ + 1] ELSE taken,
           m_Wakeup' \subseteq Side,
           outside' \in [End -> [input : Nat, full : BOOLEAN, closed : BOOLEAN]],
           UNCHANGED <<run, stream, partial, stop, table, why>>
    PROVE  IInv'
<1>1. Typed /\ Flow /\ Pipes BY DEF IInv
<1>2. IsOpen(e) BY DEF IsOpen
<1>3. Flowing(e) BY <1>1, <1>2 DEF Flow
<1>4. Pipes' /\ delivered' \in [End -> Seq(Chunk)]
  <2>1. CASE delivered' = delivered BY <1>1, <2>1, PipesSame DEF Typed
  <2>2. CASE /\ Outbound(e) # None
             /\ delivered' = [delivered EXCEPT ![e] = Append(@, Outbound(e))]
    BY <1>1, <1>3, <2>2, PipesMore
  <2> QED BY <2>1, <2>2
<1>5. Typed'
  <2>1. k.m_MessageQueue \in Seq(Held(e)) BY <1>1, <1>3, Stage
  <2>2. taken' \in [End -> Nat]
    <3>1. taken[e] + 1 \in Nat BY <1>1, EndTypes
    <3> QED BY <1>1, <3>1 DEF Typed
  <2>3. /\ m_Connections' \subseteq m_Connections /\ UNCHANGED <<run, stream, partial, stop, m_iConnection>>
        /\ why' \in [End -> {"none", "outside", "timeout", "unreachable", "peer"}]
    BY <1>1 DEF Typed, table
  <2> QED BY <1>1, <1>4, <2>1, <2>2, <2>3, WorksTyped
<1>6. Peer(e) \in End /\ Peer(e) # e BY Ends
<1>7. taken'[Peer(e)] = taken[Peer(e)] BY <1>1, <1>6 DEF Typed
<1>8. \/ k.ToDirect = Outbound(e) /\ delivered'[e] = delivered[e]
      \/ /\ k.ToDirect = None /\ Outbound(e) # None
         /\ delivered'[e] = Append(delivered[e], Outbound(e))
  BY <1>1 DEF Typed
<1>9. Flowing(e)' /\ (Quitting(Incoming(e)', e[2]) => Quitting(Incoming(e), e[2]))
  BY <1>1, <1>3, <1>7, <1>8, FlowingStaged
<1>10. k.bDisconnect => Quitting(Incoming(e), e[2]) BY <1>1, <1>3, Stage
<1>11. \A d \in End \ {e} : delivered'[d] = delivered[d] /\ why'[d] = why[d]
  BY <1>1 DEF Typed
<1>12. Turn(e, k, m)
  <2>1. k.at # "done" BY DEF Pumping
  <2>2. m # None => m \in Real OBVIOUS
  <2>3. m_iConnection' = m_iConnection /\ m_Connections' = m_Connections BY DEF table
  <2>4. taken' = IF m # None /\ m.type = "Data" THEN [taken EXCEPT ![e] = @ + 1] ELSE taken
    OBVIOUS
  <2>5. conn[e].at \notin {"none", "done", "connect"} OBVIOUS
  <2> QED BY <1>2, <1>9, <1>10, <1>11, <2>1, <2>2, <2>3, <2>4, <2>5 DEF Turn
<1> QED BY <1>4, <1>5, <1>9, <1>12, TurnKeeps

LEMMA PumpMakesRoomKeeps ==
    ASSUME OneClient, IInv, NEW e \in End, PumpMakesRoom(e)
    PROVE  IInv'
<1>1. PICK k : k = [conn[e] EXCEPT !.at = "resume", !.m_MessageQueue = Rest(e),
                                   !.ToDirect = Outbound(e), !.bDisconnect = Quits(e),
                                   !.m_bRXPaused = FALSE]
  OBVIOUS
<1>2. conn[e] \in Connections /\ conn[e].at = "round" BY EndTypes DEF IInv, PumpMakesRoom
<1>3. /\ Rest(e) \in Seq(Real) /\ Outbound(e) \in Chunk \cup {None} /\ Quits(e) \in BOOLEAN
  <2>1. Flowing(e) BY <1>2 DEF IInv, Flow, IsOpen
  <2> QED BY <2>1, Stage DEF IInv
<1>4. /\ k \in Connections /\ k.at \in Pumping /\ k.role = conn[e].role
      /\ k.m_MessageQueue = Rest(e) /\ k.ToDirect = Outbound(e) /\ k.bDisconnect = Quits(e)
  BY <1>1, <1>2, <1>3 DEF Connections, Pumping
<1>5. Works(e, k, None) BY <1>1 DEF PumpMakesRoom, Works, tunnel
<1>6. /\ m_Wakeup' \subseteq Side
      /\ outside' \in [End -> [input : Nat, full : BOOLEAN, closed : BOOLEAN]]
  BY DEF PumpMakesRoom, tunnel, IInv, Typed
<1>7. UNCHANGED <<run, stream, partial, stop, table, why>> /\ delivered' = delivered /\ taken' = taken
  BY DEF PumpMakesRoom, tunnel, history
<1> QED BY <1>2, <1>4, <1>5, <1>6, <1>7, StagedKeeps

LEMMA PumpSleepsKeeps ==
    ASSUME OneClient, IInv, NEW e \in End, PumpSleeps(e)
    PROVE  IInv'
<1>1. PICK k : k = [conn[e] EXCEPT !.at = IF conn[e].m_bPaused THEN "deaf" ELSE "sleep",
                                   !.m_MessageQueue = Rest(e), !.ToDirect = Outbound(e)]
  OBVIOUS
<1>2. conn[e] \in Connections /\ conn[e].at = "round" /\ ~conn[e].bDisconnect
  BY EndTypes DEF IInv, PumpSleeps, InRound
<1>3. /\ Rest(e) \in Seq(Real) /\ Outbound(e) \in Chunk \cup {None}
  <2>1. Flowing(e) BY <1>2 DEF IInv, Flow, IsOpen
  <2> QED BY <2>1, Stage DEF IInv
<1>4. /\ k \in Connections /\ k.at \in Pumping /\ k.role = conn[e].role
      /\ k.m_MessageQueue = Rest(e) /\ k.ToDirect = Outbound(e) /\ ~k.bDisconnect
  BY <1>1, <1>2, <1>3 DEF Connections, Pumping
<1>5. Works(e, k, None) BY <1>1 DEF PumpSleeps, Works, tunnel
<1>6. /\ m_Wakeup' \subseteq Side
      /\ outside' \in [End -> [input : Nat, full : BOOLEAN, closed : BOOLEAN]]
  BY DEF PumpSleeps, tunnel, IInv, Typed
<1>7. UNCHANGED <<run, stream, partial, stop, table, why>> /\ delivered' = delivered /\ taken' = taken
  BY DEF PumpSleeps, tunnel, history
<1> QED BY <1>2, <1>4, <1>5, <1>6, <1>7, StagedKeeps

\* The outside of an end after a step of its pump.
LEMMA PumpIOOutside ==
    ASSUME OneClient, Typed, NEW e \in End, PumpIO(e)
    PROVE  outside' \in [End -> [input : Nat, full : BOOLEAN, closed : BOOLEAN]]
<1>1. outside[e] \in [input : Nat, full : BOOLEAN, closed : BOOLEAN] BY DEF Typed
<1>2. PICK i, f : outside' = [outside EXCEPT ![e].full  = outside[e].full \/ f,
                                             ![e].input = IF i THEN 0 ELSE outside[e].input]
  BY DEF PumpIO
<1>3. PICK b \in BOOLEAN, n \in Nat : /\ b = (outside[e].full \/ f)
                                      /\ n = IF i THEN 0 ELSE outside[e].input
  <2>1. (outside[e].full \/ f) \in BOOLEAN OBVIOUS
  <2>2. (IF i THEN 0 ELSE outside[e].input) \in Nat BY <1>1
  <2> QED BY <2>1, <2>2
<1>4. outside' = [outside EXCEPT ![e] = [outside[e] EXCEPT !.full = b, !.input = n]]
  BY <1>2, <1>3 DEF Typed
<1>5. [outside[e] EXCEPT !.full = b, !.input = n] \in [input : Nat, full : BOOLEAN, closed : BOOLEAN]
  BY <1>1
<1> QED BY <1>4, <1>5 DEF Typed

\* A pump's step ends the connection, or it writes and reads.
EndOfFile(e) == CanRead(e) /\ outside[e].input = 0

PumpMoves(e, k, m) ==
    /\ k = [conn[e] EXCEPT !.m_MessageQueue = Rest(e),
                           !.ToDirect = IF CanWrite(e) THEN None ELSE Outbound(e)]
    /\ m = IF CanRead(e)
           THEN [Message("Data", e) EXCEPT !.chunk = [from |-> conn[e].role, n |-> taken[e] + 1]]
           ELSE None

LEMMA PumpIOKeeps ==
    ASSUME OneClient, IInv, NEW e \in End, PumpIO(e), ~EndOfFile(e)
    PROVE  IInv'
<1>1. PICK k, m : PumpMoves(e, k, m) BY DEF PumpMoves
<1>2. conn[e] \in Connections /\ conn[e].at = "round" /\ ~conn[e].bDisconnect
  BY EndTypes DEF IInv, PumpIO, InRound
<1>3. /\ Rest(e) \in Seq(Real) /\ Outbound(e) \in Chunk \cup {None}
  <2>1. Flowing(e) BY <1>2 DEF IInv, Flow, IsOpen
  <2> QED BY <2>1, Stage DEF IInv
<1>4. /\ k \in Connections /\ k.at \in Pumping /\ k.role = conn[e].role
      /\ k.m_MessageQueue = Rest(e) /\ ~k.bDisconnect
      /\ k.ToDirect = IF CanWrite(e) THEN None ELSE Outbound(e)
  <2>1. (IF CanWrite(e) THEN None ELSE Outbound(e)) \in Chunk \cup {None} BY <1>3
  <2> QED BY <1>1, <1>2, <1>3, <2>1 DEF Connections, Pumping, PumpMoves
<1>5. taken[e] \in Nat /\ e[2] \in Channel BY Ends, EndTypes DEF IInv
<1>6. conn[e].role \in {"forward", "target"}
  <2>1. conn[e].at # "none" BY <1>2
  <2> QED BY <2>1 DEF IInv, Roles
<1>7. CanRead(e) => /\ m \in Real /\ m # None /\ m.chan = e[2] /\ m.type = "Data"
                    /\ m.chunk.from = conn[e].role /\ m.chunk.n = taken[e] + 1
  <2>1. ASSUME CanRead(e)
        PROVE  /\ m \in Real /\ m.chan = e[2] /\ m.type = "Data"
               /\ m.chunk.from = conn[e].role /\ m.chunk.n = taken[e] + 1
    <3>1. PICK x : x = [from |-> conn[e].role, n |-> taken[e] + 1] OBVIOUS
    <3>2. x \in Chunk /\ x # None BY <1>5, <1>6, <3>1, NoneAssumption DEF Chunk
    <3>3. m = [type |-> "Data", chan |-> e[2], chunk |-> x]
      BY <1>1, <2>1, <3>1 DEF PumpMoves, Message
    <3>4. m \in Sent BY <1>5, <3>2, <3>3 DEF Sent
    <3> QED BY <3>1, <3>2, <3>3, <3>4 DEF Real
  <2> QED BY <2>1, NoneAssumption DEF Real
<1>8. ~CanRead(e) => m = None BY <1>1 DEF PumpMoves
<1>9. CanRead(e) <=> CanRead(e) /\ outside[e].input > 0
  <2>1. outside[e].input \in Nat BY DEF IInv, Typed
  <2> QED BY <2>1 DEF EndOfFile
<1>10. m \in Real \cup {None} BY <1>7, <1>8
<1>11. /\ conn' = [conn EXCEPT ![e] = k]
       /\ IF CanRead(e) THEN QueueMessage(e[1], m) /\ taken' = [taken EXCEPT ![e] = @ + 1]
                        ELSE NoMessage /\ taken' = taken
       /\ UNCHANGED <<why, streams, table>>
  BY <1>1, <1>9 DEF PumpIO, PumpMoves, EndOfFile
<1>12. Works(e, k, m)
  <2>1. CASE CanRead(e) BY <1>7, <1>11, <2>1 DEF Works, QueueMessage, streams
  <2>2. CASE ~CanRead(e) BY <1>8, <1>11, <2>2 DEF Works, NoMessage, streams
  <2> QED BY <2>1, <2>2
<1>13. m_Wakeup' \subseteq Side
  BY <1>11, Ends DEF QueueMessage, NoMessage, IInv, Typed
<1>14. \/ k.ToDirect = Outbound(e) /\ delivered' = delivered
       \/ /\ k.ToDirect = None /\ Outbound(e) # None
          /\ delivered' = [delivered EXCEPT ![e] = Append(@, Outbound(e))]
  BY <1>4 DEF PumpIO, CanWrite
<1>15. taken' = IF m # None THEN [taken EXCEPT ![e] = @ + 1] ELSE taken
  BY <1>7, <1>8, <1>11
<1>16. outside' \in [End -> [input : Nat, full : BOOLEAN, closed : BOOLEAN]]
  BY PumpIOOutside DEF IInv
<1>17. UNCHANGED <<run, stream, partial, stop, table, why>> BY <1>11 DEF streams
<1>18. m # None => /\ m.chan = e[2] /\ m.type = "Data"
                   /\ m.chunk.from = conn[e].role /\ m.chunk.n = taken[e] + 1
  BY <1>7, <1>8
<1> QED BY <1>2, <1>4, <1>10, <1>12, <1>13, <1>14, <1>15, <1>16, <1>17, <1>18, StagedKeeps

\* A turn that ends the connection, with or without a last write.
LEMMA FinishKeeps ==
    ASSUME OneClient, IInv, NEW e \in End, IsOpen(e), conn[e].at # "connect",
           NEW reason \in {"outside", "timeout", "unreachable", "peer"}, Finish(e, reason),
           UNCHANGED <<streams, table, taken>>,
           outside' \in [End -> [input : Nat, full : BOOLEAN, closed : BOOLEAN]],
           \/ delivered' = delivered
           \/ /\ Outbound(e) # None
              /\ delivered' = [delivered EXCEPT ![e] = Append(@, Outbound(e))]
    PROVE  IInv'
<1>1. PICK k, m : /\ k = [conn[e] EXCEPT !.at = "ended", !.m_MessageQueue = <<>>, !.ToDirect = None]
                  /\ m = Message("Disconnect", e)
  OBVIOUS
<1>2. m \in Real /\ m # None /\ m.type = "Disconnect" /\ m.chan = e[2] BY <1>1, Messages
<1>3. Typed /\ Flow /\ Pipes /\ conn[e] \in Connections BY EndTypes DEF IInv
<1>4. Flowing(e) BY <1>3 DEF Flow
<1>5. /\ k \in Connections /\ k.at = "ended" /\ k.role = conn[e].role
      /\ k.m_MessageQueue = <<>> /\ k.bDisconnect = conn[e].bDisconnect
  <2>1. <<>> \in Seq(Real) BY EmptySeq
  <2> QED BY <1>1, <1>3, <2>1 DEF Connections, Closed
<1>6. Works(e, k, m) BY <1>1, <1>2 DEF Finish, QueueMessage, Works, streams
<1>7. Pipes' /\ delivered' \in [End -> Seq(Chunk)]
  <2>1. CASE delivered' = delivered BY <1>3, <2>1, PipesSame DEF Typed
  <2>2. CASE /\ Outbound(e) # None
             /\ delivered' = [delivered EXCEPT ![e] = Append(@, Outbound(e))]
    BY <1>3, <1>4, <2>2, PipesMore
  <2> QED BY <2>1, <2>2
<1>8. Typed'
  <2>1. k.m_MessageQueue \in Seq(Held(e)) BY <1>5, EmptySeq
  <2>2. m_Wakeup' \subseteq Side BY <1>3, Ends DEF Finish, QueueMessage, Typed
  <2>3. why' \in [End -> {"none", "outside", "timeout", "unreachable", "peer"}]
    BY <1>3 DEF Finish, Typed
  <2>4. /\ m_Connections' \subseteq m_Connections /\ UNCHANGED <<run, stream, partial, stop, m_iConnection>>
        /\ taken' \in [End -> Nat]
    BY <1>3 DEF Typed, table, streams
  <2> QED BY <1>2, <1>3, <1>5, <1>6, <1>7, <2>1, <2>2, <2>3, <2>4, WorksTyped
<1>9. Quitting(Incoming(e)', e[2]) => Quitting(Incoming(e), e[2])
  <2>1. Way(Other(e[1])) \in Seq(Real) BY <1>3, Ends, Others, Ways
  <2>2. Incoming(e)' = k.m_MessageQueue \o Way(Other(e[1])) BY <1>2, <1>3, <1>6, OwnIncoming
  <2>3. Incoming(e)' = Way(Other(e[1])) BY <1>5, <2>1, <2>2, ConcatEmptySeq
  <2>4. conn[e].m_MessageQueue \in Seq(Real) BY <1>3, EndTypes
  <2> QED BY <2>1, <2>3, <2>4, SuffixQuits DEF Incoming
<1>10. \A d \in End \ {e} : delivered'[d] = delivered[d] /\ why'[d] = why[d]
  BY <1>3 DEF Finish, Typed
<1>11. Turn(e, k, m)
  <2>1. conn[e].at \notin {"none", "done"} BY DEF IsOpen
  <2>2. m_iConnection' = m_iConnection /\ m_Connections' = m_Connections /\ taken' = taken
    BY DEF table
  <2>3. k.at \in Closed /\ k.at \notin Pumping BY <1>5 DEF Closed, Pumping
  <2> QED BY <1>2, <1>5, <1>6, <1>9, <1>10, <2>1, <2>2, <2>3 DEF Turn
<1>12. k.at \notin Pumping BY <1>5 DEF Pumping
<1> QED BY <1>2, <1>7, <1>8, <1>11, <1>12, TurnKeeps

LEMMA PumpEndsKeeps ==
    ASSUME OneClient, IInv, NEW e \in End,
           PumpQuits(e) \/ PumpLost(e) \/ PumpTimesOut(e) \/ (PumpIO(e) /\ EndOfFile(e))
    PROVE  IInv'
<1>1. outside \in [End -> [input : Nat, full : BOOLEAN, closed : BOOLEAN]] /\ Typed
  BY DEF IInv, Typed
<1>2. CASE PumpQuits(e)
  <2>1. Finish(e, "peer") /\ UNCHANGED <<streams, table, outside, taken, delivered>>
    BY <1>2 DEF PumpQuits
  <2>2. IsOpen(e) /\ conn[e].at # "connect" BY <1>2 DEF PumpQuits, IsOpen
  <2> QED BY <1>1, <2>1, <2>2, FinishKeeps
<1>3. CASE PumpLost(e)
  <2>1. Finish(e, "outside") /\ UNCHANGED <<streams, table, outside, taken, delivered>>
    BY <1>3 DEF PumpLost
  <2>2. IsOpen(e) /\ conn[e].at # "connect" BY <1>3 DEF PumpLost, IsOpen, InRound, Asleep
  <2> QED BY <1>1, <2>1, <2>2, FinishKeeps
<1>4. CASE PumpTimesOut(e)
  <2>1. Finish(e, "timeout") /\ UNCHANGED <<streams, table, outside, taken, delivered>>
    BY <1>4 DEF PumpTimesOut
  <2>2. IsOpen(e) /\ conn[e].at # "connect" BY <1>4 DEF PumpTimesOut, IsOpen, Asleep
  <2> QED BY <1>1, <2>1, <2>2, FinishKeeps
<1>5. CASE PumpIO(e) /\ EndOfFile(e)
  <2>1. Finish(e, "outside") /\ UNCHANGED <<streams, table, taken>>
    BY <1>5 DEF PumpIO, EndOfFile
  <2>2. IsOpen(e) /\ conn[e].at # "connect" BY <1>5 DEF PumpIO, IsOpen, InRound
  <2>3. \/ delivered' = delivered
        \/ /\ Outbound(e) # None
           /\ delivered' = [delivered EXCEPT ![e] = Append(@, Outbound(e))]
    BY <1>5 DEF PumpIO, CanWrite
  <2>4. outside' \in [End -> [input : Nat, full : BOOLEAN, closed : BOOLEAN]]
    BY <1>1, <1>5, PumpIOOutside
  <2> QED BY <2>1, <2>2, <2>3, <2>4, FinishKeeps
<1> QED BY <1>2, <1>3, <1>4, <1>5

LEMMA ConnectToTargetKeeps ==
    ASSUME OneClient, IInv, NEW e \in End, ConnectToTarget(e)
    PROVE  IInv'
<1>1. Typed /\ Pipes /\ conn[e] \in Connections /\ conn[e].at = "connecting"
  BY EndTypes DEF IInv, ConnectToTarget
<1>2. IsOpen(e) BY <1>1 DEF IsOpen
<1>3. PICK k : conn' = [conn EXCEPT ![e] = k] /\
        \/ k = [conn[e] EXCEPT !.at = "round"] /\ why' = why
        \/ k = [conn[e] EXCEPT !.at = "ended"] /\ why' = [why EXCEPT ![e] = "unreachable"]
  BY DEF ConnectToTarget
<1>4. /\ k \in Connections /\ k.role = conn[e].role /\ k.at \in {"round", "ended"}
      /\ k.m_MessageQueue = conn[e].m_MessageQueue /\ k.ToDirect = conn[e].ToDirect
      /\ k.bDisconnect = conn[e].bDisconnect
  BY <1>1, <1>3 DEF Connections, Pumping, Closed
<1>5. /\ delivered' = delivered /\ taken' = taken /\ outside' = outside
      /\ m_Wakeup' = m_Wakeup
      /\ UNCHANGED <<run, stream, partial, stop, table>>
  BY DEF ConnectToTarget, tunnel
<1>6. Works(e, k, None) BY <1>3 DEF ConnectToTarget, Works, tunnel
<1>7. CASE k = [conn[e] EXCEPT !.at = "round"] /\ why' = why
  <2>1. k.at \in Pumping BY <1>1, <1>7 DEF Pumping, Connections
  <2>2. UNCHANGED <<run, stream, partial, stop, table, outside, history>> BY <1>5, <1>7 DEF history
  <2>3. m_Wakeup' \subseteq Side BY <1>1, <1>5 DEF Typed
  <2> QED BY <1>1, <1>2, <1>4, <1>6, <2>1, <2>2, <2>3, SameKeeps
<1>8. CASE k = [conn[e] EXCEPT !.at = "ended"] /\ why' = [why EXCEPT ![e] = "unreachable"]
  <2>1. k.at = "ended" BY <1>1, <1>8 DEF Connections
  <2>2. Typed'
    <3>1. k.m_MessageQueue \in Seq(Held(e)) BY <1>1, <1>4, EndTypes
    <3>2. why' \in [End -> {"none", "outside", "timeout", "unreachable", "peer"}]
      BY <1>1, <1>8 DEF Typed
    <3>3. /\ m_Connections' \subseteq m_Connections /\ UNCHANGED <<run, stream, partial, stop, m_iConnection>>
          /\ taken' \in [End -> Nat] /\ delivered' \in [End -> Seq(Chunk)]
          /\ m_Wakeup' \subseteq Side
          /\ outside' \in [End -> [input : Nat, full : BOOLEAN, closed : BOOLEAN]]
      BY <1>1, <1>5 DEF Typed, table
    <3> QED BY <1>1, <1>4, <1>6, <3>1, <3>2, <3>3, WorksTyped
  <2>3. Pipes' BY <1>1, <1>5, PipesSame
  <2>4. Incoming(e)' = Incoming(e) BY <1>1, <1>4, <1>6, OwnIncoming DEF Incoming
  <2>5. \A d \in End \ {e} : delivered'[d] = delivered[d] /\ why'[d] = why[d]
    BY <1>1, <1>5, <1>8 DEF Typed
  <2>6. k.at \in Closed /\ k.at \notin Pumping BY <2>1 DEF Closed, Pumping
  <2>7. Turn(e, k, None)
    <3>1. m_iConnection' = m_iConnection /\ m_Connections' = m_Connections BY <1>5 DEF table
    <3> QED BY <1>1, <1>4, <1>5, <1>6, <2>1, <2>4, <2>5, <2>6, <3>1 DEF Turn
  <2> QED BY <2>2, <2>3, <2>6, <2>7, TurnKeeps
<1> QED BY <1>3, <1>7, <1>8

LEMMA RemoveKeeps ==
    ASSUME OneClient, IInv, NEW e \in End, Remove(e)
    PROVE  IInv'
<1>1. Typed /\ Pipes /\ Roles /\ conn[e] \in Connections /\ conn[e].at = "ended"
  BY EndTypes DEF IInv, Remove
<1>2. PICK k : k = Connection(conn[e].role, "done") OBVIOUS
<1>3. /\ k \in Connections /\ k.role = conn[e].role /\ k.at = "done"
      /\ k.m_MessageQueue = <<>> /\ ~k.bDisconnect
  <2>1. <<>> \in Seq(Real) BY EmptySeq
  <2> QED BY <1>1, <1>2, <2>1 DEF Connections, Connection, Closed
<1>4. /\ delivered' = delivered /\ taken' = taken /\ outside' = outside /\ why' = why
      /\ m_Wakeup' = m_Wakeup /\ m_Connections' = m_Connections \ {e}
      /\ UNCHANGED <<run, stream, partial, stop, m_iConnection>>
  BY DEF Remove, tunnel, history
<1>5. Works(e, k, None) BY <1>2 DEF Remove, Works, tunnel
<1>6. Typed'
  <2>1. k.m_MessageQueue \in Seq(Held(e)) BY <1>3, EmptySeq
  <2>2. /\ m_Connections' \subseteq m_Connections
        /\ taken' \in [End -> Nat] /\ delivered' \in [End -> Seq(Chunk)]
        /\ m_Wakeup' \subseteq Side
        /\ outside' \in [End -> [input : Nat, full : BOOLEAN, closed : BOOLEAN]]
        /\ why' \in [End -> {"none", "outside", "timeout", "unreachable", "peer"}]
    BY <1>1, <1>4 DEF Typed
  <2> QED BY <1>1, <1>3, <1>4, <1>5, <2>1, <2>2, WorksTyped
<1>7. Pipes' BY <1>1, <1>4, PipesSame
<1>8. Quitting(Incoming(e)', e[2]) => Quitting(Incoming(e), e[2])
  <2>1. Way(Other(e[1])) \in Seq(Real) BY <1>1, Ends, Others, Ways
  <2>2. Incoming(e)' = k.m_MessageQueue \o Way(Other(e[1])) BY <1>1, <1>5, OwnIncoming
  <2>3. Incoming(e)' = Way(Other(e[1])) BY <1>3, <2>1, <2>2, ConcatEmptySeq
  <2>4. conn[e].m_MessageQueue \in Seq(Real) BY <1>1, EndTypes
  <2> QED BY <2>1, <2>3, <2>4, SuffixQuits DEF Incoming
<1>9. k.at \in Closed /\ k.at \notin Pumping BY <1>3 DEF Closed, Pumping
<1>10. Turn(e, k, None) BY <1>1, <1>3, <1>4, <1>5, <1>8, <1>9 DEF Turn
<1> QED BY <1>6, <1>7, <1>9, <1>10, TurnKeeps

LEMMA PumpKeeps ==
    ASSUME OneClient, IInv, NEW e \in End, Pump(e) \/ PumpLost(e) \/ PumpTimesOut(e)
    PROVE  IInv'
BY ConnectAsksKeeps, ConnectToTargetKeeps, PumpMakesRoomKeeps, PumpResumeKeeps, PumpEndsKeeps,
   PumpIOKeeps, PumpSleepsKeeps, PumpWakesKeeps, RemoveKeeps DEF Pump

-----------------------------------------------------------------------------
\* Steps that leave the connections alone

LEMMA QuietKeeps ==
    ASSUME OneClient, IInv, Typed', \A s \in Side : Way(s)' = Way(s),
           UNCHANGED <<conn, taken, delivered, why, m_Connections, m_iConnection>>
    PROVE  IInv'
<1>1. Way(Client)' = Way(Client) /\ Way(Server)' = Way(Server) BY Sides
<1>2. \A e \in End : /\ Incoming(e)' = Incoming(e) /\ Reached(e)' = Reached(e)
                     /\ Peer(e) \in End /\ e[1] \in Side /\ Other(e[1]) \in Side
  BY Ends, Others DEF Incoming, Reached
<1>3. \A e \in End : /\ Way(e[1])' = Way(e[1]) /\ Way(Other(e[1]))' = Way(Other(e[1]))
                     /\ (IsOpen(e)' <=> IsOpen(e)) /\ (IsOpen(Peer(e))' <=> IsOpen(Peer(e)))
  BY <1>2 DEF IsOpen
<1>4. Roles' BY DEF IInv, Roles, Connection
<1>5. Talk' BY <1>1 DEF IInv, Talk
<1>6. Gone' BY <1>2, <1>3 DEF IInv, Gone
<1>7. \A e \in End : Flowing(e) => Flowing(e)' BY <1>2 DEF Flowing, From
<1>8. Flow' BY <1>2, <1>3, <1>7 DEF IInv, Flow
<1>9. Pipes' BY DEF IInv, Pipes, From
<1> QED BY <1>4, <1>5, <1>6, <1>8, <1>9 DEF IInv

LEMMA RunSendKeeps ==
    ASSUME OneClient, IInv, NEW s \in Side, RunSend(s)
    PROVE  IInv'
<1>1. Typed BY DEF IInv
<1>2. PICK w, q : w = wire[s] /\ q = m_OutQueue[s] OBVIOUS
<1>3. w \in Seq(Real) /\ q \in Seq(Real) /\ q # <<>> BY <1>1, <1>2, Ways DEF RunSend, CanSend
<1>4. PICK h, t : h = Head(q) /\ t = Tail(q) OBVIOUS
<1>5. h \in Real /\ t \in Seq(Real) BY <1>3, <1>4, HeadTailProperties
<1>6. q = <<h>> \o t BY <1>3, <1>4, HeadTailProperties
<1>7. Append(w, h) = w \o <<h>> BY <1>3, <1>5, AppendIsConcat
<1>8. <<h>> \in Seq(Real) BY <1>5
<1>9. Append(w, h) \o t = w \o q BY <1>3, <1>5, <1>6, <1>7, <1>8, ConcatAssociative
<1>10. Append(w, h) \in Seq(Real) BY <1>3, <1>5, AppendProperties
<1>11. /\ wire' = [wire EXCEPT ![s] = Append(w, h)] /\ m_OutQueue' = [m_OutQueue EXCEPT ![s] = t]
       /\ UNCHANGED <<m_Wakeup, stream, stop, table, conn, outside, history>>
  BY <1>2, <1>4 DEF RunSend
<1>12. \A r \in Side : Way(r)' = Way(r)
  <2>1. ASSUME NEW r \in Side PROVE Way(r)' = Way(r)
    <3>1. CASE r = s
      <4>1. wire'[s] = Append(w, h) /\ m_OutQueue'[s] = t BY <1>1, <1>11 DEF Typed
      <4> QED BY <1>2, <1>9, <3>1, <4>1 DEF Way
    <3>2. CASE r # s
      <4>1. wire'[r] = wire[r] /\ m_OutQueue'[r] = m_OutQueue[r] BY <1>1, <1>11, <3>2 DEF Typed
      <4> QED BY <4>1 DEF Way
    <3> QED BY <3>1, <3>2
  <2> QED BY <2>1
<1>13. Typed'
  <2>1. \A e \in End : Held(e)' = Held(e) BY DEF Held, Real, Sent
  <2>2. run' \in [Side -> Stations] /\ partial' \subseteq Side
    BY <1>1 DEF RunSend, Goto, Stations, Typed
  <2> QED BY <1>1, <1>5, <1>10, <1>11, <2>1, <2>2 DEF Typed, table, history
<1>14. UNCHANGED <<conn, taken, delivered, why, m_Connections, m_iConnection>>
  BY <1>11 DEF table, history
<1> QED BY <1>12, <1>13, <1>14, QuietKeeps

LEMMA OtherRunKeeps ==
    ASSUME OneClient, IInv, NEW s \in Side,
           \/ RunHasSent(s) \/ RunReads(s) \/ RunSleeps(s) \/ RunWakes(s) \/ RunEnds(s)
           \/ RunTimesOut(s) \/ RunThrows(s) \/ Stop(s) \/ StopCloses(s)
    PROVE  IInv'
<1>1. Typed BY DEF IInv
<1>2. /\ UNCHANGED <<m_OutQueue, wire, table, conn, outside, history>>
      /\ stream' \subseteq stream /\ m_Wakeup' \subseteq m_Wakeup \cup {s}
      /\ partial' \subseteq partial /\ stop' \subseteq stop \cup {s}
      /\ run' = run \/ \E where \in Stations : Goto(s, where)
  BY DEF RunHasSent, RunReads, RunSleeps, RunWakes, RunEnds, RunTimesOut, RunThrows, Stop,
         StopCloses, Leave, Stations
<1>3. run' \in [Side -> Stations] BY <1>1, <1>2 DEF Goto, Typed
<1>4. Typed'
  <2>1. \A e \in End : Held(e)' = Held(e) BY DEF Held, Real, Sent
  <2> QED BY <1>1, <1>2, <1>3, <2>1 DEF Typed, table, history
<1>5. \A r \in Side : Way(r)' = Way(r) BY <1>2 DEF Way
<1> QED BY <1>2, <1>4, <1>5, QuietKeeps DEF table, history

LEMMA OutsideKeeps ==
    ASSUME OneClient, IInv, NEW e \in End, OutsideSends(e) \/ OutsideReads(e) \/ OutsideCloses(e)
    PROVE  IInv'
<1>1. Typed BY DEF IInv
<1>2. UNCHANGED <<tunnel, table, conn, history>>
  BY DEF OutsideSends, OutsideReads, OutsideCloses
<1>3. outside' \in [End -> [input : Nat, full : BOOLEAN, closed : BOOLEAN]]
  <2>1. outside[e] \in [input : Nat, full : BOOLEAN, closed : BOOLEAN] BY <1>1 DEF Typed
  <2>2. PICK o \in [input : Nat, full : BOOLEAN, closed : BOOLEAN] : outside' = [outside EXCEPT ![e] = o]
    BY <2>1 DEF OutsideSends, OutsideReads, OutsideCloses
  <2> QED BY <1>1, <2>2 DEF Typed
<1>4. Typed'
  <2>1. \A d \in End : Held(d)' = Held(d) BY DEF Held, Real, Sent
  <2> QED BY <1>1, <1>2, <1>3, <2>1 DEF Typed, tunnel, table, history
<1>5. \A r \in Side : Way(r)' = Way(r) BY <1>2 DEF Way, tunnel
<1> QED BY <1>2, <1>4, <1>5, QuietKeeps DEF table, history

LEMMA StutterKeeps ==
    ASSUME OneClient, IInv, UNCHANGED vars
    PROVE  IInv'
<1>1. Typed'
  <2>1. \A d \in End : Held(d)' = Held(d) BY DEF Held, Real, Sent
  <2> QED BY <2>1 DEF IInv, Typed, vars, tunnel, table, history
<1>2. \A r \in Side : Way(r)' = Way(r) BY DEF Way, vars, tunnel
<1>3. UNCHANGED <<conn, taken, delivered, why, m_Connections, m_iConnection>>
  BY DEF vars, table, history
<1> QED BY <1>1, <1>2, <1>3, QuietKeeps

-----------------------------------------------------------------------------
\* A connection is begun

LEMMA CreateTyped ==
    ASSUME OneClient, Typed, NEW e \in End, NEW role \in {"forward", "target"},
           NEW at \in {"connect", "connecting"}, Create(e, role, at)
    PROVE  /\ Connection(role, at) \in Connections
           /\ conn' \in [End -> Connections] /\ m_Connections' \subseteq End
           /\ \A d \in End : conn'[d].m_MessageQueue \in Seq(Held(d))
           /\ outside' \in [End -> [input : Nat, full : BOOLEAN, closed : BOOLEAN]]
           /\ taken' \in [End -> Nat] /\ delivered' \in [End -> Seq(Chunk)]
           /\ why' \in [End -> {"none", "outside", "timeout", "unreachable", "peer"}]
<1>1. Connection(role, at) \in Connections BY DEF Connection, Connections
<1>2. Connection(role, at).m_MessageQueue = <<>> BY DEF Connection
<1>3. Quiet \in [input : Nat, full : BOOLEAN, closed : BOOLEAN] BY DEF Quiet
<1>4. conn' = [conn EXCEPT ![e] = Connection(role, at)] BY DEF Create
<1>5. conn' \in [End -> Connections] BY <1>1, <1>4 DEF Typed
<1>6. \A d \in End : conn'[d].m_MessageQueue \in Seq(Held(d))
  <2>1. \A d \in End : conn[d].m_MessageQueue \in Seq(Held(d)) BY DEF Typed
  <2>2. \A d \in End : conn'[d] = IF d = e THEN Connection(role, at) ELSE conn[d]
    BY <1>4 DEF Typed
  <2>3. \A d \in End : <<>> \in Seq(Held(d)) BY EmptySeq
  <2> QED BY <1>2, <2>1, <2>2, <2>3
<1>7. outside' \in [End -> [input : Nat, full : BOOLEAN, closed : BOOLEAN]]
  BY <1>3 DEF Typed, Create
<1>8. /\ taken' \in [End -> Nat] /\ delivered' \in [End -> Seq(Chunk)]
      /\ why' \in [End -> {"none", "outside", "timeout", "unreachable", "peer"}]
      /\ m_Connections' \subseteq End
  BY DEF Typed, Create
<1> QED BY <1>1, <1>5, <1>6, <1>7, <1>8

LEMMA Smallest ==
    ASSUME NEW T, T \subseteq Nat, T # {}
    PROVE  \E n \in T : \A m \in T : n <= m
<1> DEFINE R == {p \in Nat \X Nat : p[1] < p[2]}
<1>1. IsWellFoundedOn(R, Nat) BY NatLessThanWellFounded DEF OpToRel
<1> HIDE DEF R
<1>2. PICK n \in T : \A y \in T : ~(<<y, n>> \in R) BY <1>1, WFMin
<1>3. \A y \in T : ~(y < n) BY <1>2 DEF R
<1> QED BY <1>2, <1>3

\* the end of a channel that Connect() takes was never used
LEMMA ConnectTakes ==
    ASSUME OneClient, Typed, Roles, NEW s \in Side, Connect(s)
    PROVE  \E c \in Channel :
             /\ s = Client /\ c > m_iConnection[Client] /\ conn[<<Client, c>>].at = "none"
             /\ m_iConnection' = [m_iConnection EXCEPT ![Client] = c]
             /\ Create(<<Client, c>>, "forward", "connect") /\ UNCHANGED tunnel
<1>1. s = Client BY Sides DEF Connect
<1>2. PICK free : free = {c \in Channel : c > m_iConnection[s] /\ <<s, c>> \notin m_Connections}
  OBVIOUS
<1>3. PICK c : c = CHOOSE x \in free : \A y \in free : x <= y OBVIOUS
<1>4. /\ free # {} /\ m_iConnection' = [m_iConnection EXCEPT ![s] = c]
      /\ Create(<<s, c>>, "forward", "connect") /\ UNCHANGED tunnel
  BY <1>2, <1>3 DEF Connect
<1>5. \E x \in free : \A y \in free : x <= y
  <2>1. free \subseteq Nat /\ free # {}
    <3>1. Channel \subseteq Nat BY DEF Channel
    <3>2. free \subseteq Channel BY <1>2
    <3> QED BY <1>4, <3>1, <3>2
  <2>2. PICK n \in free : \A y \in free : n <= y BY <2>1, Smallest
  <2> QED BY <2>2
<1>6. c \in free BY <1>3, <1>5
<1>7. c \in Channel /\ c > m_iConnection[Client] /\ <<s, c>> \notin m_Connections BY <1>1, <1>2, <1>6
<1>8. <<Client, c>> \in End BY <1>7, Channels
<1>9. conn[<<Client, c>>].at = "none"
  <2>1. conn[<<Client, c>>].at # "none" => c <= m_iConnection[Client]
    BY <1>8 DEF Roles
  <2>2. m_iConnection[Client] \in Nat /\ c \in Nat
    BY <1>7, Sides DEF Typed, Channel
  <2> QED BY <1>7, <2>1, <2>2
<1> QED BY <1>1, <1>4, <1>7, <1>9

LEMMA ConnectKeeps ==
    ASSUME OneClient, IInv, NEW s \in Side, Connect(s)
    PROVE  IInv'
<1>1. Typed /\ Roles /\ Talk /\ Gone /\ Flow /\ Pipes BY DEF IInv
<1>2. PICK c \in Channel :
        /\ s = Client /\ c > m_iConnection[Client] /\ conn[<<Client, c>>].at = "none"
        /\ m_iConnection' = [m_iConnection EXCEPT ![Client] = c]
        /\ Create(<<Client, c>>, "forward", "connect") /\ UNCHANGED tunnel
  BY <1>1, ConnectTakes
<1>3. PICK e, d : e = <<Client, c>> /\ d = <<Server, c>> OBVIOUS
<1>4. /\ e \in End /\ d \in End /\ e # d /\ Peer(e) = d /\ Peer(d) = e
      /\ e[1] = Client /\ d[1] = Server /\ e[2] = c /\ d[2] = c
      /\ Other(e[1]) = Server /\ Other(d[1]) = Client
      /\ Client \in Side /\ Server \in Side /\ Client # Server
  BY <1>3, Channels, Sides
<1>5. PICK k : k = Connection("forward", "connect") OBVIOUS
<1>6. /\ conn' = [conn EXCEPT ![e] = k] /\ m_Connections' = m_Connections \cup {e}
      /\ taken' = [taken EXCEPT ![e] = 0] /\ delivered' = [delivered EXCEPT ![e] = <<>>]
      /\ why' = [why EXCEPT ![e] = "none"]
      /\ Create(e, "forward", "connect")
      /\ UNCHANGED <<m_OutQueue, wire, partial, m_Wakeup, run, stream, stop>>
  BY <1>2, <1>3, <1>5 DEF Create, tunnel
<1>7. Typed'
  <2>1. \A x \in End : Held(x)' = Held(x) BY DEF Held, Real, Sent
  <2>2. m_iConnection' \in [Side -> 0 .. MaxChannel] BY <1>1, <1>2 DEF Typed, Channel
  <2> QED BY <1>1, <1>4, <1>6, <2>1, <2>2, CreateTyped DEF Typed
<1>8. conn'[e] = k /\ \A x \in End \ {e} : conn'[x] = conn[x] BY <1>1, <1>4, <1>6 DEF Typed
<1>9. taken' = taken /\ delivered' = delivered /\ why' = why
  <2>1. taken[e] = 0 /\ delivered[e] = <<>> /\ why[e] = "none"
    BY <1>1, <1>2, <1>3, <1>4 DEF Roles
  <2> QED BY <1>1, <1>4, <1>6, <2>1 DEF Typed
<1>10. \A r \in Side : Way(r)' = Way(r) BY <1>6 DEF Way
<1>11. /\ ~Says(Way(Client), c) /\ ~Says(Way(Server), c) /\ conn[d].at = "none"
       /\ ~Asks(Way(Client), c) /\ ~Asks(Way(Server), c)
  BY <1>1, <1>2, <1>3 DEF Talk, Says, Asks, IsAsk
<1>12. Roles'
  <2>1. SUFFICES ASSUME NEW x \in End
        PROVE /\ conn'[x].at = "none" => /\ conn'[x] = Connection("none", "none") /\ why'[x] = "none"
                                /\ taken'[x] = 0 /\ delivered'[x] = <<>>
              /\ conn'[x].at # "none" => conn'[x].role = IF x[1] = Client THEN "forward" ELSE "target"
              /\ conn'[x].at = "connecting" => x[1] = Server
              /\ conn'[x].at = "connect" => /\ x[1] = Client /\ conn'[x].m_MessageQueue = <<>>
                                   /\ ~conn'[x].bDisconnect /\ taken'[x] = 0
              /\ x \in m_Connections' <=> conn'[x].at \notin {"none", "done"}
              /\ x[1] = Client /\ conn'[x].at # "none" => x[2] <= m_iConnection'[Client]
    BY DEF Roles, Connection
  <2>2. m_iConnection'[Client] = c /\ c \in Nat /\ m_iConnection[Client] \in Nat
    BY <1>1, <1>2, <1>4 DEF Typed, Channel
  <2>3. CASE x = e
    <3>1. taken'[e] = 0 BY <1>1, <1>4, <1>6 DEF Typed
    <3> QED BY <1>4, <1>5, <1>6, <1>8, <2>2, <2>3, <3>1 DEF Connection
  <2>4. CASE x # e
    <3>1. conn'[x] = conn[x] /\ (x \in m_Connections' <=> x \in m_Connections)
      BY <1>6, <1>8, <2>4
    <3>2. x[2] \in Nat BY Ends DEF Channel
    <3>3. x[2] <= m_iConnection[Client] => x[2] <= m_iConnection'[Client] BY <1>2, <2>2, <3>2
    <3> QED BY <1>1, <1>9, <2>4, <3>1, <3>3 DEF Roles
  <2> QED BY <2>3, <2>4
<1>13. Talk'
  <2>1. Way(Client)' = Way(Client) /\ Way(Server)' = Way(Server) BY <1>4, <1>10
  <2>2. ASSUME NEW x \in Channel
        PROVE  /\ Says(Way(Client)', x) \/ Says(Way(Server)', x) \/ conn'[<<Server, x>>].at # "none" =>
                    conn'[<<Client, x>>].at \notin {"none", "connect"}
               /\ Says(Way(Server)', x) \/ conn'[<<Server, x>>].at # "none" => ~Asks(Way(Client)', x)
               /\ ~Asks(Way(Server)', x) /\ AskedFirst(Way(Client)', x)
    <3>1. <<Server, x>> \in End /\ <<Client, x>> \in End /\ <<Server, x>> # e BY <1>4, Channels
    <3>2. conn'[<<Server, x>>] = conn[<<Server, x>>] BY <1>8, <3>1
    <3>3. CASE x = c BY <1>1, <1>3, <1>11, <2>1, <3>2, <3>3 DEF Talk
    <3>4. CASE x # c
      <4>1. <<Client, x>> # e BY <1>3, <3>4
      <4>2. conn'[<<Client, x>>] = conn[<<Client, x>>] BY <1>8, <3>1, <4>1
      <4> QED BY <1>1, <2>1, <3>2, <4>2 DEF Talk
    <3> QED BY <3>3, <3>4
  <2> QED BY <2>2 DEF Talk
<1>14. /\ Incoming(e)' = Way(Server) /\ Incoming(d)' = Way(Client)
       /\ Way(Server) \in Seq(Real) /\ Way(Client) \in Seq(Real)
  <2>1. conn'[e].m_MessageQueue = <<>> BY <1>5, <1>8 DEF Connection
  <2>2. conn'[d].m_MessageQueue = <<>> BY <1>1, <1>4, <1>8, <1>11 DEF Roles, Connection
  <2>3. Way(Server) \in Seq(Real) /\ Way(Client) \in Seq(Real) BY <1>1, <1>4, Ways
  <2>4. Way(Server)' = Way(Server) /\ Way(Client)' = Way(Client) BY <1>4, <1>10
  <2> QED BY <1>4, <2>1, <2>2, <2>3, <2>4, ConcatEmptySeq DEF Incoming
<1>15. \A x \in End \ {e} : Incoming(x)' = Incoming(x) /\ (IsOpen(x)' <=> IsOpen(x))
  <2>1. \A x \in End : Other(x[1]) \in Side BY Ends, Others
  <2> QED BY <1>8, <1>10, <2>1 DEF Incoming, IsOpen
<1>16. Gone'
  <2>1. SUFFICES ASSUME NEW x \in End, Quitting(Incoming(x)', x[2]) \/ conn'[x].bDisconnect
                 PROVE  ~IsOpen(Peer(x))' /\ ~Asks(Way(x[1])', x[2])
    BY DEF Gone
  <2>2. x # e
    <3>1. ~Quitting(Way(Server), c) BY <1>11 DEF Quitting, Says, IsQuit
    <3>2. ~conn'[e].bDisconnect BY <1>5, <1>8 DEF Connection
    <3> QED BY <1>4, <1>14, <2>1, <3>1, <3>2
  <2>3. x # d
    <3>1. ~Quitting(Way(Client), c) BY <1>11 DEF Quitting, Says, IsQuit
    <3>2. ~conn'[d].bDisconnect BY <1>1, <1>4, <1>8, <1>11 DEF Roles, Connection
    <3> QED BY <1>4, <1>14, <2>1, <3>1, <3>2
  <2>4. Peer(x) \in End /\ Peer(x) # e /\ x[1] \in Side BY <1>4, <2>3, Ends
  <2>5. Quitting(Incoming(x), x[2]) \/ conn[x].bDisconnect BY <1>8, <1>15, <2>1, <2>2
  <2>6. ~IsOpen(Peer(x)) /\ ~Asks(Way(x[1]), x[2]) BY <1>1, <2>5 DEF Gone
  <2> QED BY <1>10, <1>15, <2>4, <2>6
<1>17. Flow'
  <2>1. SUFFICES ASSUME NEW x \in End, IsOpen(x)' \/ Asks(Way(Other(x[1]))', x[2])
                 PROVE  Flowing(x)'
    BY DEF Flow
  <2>2. CASE x = e
    <3>1. Reached(e)' = 0 /\ conn'[e].ToDirect = None /\ ~conn'[e].bDisconnect
      <4>1. conn'[e].ToDirect = None /\ ~conn'[e].bDisconnect BY <1>5, <1>8 DEF Connection
      <4>2. delivered'[e] = <<>> BY <1>1, <1>4, <1>6 DEF Typed
      <4> QED BY <4>1, <4>2 DEF Reached
    <3>2. taken'[d] = 0 BY <1>1, <1>4, <1>9, <1>11 DEF Roles
    <3>3. NoData(Way(Server), c) BY <1>11 DEF NoData, Says, IsData
    <3>4. InOrder(Way(Server), c, From(e), 0, 0) BY <3>3, NothingSent
    <3> QED BY <1>4, <1>14, <2>2, <3>1, <3>2, <3>4 DEF Flowing, From
  <2>3. CASE x # e
    <3>1. conn'[x] = conn[x] /\ Incoming(x)' = Incoming(x) /\ (IsOpen(x)' <=> IsOpen(x))
      BY <1>8, <1>15, <2>3
    <3>2. Other(x[1]) \in Side BY Ends, Others
    <3>3. Flowing(x) BY <1>1, <1>10, <2>1, <3>1, <3>2 DEF Flow
    <3> QED BY <1>1, <1>7, <1>9, <3>1, <3>3 DEF Flowing, From, Reached
  <2> QED BY <2>2, <2>3
<1>18. Pipes' BY <1>1, <1>9, PipesSame
<1> QED BY <1>7, <1>12, <1>13, <1>16, <1>17, <1>18 DEF IInv

-----------------------------------------------------------------------------
\* A message is handled: e has k now, and a was answered, or nothing (None).

Heard(e, m, k, a) ==
    /\ m \in Real /\ m.chan = e[2]
    /\ wire[Other(e[1])] # <<>> /\ m = Head(wire[Other(e[1])])
    /\ wire' = [wire EXCEPT ![Other(e[1])] = Tail(@)]
    /\ m_OutQueue' = IF a = None THEN m_OutQueue
                                 ELSE [m_OutQueue EXCEPT ![e[1]] = Append(@, a)]
    /\ conn' = [conn EXCEPT ![e] = k]
    /\ a # None => /\ a \in Real /\ a.chan = e[2]
                   /\ \/ a.type = "Pause"
                      \/ a.type = "Disconnect" /\ k.at \in {"none", "done"}
    /\ \/ k.m_MessageQueue = Append(conn[e].m_MessageQueue, m)
       \/ /\ k.m_MessageQueue = conn[e].m_MessageQueue
          /\ m.type # "Data" \/ conn[e].at \in {"none", "done"}
    /\ k.ToDirect = conn[e].ToDirect /\ k.bDisconnect = conn[e].bDisconnect
    /\ \/ /\ k.at = conn[e].at /\ k.role = conn[e].role /\ m_Connections' = m_Connections
          /\ conn[e].at = "none" => k = conn[e]
       \/ /\ m.type = "Connect" /\ conn[e].at = "none" /\ e[1] = Server
          /\ k.at = "connecting" /\ k.role = "target" /\ m_Connections' = m_Connections \cup {e}
    /\ UNCHANGED <<taken, delivered, why, m_iConnection>>

LEMMA HeardWays ==
    ASSUME OneClient, Typed, NEW e \in End, NEW m, NEW k, NEW a \in Real \cup {None},
           Heard(e, m, k, a)
    PROVE  LET o == Other(e[1]) IN
           /\ Way(o)' \in Seq(Real) /\ Way(o) = <<m>> \o Way(o)'
           /\ Way(e[1])' = IF a = None THEN Way(e[1]) ELSE Append(Way(e[1]), a)
<1>1. PICK s, o : s = e[1] /\ o = Other(e[1]) OBVIOUS
<1>2. s \in Side /\ o \in Side /\ s # o BY <1>1, Ends, Others
<1>3. PICK w, q : w = wire[o] /\ q = m_OutQueue[o] OBVIOUS
<1>4. w \in Seq(Real) /\ q \in Seq(Real) /\ w # <<>> /\ m = Head(w) /\ m \in Real
  BY <1>1, <1>2, <1>3, Ways DEF Heard
<1>5. PICK t : t = Tail(w) OBVIOUS
<1>6. t \in Seq(Real) /\ w = <<m>> \o t BY <1>4, <1>5, HeadTailProperties
<1>7. wire'[o] = t /\ wire'[s] = wire[s]
  BY <1>1, <1>2, <1>3, <1>5 DEF Heard, Typed
<1>8. m_OutQueue'[o] = q BY <1>1, <1>2, <1>3 DEF Heard, Typed
<1>9. Way(o)' = t \o q BY <1>7, <1>8 DEF Way
<1>10. Way(o) = <<m>> \o (t \o q)
  <2>1. <<m>> \in Seq(Real) BY <1>4
  <2>2. (<<m>> \o t) \o q = <<m>> \o (t \o q) BY <1>4, <1>6, <2>1, ConcatAssociative
  <2> QED BY <1>3, <1>6, <2>2 DEF Way
<1>11. t \o q \in Seq(Real) BY <1>4, <1>6, ConcatProperties
<1>12. Way(s)' = IF a = None THEN Way(s) ELSE Append(Way(s), a)
  <2>1. CASE a = None
    <3>1. m_OutQueue' = m_OutQueue BY <2>1 DEF Heard
    <3> QED BY <1>7, <2>1, <3>1 DEF Way
  <2>2. CASE a # None
    <3>1. wire[s] \in Seq(Real) /\ m_OutQueue[s] \in Seq(Real) /\ a \in Real
      BY <1>2, <2>2, Ways
    <3>2. m_OutQueue'[s] = Append(m_OutQueue[s], a)
      BY <1>1, <1>2, <2>2 DEF Heard, Typed
    <3> QED BY <1>7, <2>2, <3>1, <3>2, ConcatAppend DEF Way
  <2> QED BY <2>1, <2>2
<1> QED BY <1>1, <1>9, <1>10, <1>11, <1>12

\* What is said after the message was there before, and one asks only once.
LEMMA FirstSaid ==
    ASSUME NEW q \in Seq(Real), NEW m \in Real, NEW c
    PROVE  LET p == <<m>> \o q IN
           /\ Says(q, c) => Says(p, c)
           /\ Asks(q, c) => Asks(p, c)
           /\ AskedFirst(p, c) => AskedFirst(q, c)
           /\ m.chan = c => Says(p, c) /\ (AskedFirst(p, c) => ~Asks(q, c))
           /\ IsAsk(m, c) => Asks(p, c)
<1>1. PICK p : p = <<m>> \o q OBVIOUS
<1>2. <<>> \in Seq(Real) /\ <<>> \o q = q /\ <<>> \o p = p
  <2>1. p \in Seq(Real) BY <1>1
  <2> QED BY <2>1, ConcatEmptySeq, EmptySeq
<1>3. /\ Says(q, c) => Says(p, c)
      /\ Asks(q, c) => Asks(p, c)
      /\ AskedFirst(p, c) => AskedFirst(q, c)
  BY <1>1, <1>2, DropSays
<1>4. PICK n \in Nat : n = Len(q) BY LenProperties
<1>5. Len(p) = n + 1 /\ p[1] = m /\ \A i \in 1 .. n : p[i + 1] = q[i]
  <2>1. <<m>> \in Seq(Real) /\ Len(<<m>>) = 1 /\ <<m>>[1] = m OBVIOUS
  <2>2. /\ Len(<<m>> \o q) = 1 + n
        /\ \A i \in 1 .. 1 + n : (<<m>> \o q)[i] = IF i <= 1 THEN <<m>>[i] ELSE q[i - 1]
    BY <1>4, <2>1, ConcatProperties
  <2>3. p[1] = m BY <1>1, <2>1, <2>2
  <2>4. ASSUME NEW i \in 1 .. n PROVE p[i + 1] = q[i]
    <3>1. i + 1 \in 1 .. 1 + n /\ ~(i + 1 <= 1) /\ (i + 1) - 1 = i OBVIOUS
    <3> QED BY <1>1, <2>2, <3>1
  <2> QED BY <1>1, <2>2, <2>3, <2>4
<1>6. 1 \in 1 .. Len(p) BY <1>5
<1>7. ASSUME m.chan = c, AskedFirst(p, c), Asks(q, c) PROVE FALSE
  <2>1. PICK i \in 1 .. n : IsAsk(q[i], c) BY <1>4, <1>7 DEF Asks
  <2>2. i + 1 \in 1 .. Len(p) /\ IsAsk(p[i + 1], c) BY <1>5, <2>1
  <2>3. i + 1 <= 1 BY <1>5, <1>6, <1>7, <2>2 DEF AskedFirst
  <2> QED BY <2>3
<1>8. m.chan = c => Says(p, c) BY <1>5, <1>6 DEF Says
<1>9. IsAsk(m, c) => Asks(p, c) BY <1>5, <1>6 DEF Asks
<1> QED BY <1>1, <1>3, <1>7, <1>8, <1>9

\* The two sides, after the message
LEMMA HeardSays ==
    ASSUME OneClient, Typed, NEW e \in End, NEW m, NEW k, NEW a \in Real \cup {None},
           Heard(e, m, k, a), NEW c \in Channel
    PROVE  LET s == e[1]
               o == Other(e[1])
           IN  /\ Says(Way(s)', c) => Says(Way(s), c) \/ c = e[2]
               /\ Asks(Way(s)', c) <=> Asks(Way(s), c)
               /\ AskedFirst(Way(s), c) => AskedFirst(Way(s)', c)
               /\ Says(Way(o)', c) => Says(Way(o), c)
               /\ Asks(Way(o)', c) => Asks(Way(o), c)
               /\ AskedFirst(Way(o), c) => AskedFirst(Way(o)', c)
               /\ c = e[2] => Says(Way(o), c) /\ (AskedFirst(Way(o), c) => ~Asks(Way(o)', c))
               /\ c = e[2] /\ m.type = "Connect" => Asks(Way(o), c)
<1>1. PICK s, o : s = e[1] /\ o = Other(e[1]) OBVIOUS
<1>2. s \in Side /\ o \in Side BY <1>1, Ends, Others
<1>3. PICK r : r = Way(o)' OBVIOUS
<1>4. /\ r \in Seq(Real) /\ Way(o) = <<m>> \o r
      /\ Way(s)' = IF a = None THEN Way(s) ELSE Append(Way(s), a)
  BY <1>1, <1>3, HeardWays
<1>5. m \in Real /\ m.chan = e[2] BY DEF Heard
<1>6. /\ Says(r, c) => Says(Way(o), c)
      /\ Asks(r, c) => Asks(Way(o), c)
      /\ AskedFirst(Way(o), c) => AskedFirst(r, c)
      /\ m.chan = c => Says(Way(o), c) /\ (AskedFirst(Way(o), c) => ~Asks(r, c))
      /\ IsAsk(m, c) => Asks(Way(o), c)
  BY <1>4, <1>5, FirstSaid
<1>7. /\ Says(Way(s)', c) => Says(Way(s), c) \/ c = e[2]
      /\ Asks(Way(s)', c) <=> Asks(Way(s), c)
      /\ AskedFirst(Way(s), c) => AskedFirst(Way(s)', c)
  <2>1. CASE a = None
    <3>1. Way(s)' = Way(s) BY <1>4, <2>1
    <3> QED BY <3>1
  <2>2. CASE a # None
    <3>1. Way(s)' = Append(Way(s), a) BY <1>4, <2>2
    <3>2. a \in Real /\ a.chan = e[2] /\ a.type # "Connect" BY <2>2 DEF Heard
    <3>3. Way(s) \in Seq(Real) /\ ~IsAsk(a, c) BY <1>2, <3>2, Ways DEF IsAsk
    <3> QED BY <3>1, <3>2, <3>3, AppendSays
  <2> QED BY <2>1, <2>2
<1> QED BY <1>1, <1>3, <1>5, <1>6, <1>7 DEF IsAsk

LEMMA HeardTalk ==
    ASSUME OneClient, Typed, Talk, NEW e \in End, NEW m, NEW k, NEW a \in Real \cup {None},
           Heard(e, m, k, a)
    PROVE  Talk' /\ ~Asks(Way(Other(e[1]))', e[2])
<1>1. conn'[e] = k /\ \A d \in End \ {e} : conn'[d] = conn[d] BY DEF Heard, Typed
<1>2. Client \in Side /\ Server \in Side /\ Client # Server BY Sides
<1>3. ASSUME NEW c \in Channel
      PROVE
        /\ Says(Way(Client)', c) \/ Says(Way(Server)', c) \/ conn'[<<Server, c>>].at # "none" =>
             conn'[<<Client, c>>].at \notin {"none", "connect"}
        /\ Says(Way(Server)', c) \/ conn'[<<Server, c>>].at # "none" => ~Asks(Way(Client)', c)
        /\ ~Asks(Way(Server)', c) /\ AskedFirst(Way(Client)', c)
  <2>1. /\ Says(Way(Client), c) \/ Says(Way(Server), c) \/ conn[<<Server, c>>].at # "none" =>
             conn[<<Client, c>>].at \notin {"none", "connect"}
        /\ Says(Way(Server), c) \/ conn[<<Server, c>>].at # "none" => ~Asks(Way(Client), c)
        /\ ~Asks(Way(Server), c) /\ AskedFirst(Way(Client), c)
    BY DEF Talk
  <2>2. <<Client, c>> \in End /\ <<Server, c>> \in End BY Channels
  <2>3. CASE e[2] # c
    <3>1. e # <<Client, c>> /\ e # <<Server, c>> BY <2>3
    <3>2. conn'[<<Client, c>>] = conn[<<Client, c>>] /\ conn'[<<Server, c>>] = conn[<<Server, c>>]
      BY <1>1, <2>2, <3>1
    <3>3. /\ Says(Way(Client)', c) => Says(Way(Client), c)
          /\ Says(Way(Server)', c) => Says(Way(Server), c)
          /\ Asks(Way(Client)', c) => Asks(Way(Client), c)
          /\ Asks(Way(Server)', c) => Asks(Way(Server), c)
          /\ AskedFirst(Way(Client), c) => AskedFirst(Way(Client)', c)
      BY <2>3, HeardSays, EitherEnd
    <3> QED BY <2>1, <3>2, <3>3
  <2>4. CASE e = <<Client, c>>
    <3>1. e[1] = Client /\ e[2] = c /\ Other(e[1]) = Server BY <2>4, Sides
    <3>2. conn'[<<Server, c>>] = conn[<<Server, c>>] BY <1>1, <1>2, <2>2, <2>4
    <3>3. Says(Way(Server), c) BY <3>1, HeardSays
    <3>4. conn[e].at \notin {"none", "connect"} BY <2>1, <2>4, <3>3
    <3>5. conn'[<<Client, c>>].at \notin {"none", "connect"} BY <1>1, <2>4, <3>4 DEF Heard
    <3>6. ~Asks(Way(Client)', c) BY <2>1, <3>1, <3>3, HeardSays
    <3>7. ~Asks(Way(Server)', c) /\ AskedFirst(Way(Client)', c) BY <2>1, <3>1, HeardSays
    <3> QED BY <3>5, <3>6, <3>7
  <2>5. CASE e = <<Server, c>>
    <3>1. e[1] = Server /\ e[2] = c /\ Other(e[1]) = Client BY <2>5, Sides
    <3>2. conn'[<<Client, c>>] = conn[<<Client, c>>] BY <1>1, <1>2, <2>2, <2>5
    <3>3. Says(Way(Client), c) BY <3>1, HeardSays
    <3>4. conn'[<<Client, c>>].at \notin {"none", "connect"} BY <2>1, <3>2, <3>3
    <3>5. ~Asks(Way(Client)', c) /\ AskedFirst(Way(Client)', c) BY <2>1, <3>1, HeardSays
    <3>6. ~Asks(Way(Server)', c) BY <2>1, <3>1, HeardSays
    <3> QED BY <3>4, <3>5, <3>6
  <2> QED BY <2>3, <2>4, <2>5, EitherEnd
<1>4. Talk' BY <1>3 DEF Talk
<1>5. ~Asks(Way(Other(e[1]))', e[2])
  <2>1. e[2] \in Channel BY Ends
  <2>2. CASE Other(e[1]) = Server BY <2>1, <2>2, HeardSays DEF Talk
  <2>3. CASE Other(e[1]) = Client
    <3>1. AskedFirst(Way(Client), e[2]) BY <2>1 DEF Talk
    <3> QED BY <2>1, <2>3, <3>1, HeardSays
  <2> QED BY <2>2, <2>3, EitherEnd
<1> QED BY <1>4, <1>5

Dropped(x, m) == \E p, r \in Seq(Real) : /\ Incoming(x) = p \o (<<m>> \o r)
                                          /\ Incoming(x)' = p \o r

\* What an end has still to handle: without the message, or with the answer.
LEMMA HeardIncoming ==
    ASSUME OneClient, Typed, NEW e \in End, NEW m, NEW k, NEW a \in Real \cup {None},
           Heard(e, m, k, a), NEW x \in End
    PROVE  /\ x[1] = e[1] =>
                \/ x = e /\ Incoming(x)' = Incoming(x)
                \/ /\ Dropped(x, m)
                   /\ x = e => m.type # "Data" \/ conn[e].at \in {"none", "done"}
           /\ x[1] # e[1] => Incoming(x)' = IF a = None THEN Incoming(x) ELSE Append(Incoming(x), a)
<1>1. PICK s, o, r, q : s = e[1] /\ o = Other(e[1]) /\ r = Way(o)' /\ q = conn[x].m_MessageQueue
  OBVIOUS
<1>2. s \in Side /\ o \in Side /\ o # s /\ x[1] \in Side /\ Other(x[1]) # x[1] /\ Other(x[1]) \in Side
  BY <1>1, Ends, Others
<1>3. /\ r \in Seq(Real) /\ Way(o) = <<m>> \o r
      /\ Way(s)' = IF a = None THEN Way(s) ELSE Append(Way(s), a)
  BY <1>1, HeardWays
<1>4. q \in Seq(Real) /\ m \in Real /\ <<m>> \in Seq(Real) BY <1>1, EndTypes DEF Heard
<1>5. CASE x[1] = s /\ x # e
  <2>1. conn'[x] = conn[x] BY <1>5 DEF Heard, Typed
  <2>2. Incoming(x) = q \o (<<m>> \o r) BY <1>1, <1>3, <1>5 DEF Incoming
  <2>3. Incoming(x)' = q \o r BY <1>1, <1>5, <2>1 DEF Incoming
  <2>4. Dropped(x, m) BY <1>3, <1>4, <2>2, <2>3 DEF Dropped
  <2> QED BY <1>1, <1>5, <2>4
<1>6. CASE x = e
  <2>1. conn'[x] = k BY <1>6 DEF Heard, Typed
  <2>2. Incoming(x) = q \o (<<m>> \o r) BY <1>1, <1>3, <1>6 DEF Incoming
  <2>3. Incoming(x)' = k.m_MessageQueue \o r BY <1>1, <1>6, <2>1 DEF Incoming
  <2>4. CASE k.m_MessageQueue = Append(q, m)
    <3>1. Append(q, m) = q \o <<m>> BY <1>4, AppendIsConcat
    <3>2. (q \o <<m>>) \o r = q \o (<<m>> \o r) BY <1>3, <1>4, ConcatAssociative
    <3> QED BY <1>1, <1>6, <2>2, <2>3, <2>4, <3>1, <3>2
  <2>5. CASE k.m_MessageQueue = q /\ (m.type # "Data" \/ conn[e].at \in {"none", "done"})
    <3>1. Dropped(x, m) BY <1>3, <1>4, <2>2, <2>3, <2>5 DEF Dropped
    <3> QED BY <1>1, <1>6, <2>5, <3>1
  <2> QED BY <1>1, <1>6, <2>4, <2>5 DEF Heard
<1>7. CASE x[1] # s
  <2>1. conn'[x] = conn[x] BY <1>1, <1>7 DEF Heard, Typed
  <2>2. Other(x[1]) = s BY <1>2, <1>7, Sides
  <2>3. CASE a = None
    <3>1. Way(Other(x[1]))' = Way(Other(x[1])) BY <1>3, <2>2, <2>3
    <3> QED BY <1>1, <1>7, <2>1, <2>3, <3>1 DEF Incoming
  <2>4. CASE a # None
    <3>1. Way(Other(x[1]))' = Append(Way(Other(x[1])), a) BY <1>3, <2>2, <2>4
    <3>2. a \in Real /\ Way(Other(x[1])) \in Seq(Real) BY <1>2, <2>4, Ways
    <3>3. PICK w : w = Way(Other(x[1])) OBVIOUS
    <3>4. Incoming(x)' = q \o Append(w, a) BY <1>1, <2>1, <3>1, <3>3 DEF Incoming
    <3>5. q \o Append(w, a) = Append(q \o w, a) BY <1>4, <3>2, <3>3, ConcatAppend
    <3>6. Incoming(x) = q \o w BY <1>1, <3>3 DEF Incoming
    <3> QED BY <1>1, <1>7, <2>4, <3>4, <3>5, <3>6
  <2> QED BY <2>3, <2>4
<1> QED BY <1>1, <1>5, <1>6, <1>7

LEMMA HeardRoles ==
    ASSUME OneClient, Typed, Roles, Talk, NEW e \in End, NEW m, NEW k, NEW a \in Real \cup {None},
           Heard(e, m, k, a)
    PROVE  Roles'
<1>1. conn'[e] = k /\ \A d \in End \ {e} : conn'[d] = conn[d] BY DEF Heard, Typed
<1>2. UNCHANGED <<taken, delivered, why, m_iConnection>> BY DEF Heard
<1>3. \A d \in End \ {e} : d \in m_Connections' <=> d \in m_Connections BY DEF Heard
<1>4. conn[e].at # "connect"
  <2>1. SUFFICES ASSUME conn[e].at = "connect" PROVE FALSE OBVIOUS
  <2>2. e[1] = Client BY <2>1 DEF Roles
  <2>3. e = <<Client, e[2]>> /\ Other(e[1]) = Server /\ e[2] \in Channel
    BY <2>2, Ends, EitherEnd, Sides
  <2>4. Says(Way(Server), e[2]) BY <2>3, HeardSays
  <2> QED BY <2>1, <2>3, <2>4 DEF Talk
<1>5. SUFFICES ASSUME NEW d \in End
      PROVE /\ conn'[d].at = "none" => /\ conn'[d] = Connection("none", "none") /\ why'[d] = "none"
                              /\ taken'[d] = 0 /\ delivered'[d] = <<>>
            /\ conn'[d].at # "none" => conn'[d].role = IF d[1] = Client THEN "forward" ELSE "target"
            /\ conn'[d].at = "connecting" => d[1] = Server
            /\ conn'[d].at = "connect" => /\ d[1] = Client /\ conn'[d].m_MessageQueue = <<>>
                                 /\ ~conn'[d].bDisconnect /\ taken'[d] = 0
            /\ d \in m_Connections' <=> conn'[d].at \notin {"none", "done"}
            /\ d[1] = Client /\ conn'[d].at # "none" => d[2] <= m_iConnection'[Client]
  BY DEF Roles, Connection
<1>6. CASE d # e BY <1>1, <1>2, <1>3, <1>6 DEF Roles
<1>7. CASE d = e
  <2>1. CASE /\ k.at = conn[e].at /\ k.role = conn[e].role /\ m_Connections' = m_Connections
             /\ conn[e].at = "none" => k = conn[e]
    BY <1>1, <1>2, <1>4, <1>7, <2>1 DEF Roles
  <2>2. CASE /\ m.type = "Connect" /\ conn[e].at = "none" /\ e[1] = Server
             /\ k.at = "connecting" /\ k.role = "target" /\ m_Connections' = m_Connections \cup {e}
    <3>1. d[1] # Client BY <1>7, <2>2, Sides
    <3> QED BY <1>1, <1>7, <2>2, <3>1
  <2> QED BY <2>1, <2>2 DEF Heard
<1> QED BY <1>6, <1>7

LEMMA HeardOpen ==
    ASSUME OneClient, Typed, NEW e \in End, NEW m, NEW k, NEW a \in Real \cup {None},
           Heard(e, m, k, a)
    PROVE  /\ \A d \in End : IsOpen(d) => IsOpen(d)'
           /\ \A d \in End \ {e} : IsOpen(d)' => IsOpen(d)
           /\ IsOpen(e)' => IsOpen(e) \/ m.type = "Connect"
<1>1. conn'[e] = k /\ \A d \in End \ {e} : conn'[d] = conn[d] BY DEF Heard, Typed
<1>2. \/ k.at = conn[e].at
      \/ m.type = "Connect" /\ conn[e].at = "none" /\ k.at = "connecting"
  BY DEF Heard
<1> QED BY <1>1, <1>2 DEF IsOpen

LEMMA HeardGone ==
    ASSUME OneClient, Typed, Talk, Gone, NEW e \in End, NEW m, NEW k,
           NEW a \in Real \cup {None}, Heard(e, m, k, a)
    PROVE  Gone'
<1>1. conn'[e] = k /\ \A d \in End \ {e} : conn'[d] = conn[d] BY DEF Heard, Typed
<1>2. SUFFICES ASSUME NEW x \in End, Quitting(Incoming(x)', x[2]) \/ conn'[x].bDisconnect
               PROVE  ~IsOpen(Peer(x))' /\ ~Asks(Way(x[1])', x[2])
  BY DEF Gone
<1>3. /\ x[1] \in Side /\ x[2] \in Channel /\ Peer(x) \in End /\ Peer(Peer(x)) = x /\ Peer(x) # x
      /\ e[1] \in Side /\ e[2] \in Channel /\ Peer(x)[1] = Other(x[1]) /\ Peer(x)[2] = x[2]
  BY Ends
<1>4. conn'[x].bDisconnect <=> conn[x].bDisconnect BY <1>1 DEF Heard
<1>5. Asks(Way(x[1])', x[2]) => Asks(Way(x[1]), x[2])
  BY <1>3, HeardSays, EitherEnd
<1>6. CASE x # Peer(e)
  <2>1. Quitting(Incoming(x)', x[2]) => Quitting(Incoming(x), x[2])
    <3>1. CASE x[1] = e[1]
      <4>1. CASE Incoming(x)' = Incoming(x) BY <4>1
      <4>2. CASE Dropped(x, m)
        <5>1. PICK p, r \in Seq(Real) : Incoming(x) = p \o (<<m>> \o r) /\ Incoming(x)' = p \o r
          BY <4>2 DEF Dropped
        <5>2. m \in Real BY DEF Heard
        <5> QED BY <5>1, <5>2, DropSays
      <4>3. Incoming(x)' = Incoming(x) \/ Dropped(x, m) BY <3>1, HeardIncoming
      <4> QED BY <4>1, <4>2, <4>3
    <3>2. CASE x[1] # e[1]
      <4>1. x[2] # e[2]
        <5>1. x[2] = e[2] => x = e \/ x = Peer(e) BY ChannelEnds
        <5> QED BY <1>6, <3>2, <5>1
      <4>2. Incoming(x)' = IF a = None THEN Incoming(x) ELSE Append(Incoming(x), a)
        BY <3>2, HeardIncoming
      <4>3. CASE a = None BY <4>2, <4>3
      <4>4. CASE a # None
        <5>1. a \in Real /\ ~IsQuit(a, x[2]) BY <4>1, <4>4 DEF Heard, IsQuit
        <5>2. Incoming(x) \in Seq(Real) BY EndTypes
        <5> QED BY <4>2, <4>4, <5>1, <5>2, AppendSays
      <4> QED BY <4>3, <4>4
    <3> QED BY <3>1, <3>2
  <2>2. ~IsOpen(Peer(x)) /\ ~Asks(Way(x[1]), x[2]) BY <1>2, <1>4, <2>1 DEF Gone
  <2>3. Peer(x) # e BY <1>3, <1>6
  <2>4. ~IsOpen(Peer(x))' BY <1>3, <2>2, <2>3, HeardOpen
  <2> QED BY <1>5, <2>2, <2>4
<1>7. CASE x = Peer(e)
  <2>1. Peer(x) = e /\ x[2] = e[2] /\ x[1] = Other(e[1]) /\ x[1] # e[1] BY <1>7, Ends, Others
  <2>2. ~Asks(Way(x[1])', x[2]) BY <2>1, HeardTalk
  <2>3. Incoming(x)' = IF a = None THEN Incoming(x) ELSE Append(Incoming(x), a)
    BY <2>1, HeardIncoming
  <2>4. CASE Quitting(Incoming(x), x[2]) \/ conn[x].bDisconnect
    <3>1. ~IsOpen(e) /\ ~Asks(Way(x[1]), x[2]) BY <2>1, <2>4 DEF Gone
    <3>2. m.type # "Connect" BY <1>3, <2>1, <3>1, HeardSays
    <3>3. ~IsOpen(e)' BY <3>1, <3>2, HeardOpen
    <3> QED BY <2>1, <2>2, <3>3
  <2>5. CASE ~(Quitting(Incoming(x), x[2]) \/ conn[x].bDisconnect)
    <3>1. a # None /\ Quitting(Append(Incoming(x), a), x[2]) BY <1>2, <1>4, <2>3, <2>5
    <3>2. a \in Real /\ Incoming(x) \in Seq(Real) BY <3>1, EndTypes
    <3>3. IsQuit(a, x[2]) BY <2>5, <3>1, <3>2, AppendSays
    <3>4. k.at \in {"none", "done"} BY <3>1, <3>3 DEF Heard, IsQuit
    <3>5. ~IsOpen(e)' BY <1>1, <3>4 DEF IsOpen
    <3> QED BY <2>1, <2>2, <3>5
  <2> QED BY <2>4, <2>5
<1> QED BY <1>6, <1>7

\* An end whose connection did nothing, and whose way is a message shorter.
LEMMA FlowingLess ==
    ASSUME OneClient, Typed, NEW x \in End, Flowing(x), NEW m \in Real, ~IsData(m, x[2]),
           Dropped(x, m), conn'[x].ToDirect = conn[x].ToDirect,
           conn'[x].bDisconnect = conn[x].bDisconnect,
           UNCHANGED <<delivered, taken>>
    PROVE  Flowing(x)'
<1>1. PICK p, r \in Seq(Real) : Incoming(x) = p \o (<<m>> \o r) /\ Incoming(x)' = p \o r
  BY DEF Dropped
<1>2. Reached(x) \in Nat /\ taken[Peer(x)] \in Nat BY Ends, EndTypes
<1>3. Reached(x)' = Reached(x) BY DEF Reached
<1>4. InOrder(p \o (<<m>> \o r), x[2], From(x), Reached(x), taken[Peer(x)])
  BY <1>1 DEF Flowing
<1>5. InOrder(p \o r, x[2], From(x), Reached(x), taken[Peer(x)])
  BY <1>1, <1>2, <1>4, DropOrder
<1>6. NoData(Incoming(x), x[2]) => NoData(p \o r, x[2]) BY <1>1, DropSays
<1> QED BY <1>1, <1>3, <1>5, <1>6 DEF Flowing, From

LEMMA HeardFlow ==
    ASSUME OneClient, Typed, Typed', Talk, Flow, NEW e \in End, NEW m, NEW k,
           NEW a \in Real \cup {None}, Heard(e, m, k, a)
    PROVE  Flow'
<1>1. conn'[e] = k /\ \A d \in End \ {e} : conn'[d] = conn[d] BY DEF Heard, Typed
<1>2. SUFFICES ASSUME NEW x \in End, IsOpen(x)' \/ Asks(Way(Other(x[1]))', x[2])
               PROVE  Flowing(x)'
  BY DEF Flow
<1>3. /\ x[1] \in Side /\ x[2] \in Channel /\ e[1] \in Side /\ e[2] \in Channel
      /\ Other(x[1]) \in Side /\ Other(x[1]) # x[1]
  BY Ends, Others
<1>4. UNCHANGED <<taken, delivered>> /\ m \in Real /\ m.chan = e[2] BY DEF Heard
<1>5. Flowing(x)
  <2>1. Asks(Way(Other(x[1]))', x[2]) => Asks(Way(Other(x[1])), x[2])
    BY <1>3, HeardSays, EitherEnd
  <2>2. CASE x # e BY <1>2, <2>1, <2>2, HeardOpen DEF Flow
  <2>3. CASE x = e
    <3>1. IsOpen(e)' BY <1>2, <2>3, HeardTalk
    <3>2. m.type = "Connect" => Asks(Way(Other(e[1])), e[2]) BY <1>3, HeardSays
    <3> QED BY <2>3, <3>1, <3>2, HeardOpen DEF Flow
  <2> QED BY <2>2, <2>3
<1>6. /\ conn'[x].ToDirect = conn[x].ToDirect /\ conn'[x].bDisconnect = conn[x].bDisconnect
  BY <1>1 DEF Heard
<1>7. CASE x[1] # e[1]
  <2>1. x # e /\ conn'[x] = conn[x] BY <1>1, <1>7
  <2>2. Incoming(x)' = IF a = None THEN Incoming(x) ELSE Append(Incoming(x), a)
    BY <1>7, HeardIncoming
  <2>3. a = None \/ (a \in Real /\ ~IsData(a, x[2])) BY DEF Heard, IsData
  <2>4. CASE a = None
    <3>1. Incoming(x)' = Incoming(x) BY <2>2, <2>4
    <3>2. a \notin Real BY <2>4, NoneAssumption DEF Real
    <3> QED BY <1>4, <1>5, <2>1, <3>1, <3>2, FlowingMore
  <2>5. CASE a \in Real /\ a # None /\ ~IsData(a, x[2])
    <3>1. Incoming(x)' = Append(Incoming(x), a) BY <2>2, <2>5
    <3> QED BY <1>4, <1>5, <2>1, <2>5, <3>1, FlowingMore
  <2> QED BY <2>3, <2>4, <2>5
<1>8. CASE x[1] = e[1]
  <2>1. \/ x = e /\ Incoming(x)' = Incoming(x)
        \/ Dropped(x, m) /\ (x = e => m.type # "Data" \/ conn[e].at \in {"none", "done"})
    BY <1>8, HeardIncoming
  <2>2. CASE Incoming(x)' = Incoming(x)
    <3>1. Reached(x)' = Reached(x) BY <1>4, <1>6 DEF Reached
    <3> QED BY <1>4, <1>5, <1>6, <2>2, <3>1 DEF Flowing, From
  <2>3. CASE Dropped(x, m) /\ (x = e => m.type # "Data" \/ conn[e].at \in {"none", "done"})
    <3>1. ~IsData(m, x[2])
      <4>1. CASE x # e
        <5>1. x[2] = e[2] => x = e \/ x = Peer(e) BY ChannelEnds
        <5>2. Peer(e)[1] # e[1] BY <1>3, Ends, Others
        <5>3. x[2] # e[2] BY <1>8, <4>1, <5>1, <5>2
        <5> QED BY <1>4, <5>3 DEF IsData
      <4>2. CASE x = e
        <5>1. IsOpen(e)' BY <1>2, <4>2, HeardTalk
        <5>2. IsOpen(e) \/ m.type = "Connect" BY <5>1, HeardOpen
        <5>3. IsOpen(e) => conn[e].at \notin {"none", "done"} BY DEF IsOpen
        <5> QED BY <2>3, <4>2, <5>2, <5>3 DEF IsData
      <4> QED BY <4>1, <4>2
    <3> QED BY <1>4, <1>5, <1>6, <2>3, <3>1, FlowingLess
  <2> QED BY <2>1, <2>2, <2>3
<1> QED BY <1>7, <1>8

LEMMA HeardKeeps ==
    ASSUME OneClient, IInv, Typed', NEW e \in End, NEW m, NEW k,
           NEW a \in Real \cup {None}, Heard(e, m, k, a)
    PROVE  IInv'
<1>1. Pipes' BY PipesSame DEF IInv, Heard
<1> QED BY <1>1, HeardRoles, HeardTalk, HeardGone, HeardFlow DEF IInv

LEMMA HeardTyped ==
    ASSUME OneClient, Typed, NEW e \in End, NEW m, NEW k \in Connections,
           k.m_MessageQueue \in Seq(Held(e)), NEW a \in Real \cup {None}, Heard(e, m, k, a),
           m_Wakeup' \subseteq Side, run' \in [Side -> Stations], UNCHANGED <<stream, partial, stop>>,
           outside' \in [End -> [input : Nat, full : BOOLEAN, closed : BOOLEAN]]
    PROVE  Typed'
<1>1. e[1] \in Side /\ Other(e[1]) \in Side BY Ends, Others
<1>2. m_OutQueue' \in [Side -> Seq(Real)]
  <2>1. CASE a = None BY <2>1 DEF Heard, Typed
  <2>2. CASE a # None
    <3>1. a \in Real /\ m_OutQueue[e[1]] \in Seq(Real) BY <1>1, <2>2, Ways
    <3>2. Append(m_OutQueue[e[1]], a) \in Seq(Real) BY <3>1, AppendProperties
    <3> QED BY <2>2, <3>2 DEF Heard, Typed
  <2> QED BY <2>1, <2>2
<1>3. wire' \in [Side -> Seq(Real)]
  <2>1. wire[Other(e[1])] \in Seq(Real) /\ wire[Other(e[1])] # <<>> BY <1>1, Ways DEF Heard
  <2>2. Tail(wire[Other(e[1])]) \in Seq(Real) BY <2>1, HeadTailProperties
  <2> QED BY <2>2 DEF Heard, Typed
<1>4. conn' \in [End -> Connections] BY DEF Heard, Typed
<1>5. \A d \in End : conn'[d].m_MessageQueue \in Seq(Held(d))
  <2>1. \A d \in End : conn[d].m_MessageQueue \in Seq(Held(d)) BY DEF Typed
  <2>2. \A d \in End : conn'[d] = IF d = e THEN k ELSE conn[d] BY DEF Heard, Typed
  <2> QED BY <2>1, <2>2
<1>6. \A d \in End : Held(d)' = Held(d) BY DEF Held, Real, Sent
<1>7. /\ m_Connections' \subseteq End /\ stream' \subseteq Side
      /\ partial' \subseteq Side /\ stop' \subseteq Side
      /\ run' \in [Side -> Stations]
      /\ m_iConnection' \in [Side -> 0 .. MaxChannel]
      /\ taken' \in [End -> Nat] /\ delivered' \in [End -> Seq(Chunk)]
      /\ why' \in [End -> {"none", "outside", "timeout", "unreachable", "peer"}]
  BY DEF Heard, Typed
<1> QED BY <1>2, <1>3, <1>4, <1>5, <1>6, <1>7 DEF Typed

\* the next message a side reads
LEMMA NextMessage ==
    ASSUME OneClient, Typed, NEW s \in Side, wire[s] # <<>>
    PROVE  LET m == Head(wire[s]) IN
           /\ m \in Real /\ m.chan \in Channel /\ m.type \in {"Connect", "Data", "Disconnect", "Pause", "Resume"}
           /\ m.type = "Connect" => Asks(Way(s), m.chan)
<1>1. PICK w, q, m, t : w = wire[s] /\ q = m_OutQueue[s] /\ m = Head(w) /\ t = Tail(w) OBVIOUS
<1>2. w \in Seq(Real) /\ q \in Seq(Real) /\ w # <<>> BY <1>1, Ways
<1>3. m \in Real /\ t \in Seq(Real) /\ w = <<m>> \o t BY <1>1, <1>2, HeadTailProperties
<1>4. <<m>> \in Seq(Real) BY <1>3
<1>5. Way(s) = <<m>> \o (t \o q)
  <2>1. (<<m>> \o t) \o q = <<m>> \o (t \o q) BY <1>2, <1>3, <1>4, ConcatAssociative
  <2> QED BY <1>1, <1>3, <2>1 DEF Way
<1>6. t \o q \in Seq(Real) BY <1>2, <1>3, ConcatProperties
<1>7. IsAsk(m, m.chan) => Asks(Way(s), m.chan) BY <1>3, <1>5, <1>6, FirstSaid
<1> QED BY <1>1, <1>3, <1>7 DEF IsAsk, Real, Sent

\* only the server is asked for a connection, and only for a fresh one
LEMMA AskedFor ==
    ASSUME OneClient, Typed, Roles, Talk, NEW s \in Side, wire[Other(s)] # <<>>,
           NEW e \in End, e = <<s, Head(wire[Other(s)]).chan>>,
           Head(wire[Other(s)]).type = "Connect"
    PROVE  /\ s = Server /\ conn[e] = Connection("none", "none") /\ e \notin m_Connections
           /\ taken[e] = 0 /\ delivered[e] = <<>> /\ why[e] = "none"
<1>1. Other(s) \in Side BY Others
<1>2. Asks(Way(Other(s)), e[2]) /\ e[2] \in Channel BY <1>1, NextMessage
<1>3. Other(s) = Client /\ s = Server BY <1>1, <1>2, Sides DEF Talk
<1>4. conn[<<Server, e[2]>>].at = "none" BY <1>2, <1>3 DEF Talk
<1>5. conn[e].at = "none" BY <1>3, <1>4
<1> QED BY <1>3, <1>5 DEF Roles

LEMMA RunReceiveKeeps ==
    ASSUME OneClient, IInv, NEW s \in Side, RunReceive(s)
    PROVE  IInv'
<1>1. PICK o, m, e : o = Other(s) /\ m = Head(wire[o]) /\ e = <<s, m.chan>> OBVIOUS
<1>2. Typed /\ Roles /\ Talk BY DEF IInv
<1>3. o \in Side /\ o # s BY <1>1, Others
<1>4. wire[o] # <<>> /\ wire' = [wire EXCEPT ![o] = Tail(@)] /\ HandleMessage(e, m)
      /\ UNCHANGED <<stream, partial, stop, m_iConnection>> /\ Goto(s, "round")
  BY <1>1 DEF RunReceive
<1>5. m \in Real /\ m.chan \in Channel /\ m.type \in {"Connect", "Data", "Disconnect", "Pause", "Resume"}
  BY <1>1, <1>2, <1>3, <1>4, NextMessage
<1>6. e \in End /\ e[1] = s /\ e[2] = m.chan BY <1>1, <1>5 DEF End
<1>7. conn[e] \in Connections /\ conn[e].m_MessageQueue \in Seq(Held(e))
      /\ conn[e].m_MessageQueue \in Seq(Real) /\ conn' = [conn EXCEPT ![e] = conn'[e]]
  <2>1. conn' = [conn EXCEPT ![e] = conn'[e]]
    BY <1>2, <1>4, <1>6
    DEF HandleMessage, HandleConnect, HandleKnown, HandleUnknown, Create, SendData, Pause,
        Resume, Typed
  <2> QED BY <1>2, <1>6, <2>1, EndTypes
<1>8. /\ m_Wakeup \subseteq Side /\ run' \in [Side -> Stations]
      /\ outside \in [End -> [input : Nat, full : BOOLEAN, closed : BOOLEAN]]
  BY <1>2, <1>4 DEF Goto, Stations, Typed
<1>9. e \in m_Connections <=> conn[e].at \notin {"none", "done"} BY <1>2, <1>6 DEF Roles
<1>10. CASE m.type = "Connect" /\ HandleConnect(e)
  <2>1. /\ s = Server /\ conn[e] = Connection("none", "none") /\ e \notin m_Connections
        /\ taken[e] = 0 /\ delivered[e] = <<>> /\ why[e] = "none"
    BY <1>1, <1>2, <1>4, <1>6, <1>10, AskedFor
  <2>2. CASE Create(e, "target", "connecting") /\ NoMessage
    <3>1. PICK k : k = Connection("target", "connecting") OBVIOUS
    <3>2. conn' = [conn EXCEPT ![e] = k] /\ m_Connections' = m_Connections \cup {e}
      BY <2>2, <3>1 DEF Create
    <3>3. UNCHANGED <<taken, delivered, why>>
      BY <1>2, <1>6, <2>1, <2>2 DEF Create, Typed
    <3>4. /\ k \in Connections /\ k.m_MessageQueue \in Seq(Held(e))
          /\ outside' \in [End -> [input : Nat, full : BOOLEAN, closed : BOOLEAN]]
      <4>1. k.m_MessageQueue = <<>> BY <3>1 DEF Connection
      <4>2. k \in Connections
            /\ outside' \in [End -> [input : Nat, full : BOOLEAN, closed : BOOLEAN]]
        BY <1>2, <1>6, <2>2, <3>1, CreateTyped
      <4> QED BY <4>1, <4>2, EmptySeq
    <3>5. m_OutQueue' = m_OutQueue /\ m_Wakeup' = m_Wakeup BY <2>2 DEF NoMessage
    <3>6. Heard(e, m, k, None)
      <4>1. /\ k.m_MessageQueue = conn[e].m_MessageQueue /\ k.ToDirect = conn[e].ToDirect
            /\ k.bDisconnect = conn[e].bDisconnect /\ k.at = "connecting" /\ k.role = "target"
            /\ conn[e].at = "none"
        BY <2>1, <3>1 DEF Connection
      <4> QED BY <1>1, <1>4, <1>5, <1>6, <1>10, <2>1, <3>2, <3>3, <3>5, <4>1 DEF Heard
    <3>7. Typed' BY <1>2, <1>4, <1>6, <1>8, <3>4, <3>5, <3>6, HeardTyped
    <3> QED BY <1>6, <3>6, <3>7, HeardKeeps
  <2>3. CASE /\ QueueMessage(e[1], Message("Disconnect", e))
             /\ UNCHANGED <<m_Connections, conn, outside, history>>
    <3>1. PICK a : a = Message("Disconnect", e) OBVIOUS
    <3>2. a \in Real /\ a # None /\ a.type = "Disconnect" /\ a.chan = e[2]
      BY <1>6, <3>1, Messages
    <3>3. Heard(e, m, conn[e], a)
      <4>1. conn[e].at = "none" BY <2>1 DEF Connection
      <4>2. conn' = [conn EXCEPT ![e] = conn[e]] BY <1>2, <2>3 DEF Typed
      <4>3. m_OutQueue' = [m_OutQueue EXCEPT ![e[1]] = Append(@, a)]
        BY <2>3, <3>1 DEF QueueMessage
      <4>4. UNCHANGED <<taken, delivered, why, m_iConnection, m_Connections>>
        BY <1>4, <2>3 DEF history
      <4> QED BY <1>1, <1>4, <1>5, <1>6, <1>10, <3>2, <4>1, <4>2, <4>3, <4>4 DEF Heard
    <3>4. m_Wakeup' \subseteq Side BY <1>6, <1>8, <2>3 DEF QueueMessage
    <3>5. Typed' BY <1>2, <1>4, <1>6, <1>7, <1>8, <2>3, <3>2, <3>3, <3>4, HeardTyped
    <3> QED BY <1>6, <3>2, <3>3, <3>5, HeardKeeps
  <2> QED BY <1>10, <2>2, <2>3 DEF HandleConnect
<1>11. CASE /\ m.type # "Connect" /\ HandleKnown(e, m)
            /\ UNCHANGED <<m_Connections, outside, history>>
  <2>1. UNCHANGED <<taken, delivered, why, m_iConnection, m_Connections>> /\ outside' = outside
    BY <1>4, <1>11 DEF history
  <2>2. e \in m_Connections /\ conn[e].at \notin {"none", "done"} BY <1>9, <1>11 DEF HandleKnown
  <2>3. CASE m.type \in {"Data", "Disconnect"} /\ SendData(e, m)
    <3>1. PICK q, pause : /\ q = Append(conn[e].m_MessageQueue, m)
                          /\ pause = (~conn[e].m_bRXPaused /\ Len(q) >= MaxMessageQueueSize)
      OBVIOUS
    <3>2. PICK k : k = [conn[e] EXCEPT !.m_MessageQueue = q,
                                       !.m_bRXPaused = conn[e].m_bRXPaused \/ pause,
                                       !.m_Wakeup = TRUE]
      OBVIOUS
    <3>3. conn' = [conn EXCEPT ![e] = k]
      BY <1>2, <1>6, <2>3, <3>1, <3>2 DEF SendData, Typed
    <3>4. m \in Held(e) BY <1>5, <1>6, <2>3 DEF Held
    <3>5. q \in Seq(Held(e)) /\ q \in Seq(Real) BY <1>5, <1>7, <3>1, <3>4, AppendProperties
    <3>6. /\ k \in Connections /\ k.m_MessageQueue = q /\ k.ToDirect = conn[e].ToDirect
          /\ k.bDisconnect = conn[e].bDisconnect /\ k.at = conn[e].at /\ k.role = conn[e].role
      <4>1. (conn[e].m_bRXPaused \/ pause) \in BOOLEAN OBVIOUS
      <4> QED BY <1>7, <3>2, <3>5, <4>1 DEF Connections
    <3>7. PICK a : a = IF pause THEN Message("Pause", e) ELSE None OBVIOUS
    <3>8. a \in Real \cup {None} /\ (a # None => a \in Real /\ a.type = "Pause" /\ a.chan = e[2])
          /\ (pause => a # None)
      BY <1>6, <3>7, Messages
    <3>9. /\ m_OutQueue' = IF a = None THEN m_OutQueue
                                       ELSE [m_OutQueue EXCEPT ![e[1]] = Append(@, a)]
          /\ m_Wakeup' \subseteq Side
      <4>1. IF pause THEN QueueMessage(e[1], Message("Pause", e)) ELSE NoMessage
        BY <2>3, <3>1 DEF SendData
      <4> QED BY <1>6, <1>8, <3>7, <3>8, <4>1 DEF QueueMessage, NoMessage
    <3>10. Heard(e, m, k, a)
      <4>1. /\ m \in Real /\ m.chan = e[2] /\ Other(e[1]) = o
            /\ k.m_MessageQueue = Append(conn[e].m_MessageQueue, m)
            /\ k.ToDirect = conn[e].ToDirect /\ k.bDisconnect = conn[e].bDisconnect
            /\ k.at = conn[e].at /\ k.role = conn[e].role /\ conn[e].at \notin {"none", "done"}
        BY <1>1, <1>5, <1>6, <2>2, <3>1, <3>6
      <4> QED BY <1>1, <1>4, <2>1, <2>3, <3>3, <3>8, <3>9, <4>1 DEF Heard
    <3>11. Typed' BY <1>2, <1>4, <1>6, <1>8, <2>1, <3>5, <3>6, <3>8, <3>9, <3>10, HeardTyped
    <3> QED BY <1>6, <3>8, <3>10, <3>11, HeardKeeps
  <2>4. CASE m.type \in {"Pause", "Resume"} /\ (Pause(e) \/ Resume(e)) /\ NoMessage
    <3>1. PICK k : /\ conn' = [conn EXCEPT ![e] = k]
                   /\ k = [conn[e] EXCEPT !.m_bPaused = TRUE]
                      \/ k = [conn[e] EXCEPT !.m_bPaused = FALSE,
                                             !.m_Wakeup = conn[e].m_Wakeup \/ conn[e].m_bPaused]
      <4>1. conn \in [End -> Connections] BY <1>2 DEF Typed
      <4>2. CASE Pause(e)
        <5>1. conn' = [conn EXCEPT ![e] = [conn[e] EXCEPT !.m_bPaused = TRUE]]
          BY <1>6, <4>1, <4>2 DEF Pause
        <5> QED BY <5>1
      <4>3. CASE Resume(e)
        <5>1. conn' = [conn EXCEPT ![e] =
                         [conn[e] EXCEPT !.m_bPaused = FALSE,
                                         !.m_Wakeup = conn[e].m_Wakeup \/ conn[e].m_bPaused]]
          BY <1>6, <4>1, <4>3 DEF Resume
        <5> QED BY <5>1
      <4> QED BY <2>4, <4>2, <4>3
    <3>2. /\ k \in Connections /\ k.m_MessageQueue = conn[e].m_MessageQueue
          /\ k.ToDirect = conn[e].ToDirect
          /\ k.bDisconnect = conn[e].bDisconnect /\ k.at = conn[e].at /\ k.role = conn[e].role
      BY <1>7, <3>1 DEF Connections
    <3>3. m_OutQueue' = m_OutQueue /\ m_Wakeup' = m_Wakeup BY <2>4 DEF NoMessage
    <3>4. Heard(e, m, k, None)
      BY <1>1, <1>4, <1>5, <1>6, <2>1, <2>2, <2>4, <3>1, <3>2, <3>3 DEF Heard
    <3>5. Typed' BY <1>2, <1>4, <1>6, <1>7, <1>8, <2>1, <3>2, <3>3, <3>4, HeardTyped
    <3> QED BY <1>6, <3>4, <3>5, HeardKeeps
  <2> QED BY <1>11, <2>3, <2>4 DEF HandleKnown
<1>12. CASE /\ m.type # "Connect" /\ HandleUnknown(e, m)
            /\ UNCHANGED <<m_Connections, outside, history>>
  <2>1. UNCHANGED <<taken, delivered, why, m_iConnection, m_Connections>> /\ outside' = outside
    BY <1>4, <1>12 DEF history
  <2>2. conn[e].at \in {"none", "done"} /\ conn' = [conn EXCEPT ![e] = conn[e]]
    BY <1>2, <1>9, <1>12 DEF HandleUnknown, Typed
  <2>3. PICK a : a = IF m.type = "Disconnect" THEN None ELSE Message("Disconnect", e) OBVIOUS
  <2>4. a \in Real \cup {None} /\ (a # None => a \in Real /\ a.type = "Disconnect" /\ a.chan = e[2])
        /\ (m.type # "Disconnect" => a # None)
    BY <1>6, <2>3, Messages
  <2>5. /\ m_OutQueue' = IF a = None THEN m_OutQueue
                                     ELSE [m_OutQueue EXCEPT ![e[1]] = Append(@, a)]
        /\ m_Wakeup' \subseteq Side
    <3>1. IF m.type = "Disconnect" THEN NoMessage
                                   ELSE QueueMessage(e[1], Message("Disconnect", e))
      BY <1>12 DEF HandleUnknown
    <3> QED BY <1>6, <1>8, <2>3, <2>4, <3>1 DEF QueueMessage, NoMessage
  <2>6. Heard(e, m, conn[e], a)
    BY <1>1, <1>4, <1>5, <1>6, <2>1, <2>2, <2>4, <2>5 DEF Heard
  <2>7. Typed' BY <1>2, <1>4, <1>6, <1>7, <1>8, <2>1, <2>4, <2>5, <2>6, HeardTyped
  <2> QED BY <1>6, <2>4, <2>6, <2>7, HeardKeeps
<1> QED BY <1>4, <1>10, <1>11, <1>12 DEF HandleMessage

-----------------------------------------------------------------------------
\* The theorems

LEMMA InitHolds == ASSUME OneClient, Init PROVE IInv
<1>1. \A e \in End : /\ conn[e] = Connection("none", "none") /\ conn[e].m_MessageQueue = <<>>
                     /\ conn[e].at = "none" /\ ~conn[e].bDisconnect /\ conn[e].ToDirect = None
                     /\ taken[e] = 0 /\ delivered[e] = <<>> /\ why[e] = "none"
  BY DEF Init, Connection
<1>2. \A s \in Side : wire[s] = <<>> /\ m_OutQueue[s] = <<>> BY DEF Init
<1>3. <<>> \in Seq(Real) /\ <<>> \o <<>> = <<>> BY EmptySeq
<1>4. \A s \in Side : Way(s) = <<>> BY <1>2, <1>3 DEF Way
<1>5. \A e \in End : e[1] \in Side /\ e[2] \in Channel /\ Peer(e) \in End /\ Other(e[1]) \in Side
  BY Ends, Others
<1>6. \A e \in End : Incoming(e) = <<>> BY <1>1, <1>3, <1>4, <1>5 DEF Incoming
<1>7. Typed
  <2>1. Connection("none", "none") \in Connections
    BY <1>3 DEF Connection, Connections
  <2>2. Quiet \in [input : Nat, full : BOOLEAN, closed : BOOLEAN] BY DEF Quiet
  <2>3. conn \in [End -> Connections] BY <2>1 DEF Init
  <2>4. \A e \in End : conn[e].m_MessageQueue \in Seq(Held(e)) BY <1>1, EmptySeq
  <2>5. delivered \in [End -> Seq(Chunk)]
    <3>1. <<>> \in Seq(Chunk) BY EmptySeq
    <3> QED BY <3>1 DEF Init
  <2>6. m_iConnection \in [Side -> 0 .. MaxChannel] BY KTunnelAssumption DEF Init
  <2> QED BY <1>3, <2>2, <2>3, <2>4, <2>5, <2>6 DEF Init, Typed, Stations
<1>8. Roles
  <2>1. m_Connections = {} BY DEF Init
  <2> QED BY <1>1, <2>1 DEF Roles
<1>9. \A c : ~Says(<<>>, c) /\ ~Asks(<<>>, c) /\ ~Quitting(<<>>, c) /\ AskedFirst(<<>>, c)
  <2>1. Len(<<>>) = 0 /\ 1 .. 0 = {} BY EmptySeq
  <2> QED BY <2>1 DEF Says, Asks, Quitting, AskedFirst
<1>10. Talk
  <2>1. \A c \in Channel : <<Server, c>> \in End BY Channels
  <2> QED BY <1>1, <1>4, <1>9, <2>1, Sides DEF Talk
<1>11. Gone BY <1>1, <1>6, <1>9 DEF Gone
<1>12. Flow BY <1>1, <1>4, <1>5, <1>9 DEF Flow, IsOpen
<1>13. Pipes
  <2>1. \A e \in End : Len(delivered[e]) = 0 BY <1>1, EmptySeq
  <2>2. 1 .. 0 = {} OBVIOUS
  <2> QED BY <2>1, <2>2 DEF Pipes
<1> QED BY <1>7, <1>8, <1>10, <1>11, <1>12, <1>13 DEF IInv

LEMMA NextHolds == ASSUME OneClient, IInv, [Next]_vars PROVE IInv'
<1>1. CASE \E s \in Side : \/ Connect(s) \/ Run(s) \/ RunHasSent(s) \/ RunTimesOut(s)
                           \/ RunThrows(s) \/ Stop(s) \/ StopCloses(s)
  BY <1>1, ConnectKeeps, RunSendKeeps, RunReceiveKeeps, OtherRunKeeps DEF Run
<1>2. CASE \E e \in End : \/ Pump(e) \/ PumpLost(e) \/ PumpTimesOut(e)
                          \/ OutsideSends(e) \/ OutsideReads(e) \/ OutsideCloses(e)
  BY <1>2, PumpKeeps, OutsideKeeps
<1>3. CASE UNCHANGED vars BY <1>3, StutterKeeps
<1> QED BY <1>1, <1>2, <1>3 DEF Next

\* The invariant holds of a tunnel whose connections all come from one side.
THEOREM OneSideInvariant ==
    ASSUME OneClient PROVE Spec => []IInv
<1>1. Init => IInv BY InitHolds
<1>2. IInv /\ [Next]_vars => IInv' BY NextHolds
<1> QED BY <1>1, <1>2, PTL DEF Spec

\* The variables have their types: what a pump finds in its queue is data for its own
\* connection or a disconnect.
THEOREM TunnelTypeCorrect ==
    ASSUME OneClient PROVE Spec => []TypeOK
<1>1. Typed => TypeOK
  <2>1. Real \subseteq Sent BY DEF Real
  <2>2. Seq(Real) \subseteq Seq(Sent) BY <2>1, SeqMonotonic
  <2> QED BY <2>2 DEF Typed, TypeOK, Connections, Stations
<1>2. IInv => TypeOK BY <1>1 DEF IInv
<1> QED BY <1>2, OneSideInvariant, PTL

\* Transparent: with the connections of one side, what a stream receives comes from the
\* target it asked for, and a target gets what that stream has sent (ktunnel.h:418).
THEOREM OneSideIsTransparent ==
    ASSUME OneClient PROVE Spec => []Transparent
<1>1. IInv => Transparent
  <2>1. SUFFICES ASSUME IInv, NEW e \in End, NEW i \in DOMAIN delivered[e]
                 PROVE  delivered[e][i].from # conn[e].role
    BY DEF Transparent
  <2>2. delivered[e] \in Seq(Chunk) BY <2>1 DEF IInv, Typed
  <2>3. i \in 1 .. Len(delivered[e]) BY <2>1, <2>2, LenProperties
  <2>4. delivered[e][i] = [from |-> From(e), n |-> i] BY <2>1, <2>3 DEF IInv, Pipes
  <2>5. conn[e].at # "none"
    <3>1. delivered[e] = <<>> => 1 .. Len(delivered[e]) = {} BY EmptySeq
    <3> QED BY <2>1, <2>3, <3>1 DEF IInv, Roles
  <2>6. conn[e].role = IF e[1] = Client THEN "forward" ELSE "target"
    BY <2>1, <2>5 DEF IInv, Roles
  <2> QED BY <2>4, <2>6 DEF From
<1> QED BY <1>1, OneSideInvariant, PTL
-----------------------------------------------------------------------------
\* The tunnel implements its pipes

\* what KTunnelPipes sees
PipeRole  == [e \in End |-> conn[e].role]
PipePhase == [e \in End |-> Phase(e)]
PipeWhy   == [e \in End |-> IF Phase(e) = "closed" THEN why[e] ELSE "none"]

PhaseAt(at) == IF at = "none" THEN "none"
               ELSE IF at \in {"ended", "done"} THEN "closed" ELSE "open"

\* a step that changes one end
LEMMA PipeStep ==
    ASSUME OneClient, IInv, NEW e \in End, NEW k, conn' = [conn EXCEPT ![e] = k]
    PROVE  /\ PipeRole' = [PipeRole EXCEPT ![e] = k.role]
           /\ PipePhase' = [PipePhase EXCEPT ![e] = PhaseAt(k.at)]
           /\ conn'[e] = k /\ \A d \in End \ {e} : conn'[d] = conn[d]
           /\ Phase(e)' = PhaseAt(k.at) /\ \A d \in End \ {e} : Phase(d)' = Phase(d)
<1>1. conn'[e] = k /\ \A d \in End \ {e} : conn'[d] = conn[d] BY DEF IInv, Typed
<1>2. Phase(e)' = PhaseAt(k.at) BY <1>1 DEF Phase, PhaseAt
<1>3. \A d \in End \ {e} : Phase(d)' = Phase(d) BY <1>1 DEF Phase
<1>4. PipeRole' = [PipeRole EXCEPT ![e] = k.role]
  <2>1. PICK r : r = k.role OBVIOUS
  <2>2. \A d \in End : conn'[d].role = IF d = e THEN r ELSE conn[d].role BY <1>1, <2>1
  <2>3. PipeRole' = [PipeRole EXCEPT ![e] = r] BY <2>2, Zenon DEF PipeRole
  <2> QED BY <2>1, <2>3
<1>5. PipePhase' = [PipePhase EXCEPT ![e] = PhaseAt(k.at)] BY <1>2, <1>3 DEF PipePhase
<1> QED BY <1>1, <1>2, <1>3, <1>4, <1>5

\* ... and nothing the pipes show
LEMMA PipeStutter ==
    ASSUME OneClient, IInv, NEW e \in End, NEW k, conn' = [conn EXCEPT ![e] = k],
           k.role = conn[e].role, PhaseAt(k.at) = Phase(e),
           \/ why' = why
           \/ Phase(e) # "closed" /\ \A d \in End \ {e} : why'[d] = why[d],
           UNCHANGED <<taken, delivered>>
    PROVE  UNCHANGED P!vars
<1>1. /\ PipeRole' = [PipeRole EXCEPT ![e] = k.role]
      /\ PipePhase' = [PipePhase EXCEPT ![e] = PhaseAt(k.at)]
      /\ Phase(e)' = PhaseAt(k.at) /\ \A d \in End \ {e} : Phase(d)' = Phase(d)
  BY PipeStep
<1>2. PipeRole' = PipeRole /\ PipePhase' = PipePhase BY <1>1 DEF PipeRole, PipePhase
<1>3. PipeWhy' = PipeWhy BY <1>1 DEF PipeWhy
<1> QED BY <1>2, <1>3 DEF P!vars, PipeRole, PipePhase, PipeWhy

\* what an end puts out is what the pipes say is next
LEMMA PipeDelivers ==
    ASSUME OneClient, IInv, NEW e \in End, IsOpen(e), Outbound(e) # None,
           delivered' = [delivered EXCEPT ![e] = Append(@, Outbound(e))]
    PROVE  P!Deliver(e)
<1>1. Flowing(e) /\ Typed BY DEF IInv, Flow
<1>2. /\ Outbound(e) = [from |-> From(e), n |-> Len(delivered[e]) + 1]
      /\ Len(delivered[e]) + 1 <= taken[Peer(e)]
  BY <1>1, Writes
<1>3. conn[e].role = IF e[1] = Client THEN "forward" ELSE "target" BY DEF IInv, Roles, IsOpen
<1>4. P!Opposite[PipeRole[e]] = From(e) BY <1>3 DEF P!Opposite, PipeRole, From
<1> QED BY <1>2, <1>4 DEF P!Deliver, PipeRole

\* a turn of the pump
LEMMA PipePump ==
    ASSUME OneClient, IInv, NEW e \in End, IsOpen(e), NEW k, conn' = [conn EXCEPT ![e] = k],
           k.role = conn[e].role, PhaseAt(k.at) = "open", why' = why,
           taken' = [taken EXCEPT ![e] = @ + 1] \/ taken' = taken,
           \/ delivered' = delivered
           \/ Outbound(e) # None /\ delivered' = [delivered EXCEPT ![e] = Append(@, Outbound(e))]
    PROVE  P!Pump(e)
<1>1. Phase(e) = "open" BY DEF Phase, IsOpen
<1>2. /\ PipeRole' = [PipeRole EXCEPT ![e] = k.role]
      /\ PipePhase' = [PipePhase EXCEPT ![e] = PhaseAt(k.at)]
      /\ Phase(e)' = PhaseAt(k.at) /\ \A d \in End \ {e} : Phase(d)' = Phase(d)
  BY PipeStep
<1>3. PipeRole' = PipeRole /\ PipePhase' = PipePhase BY <1>1, <1>2 DEF PipeRole, PipePhase
<1>4. PipeWhy' = PipeWhy BY <1>1, <1>2 DEF PipeWhy
<1>5. PipePhase[e] = "open" BY <1>1 DEF PipePhase
<1>6. P!Take(e) \/ taken' = taken BY DEF P!Take
<1>7. P!Deliver(e) \/ delivered' = delivered BY PipeDelivers
<1> QED BY <1>3, <1>4, <1>5, <1>6, <1>7 DEF P!Pump, PipeRole, PipePhase, PipeWhy

\* the end of a pump
LEMMA PipeClose ==
    ASSUME OneClient, IInv, NEW e \in End, IsOpen(e), NEW k, conn' = [conn EXCEPT ![e] = k],
           k.role = conn[e].role, k.at = "ended",
           NEW reason \in {"outside", "timeout", "unreachable", "peer"},
           why' = [why EXCEPT ![e] = reason], taken' = taken,
           reason = "peer" => Quits(e) \/ conn[e].bDisconnect,
           \/ delivered' = delivered
           \/ /\ reason = "outside" /\ Outbound(e) # None
              /\ delivered' = [delivered EXCEPT ![e] = Append(@, Outbound(e))]
    PROVE  P!Close(e, reason)
<1>1. Phase(e) = "open" BY DEF Phase, IsOpen
<1>2. /\ PipeRole' = [PipeRole EXCEPT ![e] = k.role]
      /\ PipePhase' = [PipePhase EXCEPT ![e] = PhaseAt(k.at)]
      /\ Phase(e)' = PhaseAt(k.at) /\ \A d \in End \ {e} : Phase(d)' = Phase(d)
  BY PipeStep
<1>3. PipeRole' = PipeRole BY <1>2 DEF PipeRole
<1>4. PhaseAt(k.at) = "closed"
  <2>1. PhaseAt("ended") = "closed" BY DEF PhaseAt
  <2> QED BY <2>1
<1>5. why'[e] = reason /\ \A d \in End \ {e} : why'[d] = why[d] BY DEF IInv, Typed
<1>6. PipeWhy' = [PipeWhy EXCEPT ![e] = reason]
  <2>1. \A d \in End : (IF Phase(d) = "closed" THEN why[d] ELSE "none")'
                       = IF d = e THEN reason ELSE IF Phase(d) = "closed" THEN why[d] ELSE "none"
    BY <1>2, <1>4, <1>5
  <2> QED BY <2>1, Zenon DEF PipeWhy
<1>7. PipePhase[e] = "open" BY <1>1 DEF PipePhase
<1>8. reason = "peer" => P!Drained(e)
  <2>1. ASSUME reason = "peer" PROVE P!Drained(e)
    <3>1. ~IsOpen(Peer(e)) /\ Len(delivered[e]) = taken[Peer(e)] /\ Peer(e) \in End
      BY <2>1, QuitsDrained, Ends DEF IInv, Flow
    <3>2. PipePhase[Peer(e)] # "open" BY <3>1 DEF PipePhase, Phase, IsOpen
    <3> QED BY <3>1, <3>2 DEF P!Drained, PipePhase
  <2> QED BY <2>1
<1>9. (reason = "outside" /\ P!Deliver(e)) \/ delivered' = delivered BY PipeDelivers
<1> QED BY <1>2, <1>3, <1>4, <1>6, <1>7, <1>8, <1>9 DEF P!Close, PipeRole, PipePhase, PipeWhy

\* a connection begins
LEMMA PipeOpen ==
    ASSUME OneClient, IInv, NEW e \in End, conn[e].at = "none",
           NEW r \in {"forward", "target"}, NEW at \in {"connect", "connecting"},
           conn' = [conn EXCEPT ![e] = Connection(r, at)],
           r = "target" => conn[Peer(e)].role = "forward",
           taken' = taken, delivered' = delivered,
           \A d \in End \ {e} : why'[d] = why[d]
    PROVE  P!Open(e, r)
<1>1. Phase(e) = "none" BY DEF Phase
<1>2. PICK k : k = Connection(r, at) OBVIOUS
<1>3. k.role = r /\ PhaseAt(k.at) = "open" /\ conn' = [conn EXCEPT ![e] = k]
  BY <1>2 DEF Connection, PhaseAt
<1>4. /\ PipeRole' = [PipeRole EXCEPT ![e] = r]
      /\ PipePhase' = [PipePhase EXCEPT ![e] = "open"]
      /\ Phase(e)' = "open" /\ \A d \in End \ {e} : Phase(d)' = Phase(d)
  <2>1. /\ PipeRole' = [PipeRole EXCEPT ![e] = k.role]
        /\ PipePhase' = [PipePhase EXCEPT ![e] = PhaseAt(k.at)]
        /\ Phase(e)' = PhaseAt(k.at) /\ \A d \in End \ {e} : Phase(d)' = Phase(d)
    BY <1>3, PipeStep
  <2> QED BY <1>3, <2>1
<1>5. PipeWhy' = PipeWhy BY <1>1, <1>4 DEF PipeWhy
<1>6. PipePhase[e] = "none" BY <1>1 DEF PipePhase
<1>7. r = "target" => PipeRole[Peer(e)] = "forward" BY Ends DEF PipeRole
<1> QED BY <1>4, <1>5, <1>6, <1>7 DEF P!Open, PipeRole, PipePhase, PipeWhy

\* what only the threads see
LEMMA StutterSteps ==
    ASSUME OneClient, IInv, NEW e \in End,
           \/ ConnectAsks(e) \/ PumpMakesRoom(e) \/ PumpResume(e) \/ PumpSleeps(e)
           \/ PumpWakes(e) \/ Remove(e)
    PROVE  UNCHANGED P!vars
<1>1. PICK k : /\ conn' = [conn EXCEPT ![e] = k] /\ k.role = conn[e].role
               /\ PhaseAt(k.at) = Phase(e)
  <2>1. conn[e] \in Connections BY EndTypes DEF IInv
  <2>2. CASE ConnectAsks(e) \/ PumpResume(e)
    <3>1. PICK k : k = [conn[e] EXCEPT !.at = "round"] OBVIOUS
    <3>2. k.role = conn[e].role /\ k.at = "round" BY <2>1, <3>1 DEF Connections
    <3>3. conn' = [conn EXCEPT ![e] = k] BY <2>2, <3>1 DEF ConnectAsks, PumpResume
    <3>4. Phase(e) = "open" BY <2>2 DEF ConnectAsks, PumpResume, Phase
    <3> QED BY <3>2, <3>3, <3>4 DEF PhaseAt
  <2>3. CASE PumpMakesRoom(e)
    <3>1. PICK k : k = [conn[e] EXCEPT !.at = "resume", !.m_MessageQueue = Rest(e),
                                       !.ToDirect = Outbound(e), !.bDisconnect = Quits(e),
                                       !.m_bRXPaused = FALSE]
      OBVIOUS
    <3>2. k.role = conn[e].role /\ k.at = "resume" BY <2>1, <3>1 DEF Connections
    <3>3. conn' = [conn EXCEPT ![e] = k] BY <2>3, <3>1 DEF PumpMakesRoom
    <3>4. Phase(e) = "open" BY <2>3 DEF PumpMakesRoom, Phase
    <3> QED BY <3>2, <3>3, <3>4 DEF PhaseAt
  <2>4. CASE PumpSleeps(e)
    <3>1. PICK k : k = [conn[e] EXCEPT !.at = IF conn[e].m_bPaused THEN "deaf" ELSE "sleep",
                                       !.m_MessageQueue = Rest(e), !.ToDirect = Outbound(e)]
      OBVIOUS
    <3>2. k.role = conn[e].role /\ k.at \in {"deaf", "sleep"} BY <2>1, <3>1 DEF Connections
    <3>3. conn' = [conn EXCEPT ![e] = k] BY <2>4, <3>1 DEF PumpSleeps
    <3>4. Phase(e) = "open" BY <2>4 DEF PumpSleeps, InRound, Phase
    <3> QED BY <3>2, <3>3, <3>4 DEF PhaseAt
  <2>5. CASE PumpWakes(e)
    <3>1. PICK k : k = [conn[e] EXCEPT !.at = "round", !.m_Wakeup = FALSE] OBVIOUS
    <3>2. k.role = conn[e].role /\ k.at = "round" BY <2>1, <3>1 DEF Connections
    <3>3. conn' = [conn EXCEPT ![e] = k] BY <2>5, <3>1 DEF PumpWakes
    <3>4. Phase(e) = "open" BY <2>5 DEF PumpWakes, Asleep, Phase
    <3> QED BY <3>2, <3>3, <3>4 DEF PhaseAt
  <2>6. CASE Remove(e)
    <3>1. PICK k : k = Connection(conn[e].role, "done") OBVIOUS
    <3>2. k.role = conn[e].role /\ k.at = "done" BY <3>1 DEF Connection
    <3>3. conn' = [conn EXCEPT ![e] = k] BY <2>6, <3>1 DEF Remove
    <3>4. Phase(e) = "closed" BY <2>6 DEF Remove, Phase
    <3> QED BY <3>2, <3>3, <3>4 DEF PhaseAt
  <2> QED BY <2>2, <2>3, <2>4, <2>5, <2>6
<1>2. UNCHANGED <<taken, delivered, why>>
  BY DEF ConnectAsks, PumpMakesRoom, PumpResume, PumpSleeps, PumpWakes, Remove, history
<1> QED BY <1>1, <1>2, PipeStutter

LEMMA QuietSteps ==
    ASSUME UNCHANGED <<conn, taken, delivered, why>>
    PROVE  UNCHANGED P!vars
BY DEF P!vars, Phase

\* the ends of a pump, with or without a last write
LEMMA FinishSteps ==
    ASSUME OneClient, IInv, NEW e \in End, IsOpen(e),
           NEW reason \in {"outside", "timeout", "unreachable", "peer"}, Finish(e, reason),
           taken' = taken, reason = "peer" => Quits(e) \/ conn[e].bDisconnect,
           \/ delivered' = delivered
           \/ /\ reason = "outside" /\ Outbound(e) # None
              /\ delivered' = [delivered EXCEPT ![e] = Append(@, Outbound(e))]
    PROVE  P!Close(e, reason)
<1>1. PICK k : k = [conn[e] EXCEPT !.at = "ended", !.m_MessageQueue = <<>>, !.ToDirect = None]
  OBVIOUS
<1>2. conn[e] \in Connections BY EndTypes DEF IInv
<1>3. k.role = conn[e].role /\ k.at = "ended" BY <1>1, <1>2 DEF Connections
<1>4. conn' = [conn EXCEPT ![e] = k] /\ why' = [why EXCEPT ![e] = reason] BY <1>1 DEF Finish
<1> QED BY <1>3, <1>4, PipeClose

LEMMA PumpSteps ==
    ASSUME OneClient, IInv, NEW e \in End, Pump(e) \/ PumpLost(e) \/ PumpTimesOut(e)
    PROVE  P!Next \/ UNCHANGED P!vars
<1>1. CASE \/ ConnectAsks(e) \/ PumpMakesRoom(e) \/ PumpResume(e) \/ PumpSleeps(e)
           \/ PumpWakes(e) \/ Remove(e)
  BY <1>1, StutterSteps
<1>2. CASE ConnectToTarget(e)
  <2>1. conn[e] \in Connections /\ conn[e].at = "connecting" BY <1>2, EndTypes DEF IInv, ConnectToTarget
  <2>2. UNCHANGED <<taken, delivered>> BY <1>2 DEF ConnectToTarget
  <2>3. PICK k : conn' = [conn EXCEPT ![e] = k] /\
          \/ k = [conn[e] EXCEPT !.at = "round"] /\ why' = why
          \/ k = [conn[e] EXCEPT !.at = "ended"] /\ why' = [why EXCEPT ![e] = "unreachable"]
    BY <1>2 DEF ConnectToTarget
  <2>4. k.role = conn[e].role BY <2>1, <2>3 DEF Connections
  <2>5. CASE k = [conn[e] EXCEPT !.at = "round"] /\ why' = why
    <3>1. k.at = "round" BY <2>1, <2>5 DEF Connections
    <3>2. PhaseAt(k.at) = Phase(e) BY <2>1, <3>1 DEF Phase, PhaseAt
    <3> QED BY <2>2, <2>3, <2>4, <2>5, <3>2, PipeStutter
  <2>6. CASE k = [conn[e] EXCEPT !.at = "ended"] /\ why' = [why EXCEPT ![e] = "unreachable"]
    <3>1. k.at = "ended" BY <2>1, <2>6 DEF Connections
    <3>2. IsOpen(e) BY <2>1 DEF IsOpen
    <3>3. P!Close(e, "unreachable") BY <2>2, <2>3, <2>4, <2>6, <3>1, <3>2, PipeClose
    <3> QED BY <3>3 DEF P!Next
  <2> QED BY <2>3, <2>5, <2>6
<1>3. CASE PumpQuits(e)
  <2>1. IsOpen(e) BY <1>3 DEF PumpQuits, IsOpen
  <2>2. Finish(e, "peer") /\ UNCHANGED <<taken, delivered>> /\ (Quits(e) \/ conn[e].bDisconnect)
    BY <1>3 DEF PumpQuits
  <2>3. P!Close(e, "peer") BY <2>1, <2>2, FinishSteps
  <2> QED BY <2>3 DEF P!Next
<1>4. CASE PumpLost(e)
  <2>1. IsOpen(e) BY <1>4 DEF PumpLost, IsOpen, InRound, Asleep
  <2>2. Finish(e, "outside") /\ UNCHANGED <<taken, delivered>> BY <1>4 DEF PumpLost
  <2>3. P!Close(e, "outside") BY <2>1, <2>2, FinishSteps
  <2> QED BY <2>3 DEF P!Next
<1>5. CASE PumpTimesOut(e)
  <2>1. IsOpen(e) BY <1>5 DEF PumpTimesOut, IsOpen, Asleep
  <2>2. Finish(e, "timeout") /\ UNCHANGED <<taken, delivered>> BY <1>5 DEF PumpTimesOut
  <2>3. P!Close(e, "timeout") BY <2>1, <2>2, FinishSteps
  <2> QED BY <2>3 DEF P!Next
<1>6. CASE PumpIO(e)
  <2>1. IsOpen(e) /\ conn[e].at = "round" BY <1>6 DEF PumpIO, IsOpen, InRound
  <2>2. \/ delivered' = delivered
        \/ /\ Outbound(e) # None
           /\ delivered' = [delivered EXCEPT ![e] = Append(@, Outbound(e))]
    BY <1>6 DEF PumpIO, CanWrite
  <2>3. CASE EndOfFile(e)
    <3>1. Finish(e, "outside") /\ taken' = taken BY <1>6, <2>3 DEF PumpIO, EndOfFile
    <3>2. P!Close(e, "outside") BY <2>1, <2>2, <3>1, FinishSteps
    <3> QED BY <3>2 DEF P!Next
  <2>4. CASE ~EndOfFile(e)
    <3>1. PICK k : k = [conn[e] EXCEPT !.m_MessageQueue = Rest(e),
                                       !.ToDirect = IF CanWrite(e) THEN None ELSE Outbound(e)]
      OBVIOUS
    <3>2. conn[e] \in Connections BY EndTypes DEF IInv
    <3>3. k.role = conn[e].role /\ k.at = "round" BY <2>1, <3>1, <3>2 DEF Connections
    <3>4. conn' = [conn EXCEPT ![e] = k] /\ why' = why
      BY <1>6, <2>4, <3>1 DEF PumpIO, EndOfFile
    <3>5. taken' = [taken EXCEPT ![e] = @ + 1] \/ taken' = taken
      BY <1>6, <2>4 DEF PumpIO, EndOfFile
    <3>6. PhaseAt(k.at) = "open" BY <3>3 DEF PhaseAt
    <3>7. P!Pump(e) BY <2>1, <2>2, <3>3, <3>4, <3>5, <3>6, PipePump
    <3> QED BY <3>7 DEF P!Next
  <2> QED BY <2>3, <2>4
<1> QED BY <1>1, <1>2, <1>3, <1>4, <1>5, <1>6 DEF Pump

LEMMA ConnectSteps ==
    ASSUME OneClient, IInv, NEW s \in Side, Connect(s)
    PROVE  P!Next
<1>1. PICK c \in Channel : /\ conn[<<Client, c>>].at = "none"
                           /\ Create(<<Client, c>>, "forward", "connect")
  BY ConnectTakes DEF IInv
<1>2. PICK e : e = <<Client, c>> OBVIOUS
<1>3. e \in End BY <1>2, Sides DEF End
<1>4. taken[e] = 0 /\ delivered[e] = <<>> BY <1>1, <1>2, <1>3 DEF IInv, Roles
<1>5. /\ conn' = [conn EXCEPT ![e] = Connection("forward", "connect")]
      /\ taken' = taken /\ delivered' = delivered /\ \A d \in End \ {e} : why'[d] = why[d]
  BY <1>1, <1>2, <1>3, <1>4 DEF Create, IInv, Typed
<1>6. P!Open(e, "forward") BY <1>1, <1>2, <1>3, <1>5, PipeOpen
<1> QED BY <1>3, <1>6 DEF P!Next

LEMMA ReceiveSteps ==
    ASSUME OneClient, IInv, NEW s \in Side, RunReceive(s)
    PROVE  P!Next \/ UNCHANGED P!vars
<1>1. PICK o, m, e : o = Other(s) /\ m = Head(wire[o]) /\ e = <<s, m.chan>> OBVIOUS
<1>2. Typed /\ Roles /\ Talk BY DEF IInv
<1>3. o \in Side BY <1>1, Others
<1>4. wire[o] # <<>> /\ HandleMessage(e, m) BY <1>1 DEF RunReceive
<1>5. m.chan \in Channel /\ (m.type = "Connect" => Asks(Way(o), m.chan))
  BY <1>1, <1>2, <1>3, <1>4, NextMessage
<1>6. e \in End /\ e[1] = s /\ e[2] = m.chan BY <1>1, <1>5 DEF End
<1>7. CASE m.type = "Connect" /\ HandleConnect(e)
  <2>1. /\ s = Server /\ conn[e] = Connection("none", "none") /\ e \notin m_Connections
        /\ taken[e] = 0 /\ delivered[e] = <<>> /\ why[e] = "none"
    BY <1>1, <1>2, <1>4, <1>6, <1>7, AskedFor
  <2>2. CASE Create(e, "target", "connecting")
    <3>1. /\ conn' = [conn EXCEPT ![e] = Connection("target", "connecting")]
          /\ taken' = taken /\ delivered' = delivered
          /\ \A d \in End \ {e} : why'[d] = why[d]
      BY <1>2, <1>6, <2>1, <2>2 DEF Create, Typed
    <3>2. conn[e].at = "none" BY <2>1 DEF Connection
    <3>3. conn[Peer(e)].role = "forward"
      <4>1. o = Client BY <1>1, <2>1, Sides
      <4>2. Asks(Way(Client), m.chan) BY <1>5, <1>7, <4>1
      <4>3. Says(Way(Client), m.chan) BY <4>2 DEF Asks, Says, IsAsk
      <4>4. conn[<<Client, m.chan>>].at \notin {"none", "connect"} BY <1>2, <1>5, <4>3 DEF Talk
      <4>5. Peer(e) = <<Client, m.chan>> /\ Peer(e) \in End /\ Peer(e)[1] = Client
        BY <1>1, <1>6, <4>1, Ends DEF Peer
      <4> QED BY <1>2, <4>4, <4>5 DEF Roles
    <3>4. P!Open(e, "target") BY <1>6, <3>1, <3>2, <3>3, PipeOpen
    <3> QED BY <1>6, <3>4 DEF P!Next
  <2>3. CASE UNCHANGED <<conn, history>> BY <2>3, QuietSteps DEF history
  <2> QED BY <1>7, <2>2, <2>3 DEF HandleConnect
<1>8. CASE HandleKnown(e, m) /\ UNCHANGED history
  <2>1. conn[e] \in Connections BY <1>2, <1>6, EndTypes
  <2>2. CASE SendData(e, m)
    <3>1. PICK q, b : conn' = [conn EXCEPT ![e].m_MessageQueue = q,
                                           ![e].m_bRXPaused = conn[e].m_bRXPaused \/ b,
                                           ![e].m_Wakeup = TRUE]
      BY <1>2, <1>6, <2>2 DEF SendData, Typed
    <3>2. PICK k : k = [conn[e] EXCEPT !.m_MessageQueue = q,
                                       !.m_bRXPaused = conn[e].m_bRXPaused \/ b,
                                       !.m_Wakeup = TRUE]
      OBVIOUS
    <3>3. conn' = [conn EXCEPT ![e] = k] BY <1>2, <1>6, <3>1, <3>2 DEF Typed
    <3>4. k.role = conn[e].role /\ k.at = conn[e].at
      <4>1. PICK x : x = (conn[e].m_bRXPaused \/ b) OBVIOUS
      <4>2. k = [conn[e] EXCEPT !.m_MessageQueue = q, !.m_bRXPaused = x, !.m_Wakeup = TRUE]
        BY <3>2, <4>1
      <4> QED BY <2>1, <4>2 DEF Connections
    <3>5. PhaseAt(k.at) = Phase(e) BY <3>4 DEF Phase, PhaseAt
    <3> QED BY <1>6, <1>8, <3>3, <3>4, <3>5, PipeStutter DEF history
  <2>3. CASE Pause(e) \/ Resume(e)
    <3>1. PICK k : /\ conn' = [conn EXCEPT ![e] = k]
                   /\ k = [conn[e] EXCEPT !.m_bPaused = TRUE]
                      \/ k = [conn[e] EXCEPT !.m_bPaused = FALSE,
                                             !.m_Wakeup = conn[e].m_Wakeup \/ conn[e].m_bPaused]
      <4>1. conn \in [End -> Connections] BY <1>2 DEF Typed
      <4>2. CASE Pause(e)
        <5>1. conn' = [conn EXCEPT ![e] = [conn[e] EXCEPT !.m_bPaused = TRUE]]
          BY <1>6, <4>1, <4>2 DEF Pause
        <5> QED BY <5>1
      <4>3. CASE Resume(e)
        <5>1. conn' = [conn EXCEPT ![e] =
                         [conn[e] EXCEPT !.m_bPaused = FALSE,
                                         !.m_Wakeup = conn[e].m_Wakeup \/ conn[e].m_bPaused]]
          BY <1>6, <4>1, <4>3 DEF Resume
        <5> QED BY <5>1
      <4> QED BY <2>3, <4>2, <4>3
    <3>2. k.role = conn[e].role /\ k.at = conn[e].at BY <2>1, <3>1 DEF Connections
    <3>3. PhaseAt(k.at) = Phase(e) BY <3>2 DEF Phase, PhaseAt
    <3> QED BY <1>6, <1>8, <3>1, <3>2, <3>3, PipeStutter DEF history
  <2> QED BY <1>8, <2>2, <2>3 DEF HandleKnown
<1>9. CASE HandleUnknown(e, m) /\ UNCHANGED history
  BY <1>9, QuietSteps DEF HandleUnknown, history
<1> QED BY <1>4, <1>7, <1>8, <1>9 DEF HandleMessage

LEMMA NextSteps ==
    ASSUME OneClient, IInv, [Next]_vars
    PROVE  P!Next \/ UNCHANGED P!vars
<1>1. CASE \E s \in Side : Connect(s) BY <1>1, ConnectSteps
<1>2. CASE \E s \in Side : RunReceive(s) BY <1>2, ReceiveSteps
<1>3. CASE \E s \in Side : \/ RunSend(s) \/ RunHasSent(s) \/ RunReads(s) \/ RunSleeps(s)
                           \/ RunWakes(s) \/ RunEnds(s) \/ RunTimesOut(s) \/ RunThrows(s)
                           \/ Stop(s) \/ StopCloses(s)
  <2>1. UNCHANGED <<conn, taken, delivered, why>>
    BY <1>3 DEF RunSend, RunHasSent, RunReads, RunSleeps, RunWakes, RunEnds, RunTimesOut,
               RunThrows, Stop, StopCloses, Leave, history
  <2> QED BY <2>1, QuietSteps
<1>4. CASE \E e \in End : Pump(e) \/ PumpLost(e) \/ PumpTimesOut(e) BY <1>4, PumpSteps
<1>5. CASE \E e \in End : OutsideSends(e) \/ OutsideReads(e) \/ OutsideCloses(e)
  <2>1. UNCHANGED <<conn, taken, delivered, why>>
    BY <1>5 DEF OutsideSends, OutsideReads, OutsideCloses, history
  <2> QED BY <2>1, QuietSteps
<1>6. CASE UNCHANGED vars
  <2>1. UNCHANGED <<conn, taken, delivered, why>> BY <1>6 DEF vars, history
  <2> QED BY <2>1, QuietSteps
<1> QED BY <1>1, <1>2, <1>3, <1>4, <1>5, <1>6 DEF Next, Run

LEMMA InitPipes == ASSUME Init PROVE P!Init
<1>1. \A e \in End : conn[e].role = "none" /\ Phase(e) = "none"
  BY DEF Init, Connection, Phase
<1> QED BY <1>1 DEF P!Init, Init

\* ImplementsPipes: the tunnel's threads, messages, queues and pauses together are what
\* KTunnelPipes says of each connection (ktunnel.h:74): what one end takes in comes out at
\* the other, complete and in order, and an end that follows its peer has put out all.
THEOREM TunnelImplementsPipes ==
    ASSUME OneClient PROVE Spec => ImplementsPipes
<1>1. Init => P!Init BY InitPipes
<1>2. IInv /\ [Next]_vars => [P!Next]_(P!vars) BY NextSteps
<1> QED BY <1>1, <1>2, OneSideInvariant, PTL DEF Spec, ImplementsPipes, P!Spec

=============================================================================
