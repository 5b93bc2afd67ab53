----------------------------- MODULE KTunnelPipes ---------------------------
(***************************************************************************)
(* What a tunnel promises about its connections, without messages, queues  *)
(* and threads: each is a pair of byte pipes between the stream that asked *)
(* for it (the forward end) and the target.  What is taken in at one end   *)
(* comes out at the other, complete and in order, and an end that is       *)
(* closed because the other one was has put out all of it before.          *)
(* KTunnel implements this specification (ImplementsPipes there).          *)
(***************************************************************************)
EXTENDS Naturals, Sequences

CONSTANTS End, Peer(_)

VARIABLES role,        \* [End -> forward, target or none]
          phase,       \* none, open, closed
          taken,       \* chunks taken in
          delivered,   \* and the chunks put out, in order
          why          \* an end was closed

vars == <<role, phase, taken, delivered, why>>

Opposite == [forward |-> "target", target |-> "forward", none |-> "none"]

Init == /\ role      = [e \in End |-> "none"]
        /\ phase     = [e \in End |-> "none"]
        /\ taken     = [e \in End |-> 0]
        /\ delivered = [e \in End |-> <<>>]
        /\ why       = [e \in End |-> "none"]

Open(e, r) == /\ phase[e] = "none"
              /\ r = "target" => role[Peer(e)] = "forward"
              /\ phase' = [phase EXCEPT ![e] = "open"]
              /\ role'  = [role EXCEPT ![e] = r]
              /\ UNCHANGED <<taken, delivered, why>>

Take(e) == taken' = [taken EXCEPT ![e] = @ + 1]

\* the next chunk of those the peer has taken
Deliver(e) ==
    LET n == Len(delivered[e]) + 1
    IN  /\ n <= taken[Peer(e)]
        /\ delivered' = [delivered EXCEPT ![e] =
                            Append(@, [from |-> Opposite[role[e]], n |-> n])]

\* an open end takes, puts out, or both
Pump(e) == /\ phase[e] = "open"
           /\ Take(e) \/ UNCHANGED taken
           /\ Deliver(e) \/ UNCHANGED delivered
           /\ UNCHANGED <<role, phase, why>>

Drained(e) == phase[Peer(e)] # "open" /\ Len(delivered[e]) = taken[Peer(e)]

\* by its own outside (after a last chunk, perhaps), for want of traffic or of a
\* target, or after its peer
Close(e, reason) ==
    /\ phase[e] = "open"
    /\ reason \in {"outside", "timeout", "unreachable", "peer"}
    /\ reason = "peer" => Drained(e)
    /\ phase' = [phase EXCEPT ![e] = "closed"]
    /\ why'   = [why EXCEPT ![e] = reason]
    /\ (reason = "outside" /\ Deliver(e)) \/ UNCHANGED delivered
    /\ UNCHANGED <<role, taken>>

Next == \E e \in End :
            \/ Open(e, "forward") \/ Open(e, "target") \/ Pump(e)
            \/ \E reason \in {"outside", "timeout", "unreachable", "peer"} : Close(e, reason)

Spec == Init /\ [][Next]_vars

=============================================================================
