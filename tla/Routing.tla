------------------------------- MODULE Routing -------------------------------
(***************************************************************************)
(* The message router (routing.c): a message is handed from mote to mote,   *)
(* always to the neighbour nearest to its destination, over Contiki's       *)
(* runicast, which retransmits until it gets an acknowledgement.            *)
(*                                                                         *)
(* Runicast is not part of the repository.  It is modelled from the way     *)
(* routing.c uses it: one transmission at a time, runicast_send() returns 0 *)
(* during one, and every data packet that arrives is first acknowledged and *)
(* then given to recv_uc(), duplicates included.                            *)
(*                                                                         *)
(* The router reads the graph that discovery keeps.  Of that graph only the *)
(* ends of the mote's own edges and the nodes matter here; Rediscover        *)
(* changes both, within what the constant View allows.  An edge may lack the *)
(* node at its end, as in the graphs that mote_malloc shows.  Positions do   *)
(* not change.                                                              *)
(***************************************************************************)
EXTENDS Integers, FiniteSets

CONSTANTS
    Node,
    View,           \* [Node -> SUBSET RouterGraph]: what a mote's graph can be
    Distance,       \* [Node \X Node -> Nat]: square of the distance
    Msg,            \* the messages applications send
    Origin,         \* [Msg -> Node]
    Target,         \* [Msg -> Node]
    packet_hash,    \* [Node \X Msg -> Hash]: of the previous hop and the data
    Hash,
    InitialHash,    \* 0, with which last_received_packet_hash starts; a packet
                    \* can have this hash like any other
    Nobody,         \* linkaddr_null
    MaxTransmissions, \* third argument of runicast_send, 255
    ROUTING_DEBUG,  \* __ROUTING_DEBUG__: PRINTF prints, instead of nothing
    Lossy,          \* may the radio lose packets?
    Overlapping     \* may a message be sent while another one is under way?

(* Of a mote's graph, what the router reads: the ends of the mote's own     *)
(* edges, and the nodes.                                                    *)
RouterGraph == [ends : SUBSET Node, nodes : SUBSET Node]

ASSUME NetworkAssumption ==
    /\ IsFiniteSet(Node) /\ Nobody \notin Node
    /\ View \in [Node -> SUBSET RouterGraph]
    /\ \A n \in Node : \A g \in View[n] : n \notin g.ends
    /\ Distance \in [Node \X Node -> Nat]
ASSUME MessageAssumption ==
    /\ IsFiniteSet(Msg)
    /\ Origin \in [Msg -> Node]
    /\ Target \in [Msg -> Node]
    /\ InitialHash \in Hash
    /\ packet_hash \in [Node \X Msg -> Hash]
ASSUME RadioAssumption ==
    /\ MaxTransmissions \in Nat \ {0}
    /\ {ROUTING_DEBUG, Lossy, Overlapping} \subseteq BOOLEAN

VARIABLES
    graph,      \* what the router of every mote sees of its graph now
    pending,    \* the messages no application has sent yet
    last,       \* last_received_packet_hash of every mote
    tx,         \* the message a mote's runicast transmits: [to, msg, rxmit]
    sndnxt,     \* the packet id runicast uses next
    data,       \* data packets in flight: [from, to, msg, id]
    acks,       \* acknowledgements in flight: [to, id]
    hung,       \* the motes that do not leave recv_uc() any more
    processed,  \* history: [to, from, msg] that got past the duplicate check
    twice,      \* history: those of them that got past it again
    delivered,  \* history: how often the callback got a message, up to 2
    failed      \* history: messages of which a copy was given up

vars == <<graph, pending, last, tx, sndnxt, data, acks, hung,
          processed, twice, delivered, failed>>

-----------------------------------------------------------------------------
(* The ends of own edges that find_node() finds; the others are skipped.    *)
Neighbours(g) == g.ends \cap g.nodes

(* Those of them that are nearest to dst, linkaddr_null if there is none.   *)
Nearest(known, dst) ==
    IF known = {} THEN {Nobody}
    ELSE {r \in known : \A s \in known : Distance[<<r, dst>>] <= Distance[<<s, dst>>]}

(* A bug for the mutants: edges of other motes are looked at, too.          *)
get_nearest_neighbour_any(n, dst) ==
    Nearest(UNION {Neighbours(graph[k]) : k \in Node}, dst)

(* Of several neighbours at the same distance the first one in the array    *)
(* is taken, which can be any.                                              *)
get_nearest_neighbour(n, dst) == Nearest(Neighbours(graph[n]), dst)

(* runicast: no transmission under way, and the start of one.               *)
Idle == [to |-> Nobody]

Busy(n) == tx[n] # Idle

(* runicast_send(), with the packets in flight that remain: it fails, and   *)
(* so loses the message, during a transmission, and is not even called when *)
(* there is no neighbour.                                                   *)
HandOver(n, m, rest) ==
    \E r \in get_nearest_neighbour(n, Target[m]) :
        \/ /\ r # Nobody /\ ~Busy(n)
           /\ tx' = [tx EXCEPT ![n] = [to |-> r, msg |-> m, rxmit |-> 0]]
           /\ data' = rest \cup {[from |-> n, to |-> r, msg |-> m, id |-> sndnxt[n]]}
           /\ UNCHANGED failed
        \/ /\ r = Nobody \/ Busy(n)
           /\ failed' = failed \cup {m}
           /\ data' = rest
           /\ UNCHANGED tx

Quiet == data = {} /\ acks = {} /\ \A n \in Node : ~Busy(n)

-----------------------------------------------------------------------------
Init ==
    /\ graph \in [Node -> UNION {View[n] : n \in Node}]
    /\ \A n \in Node : graph[n] \in View[n]
    /\ pending = Msg
    /\ last = [n \in Node |-> InitialHash]
    /\ tx = [n \in Node |-> Idle]
    /\ sndnxt = [n \in Node |-> 0]
    /\ data = {} /\ acks = {}
    /\ hung = {}
    /\ processed = {} /\ twice = {}
    /\ delivered = [m \in Msg |-> 0]
    /\ failed = {}

(* An application calls send_message(), which ignores the result of         *)
(* runicast_send().                                                         *)
Send(m) ==
    /\ m \in pending /\ Origin[m] \notin hung
    /\ Overlapping \/ Quiet
    /\ pending' = pending \ {m}
    /\ HandOver(Origin[m], m, data)
    /\ UNCHANGED <<graph, last, sndnxt, acks, hung, processed, twice, delivered>>

(* Bugs for the mutants: no packet, or every packet of the same previous    *)
(* hop, is taken for a duplicate.                                           *)
Duplicate_never(p) == FALSE
Duplicate_sender(p) == \E m \in Msg : last[p.to] = packet_hash[<<p.from, m>>]

(* Only the packet before is remembered.                                    *)
Duplicate(p) == last[p.to] = packet_hash[<<p.from, p.msg>>]

(* recv_uc() of a packet that is not ignored: the callback, or one more     *)
(* hop.  The loop around runicast_send() counts its tries in the argument   *)
(* of PRINTF; nothing ends the transmission it waits for while it runs.     *)
Process(p) ==
    LET n == p.to
        hop == [to |-> n, from |-> p.from, msg |-> p.msg]
    IN  /\ last' = [last EXCEPT ![n] = packet_hash[<<p.from, p.msg>>]]
        /\ processed' = processed \cup {hop}
        /\ twice' = twice \cup ({hop} \cap processed)
        /\ \/ /\ n = Target[p.msg]
              /\ delivered' = [delivered EXCEPT ![p.msg] = IF @ < 2 THEN @ + 1 ELSE @]
              /\ data' = data \ {p}
              /\ UNCHANGED <<tx, failed, hung>>
           \/ /\ n # Target[p.msg]
              /\ HandOver(n, p.msg, data \ {p})
              /\ hung' = IF Busy(n) /\ Neighbours(graph[n]) # {} /\ ~ROUTING_DEBUG
                         THEN hung \cup {n} ELSE hung
              /\ UNCHANGED delivered

(* A bug for the mutants: the hash is not taken down.                       *)
Receive_unmarked(p) ==
    /\ p.to \notin hung
    /\ acks' = acks \cup {[to |-> p.from, id |-> p.id]}
    /\ IF p.to = Target[p.msg]
       THEN /\ delivered' = [delivered EXCEPT ![p.msg] = IF @ < 2 THEN @ + 1 ELSE @]
            /\ data' = data \ {p}
            /\ UNCHANGED <<tx, failed>>
       ELSE HandOver(p.to, p.msg, data \ {p}) /\ UNCHANGED delivered
    /\ UNCHANGED <<graph, pending, last, sndnxt, hung, processed, twice>>

(* A data packet arrives: it is acknowledged and then given to recv_uc().   *)
Receive(p) ==
    /\ p.to \notin hung
    /\ acks' = acks \cup {[to |-> p.from, id |-> p.id]}
    /\ \/ /\ Duplicate(p)
          /\ data' = data \ {p}
          /\ UNCHANGED <<last, tx, hung, processed, twice, delivered, failed>>
       \/ ~Duplicate(p) /\ Process(p)
    /\ UNCHANGED <<graph, pending, sndnxt>>

(* The transmission ends, and the next one has another id.                  *)
Finish(n) ==
    /\ tx' = [tx EXCEPT ![n] = Idle]
    /\ sndnxt' = [sndnxt EXCEPT ![n] = (@ + 1) % 4]

Acknowledge(k) ==
    /\ k.to \notin hung
    /\ acks' = acks \ {k}
    /\ IF Busy(k.to) /\ k.id = sndnxt[k.to]
       THEN Finish(k.to)
       ELSE UNCHANGED <<tx, sndnxt>>
    /\ UNCHANGED <<graph, pending, last, data, hung, processed, twice, delivered, failed>>

(* The timer of the transmission expires, seconds after the packet and its  *)
(* acknowledgement arrived or were lost.                                    *)
TimerExpires(n) ==
    /\ Busy(n) /\ n \notin hung
    /\ \A p \in data : p.from # n
    /\ \A k \in acks : k.to # n
    /\ UNCHANGED <<graph, pending, last, acks, hung, processed, twice, delivered>>

Retransmit(n) ==
    /\ TimerExpires(n)
    /\ tx[n].rxmit + 1 < MaxTransmissions
    /\ tx' = [tx EXCEPT ![n].rxmit = @ + 1]
    /\ data' = data \cup {[from |-> n, to |-> tx[n].to, msg |-> tx[n].msg,
                           id |-> sndnxt[n]]}
    /\ UNCHANGED <<sndnxt, failed>>

(* Nobody is told of it: routing.c sets no timedout callback.               *)
TimeOut(n) ==
    /\ TimerExpires(n)
    /\ tx[n].rxmit + 1 >= MaxTransmissions
    /\ Finish(n)
    /\ failed' = failed \cup {tx[n].msg}
    /\ UNCHANGED data

(* The radio loses a packet or an acknowledgement; a mote that hangs hears  *)
(* none.                                                                    *)
Lose(p) ==
    /\ Lossy \/ p.to \in hung
    /\ data' = data \ {p} /\ acks' = acks \ {p}
    /\ UNCHANGED <<graph, pending, last, tx, sndnxt, hung, processed, twice,
                   delivered, failed>>

(* Discovery adds or purges edges and nodes of n.                           *)
Rediscover(n) ==
    /\ n \notin hung
    /\ \E g \in View[n] \ {graph[n]} : graph' = [graph EXCEPT ![n] = g]
    /\ UNCHANGED <<pending, last, tx, sndnxt, data, acks, hung, processed, twice,
                   delivered, failed>>

Next ==
    \/ \E m \in Msg : Send(m)
    \/ \E p \in data : Receive(p)
    \/ \E k \in acks : Acknowledge(k)
    \/ \E n \in Node : Retransmit(n)
    \/ \E n \in Node : TimeOut(n)
    \/ \E p \in data \cup acks : Lose(p)
    \/ \E n \in Node : Rediscover(n)

Spec == Init /\ [][Next]_vars

(* Contiki calls the handlers of the packets that arrive and of the timers  *)
(* that expire.  Applications need not send, and packets need not arrive;   *)
(* those to a mote that hangs do not stay on the air.                       *)
Handling ==
    \/ \E p \in data : Receive(p)
    \/ \E k \in acks : Acknowledge(k)
    \/ \E n \in Node : Retransmit(n)
    \/ \E n \in Node : TimeOut(n)
    \/ \E p \in data \cup acks : p.to \in hung /\ Lose(p)

FairSpec == Spec /\ WF_vars(Handling)

-----------------------------------------------------------------------------
(* Properties.                                                              *)

(* What discovery can show a mote as its neighbours.                        *)
Shown(n) == UNION {Neighbours(g) : g \in View[n]}

Transmission == [to : Node, msg : Msg, rxmit : 0..MaxTransmissions-1]

(* A mote transmits only to what discovery has shown it as a neighbour, and *)
(* at most MaxTransmissions times.                                          *)
TypeOK ==
    /\ graph \in [Node -> RouterGraph]
    /\ \A n \in Node : graph[n] \in View[n]
    /\ pending \subseteq Msg /\ failed \subseteq Msg
    /\ last \in [Node -> Hash]
    /\ tx \in [Node -> {Idle} \cup Transmission]
    /\ \A n \in Node : Busy(n) => tx[n].to \in Shown(n)
    /\ sndnxt \in [Node -> 0..3]
    /\ data \subseteq [from : Node, to : Node, msg : Msg, id : 0..3]
    /\ acks \subseteq [to : Node, id : 0..3]
    /\ hung \subseteq Node
    /\ delivered \in [Msg -> 0..2]

(* A message has come back to a mote that it had left.                      *)
Looped(m) ==
    \E hop \in processed :
        /\ hop.msg = m
        /\ \/ hop.to = Origin[m]
           \/ \E other \in processed :
                 other.msg = m /\ other.to = hop.to /\ other.from # hop.from

(* The packets of the message have hashes of their own: no other packet has *)
(* the same one, and it is not the one every mote starts with.  A CRC of 16 *)
(* bits gives no such guarantee.                                            *)
OwnHashes(m) ==
    \A n \in Node :
        /\ packet_hash[<<n, m>>] # InitialHash
        /\ \A p \in Node \X Msg :
              packet_hash[p] = packet_hash[<<n, m>>] => p = <<n, m>>

(* A message that has been sent, does not go in circles and has hashes of   *)
(* its own has got to its destination, is being transmitted, or a copy of   *)
(* it was given up: the duplicate check never swallows the only copy,       *)
(* whatever messages, retransmissions and changes of the graph mix, and     *)
(* whichever hashes of other messages collide.                              *)
Custody ==
    \A m \in Msg \ pending :
        OwnHashes(m) =>
            \/ delivered[m] > 0
            \/ m \in failed
            \/ \E n \in Node : Busy(n) /\ tx[n].msg = m
            \/ Looped(m)

(* Sent one after the other, no message reaches the application twice,      *)
(* however often it is retransmitted, as long as the routes do not change.  *)
AtMostOnce == \A m \in Msg : delivered[m] <= 1

(* Sent one after the other, messages do not circulate for ever: one whose  *)
(* route leads into a circle is stopped by the duplicate check, or by a     *)
(* mote that is still transmitting it.  In the default build such a mote    *)
(* hangs (TriesEnd); nobody else goes on transmitting.  With ROUTING_DEBUG  *)
(* no mote hangs, and everything gets quiet.                                *)
DiesOut ==
    <>[](data = {} /\ acks = {} /\ \A n \in Node : Busy(n) => n \in hung)

(* What the comment in recv_uc() says: a packet that has already been       *)
(* received is ignored ...                                                  *)
ReceivedIgnored == twice = {}

(* ... and one that is ignored has been received, if only as another copy.  *)
IgnoredReceived ==
    [][\A p \in data : Receive(p) /\ Duplicate(p) =>
          \E hop \in processed : hop.to = p.to /\ hop.msg = p.msg]_vars

(* What the condition of the loop in recv_uc() says: after 250 tries it     *)
(* ends.                                                                    *)
TriesEnd == hung = {}
=============================================================================
