------------------------------ MODULE Discovery ------------------------------
(***************************************************************************)
(* The K-hop neighbour discovery of the sensor network                      *)
(* (neighbor-discovery.c, pbroadcast.c, the merge of a packet in             *)
(* serialize.c, and through Serialize and LocalGraph the rest of            *)
(* serialize.c, graph.c and graph-operations.c).                            *)
(*                                                                         *)
(* Every mote keeps a local graph.  When its timer expires it purges the    *)
(* graph and broadcasts the part of it that lies within K-1 hops, in        *)
(* packets of one source node and some of its outgoing edges; a mote that   *)
(* receives a packet merges it into its own graph and adds the edge over    *)
(* which the packet came.                                                   *)
(*                                                                         *)
(* Contiki runs the timer process and the receive callback to completion,   *)
(* so each is one action.  Packets are in flight between a wake-up and the  *)
(* receptions and interleave in every order.  Time is the clock_seconds()   *)
(* of the motes, advanced for all of them by Tick.                          *)
(***************************************************************************)
EXTENDS Serialize

CONSTANTS
    Node,                   \* the motes (linkaddr_t)
    Link,                   \* the directed radio links, records [src, dst]
    TTL,                    \* lifetime of an edge, in seconds
    DISCOVERY_INTERVAL_MIN,
    DISCOVERY_INTERVAL_MAX,
    NO_PURGE,               \* build option: never purge
    Lossy,                  \* may the radio lose or damage packets?
    Mortal,                 \* the motes that may fail
    Late                    \* the motes that may be switched on late, or again

ASSUME NodeAssumption == IsFiniteSet(Node)
ASSUME LinkAssumption ==
    /\ Link \subseteq [src : Node, dst : Node]
    /\ \A l \in Link : l.src # l.dst
ASSUME BuildAssumption ==
    /\ TTL \in Nat \ {0}
    /\ DISCOVERY_INTERVAL_MIN \in Nat \ {0}
    /\ DISCOVERY_INTERVAL_MAX \in Nat
    /\ NO_PURGE \in BOOLEAN
ASSUME FaultAssumption ==
    /\ Lossy \in BOOLEAN
    /\ Mortal \subseteq Node
    /\ Late \subseteq Node

VARIABLES
    up,       \* which motes are running
    nodes,    \* node_memory of every mote, as a set of addresses
    edges,    \* edge_memory of every mote, as a set of records [src, dst, ttl]
    elapsed,  \* seconds since last_time, which is also when the timer was set
    air,      \* the packets in flight, one per receiver
    age       \* history: seconds since the last packet came over a link

vars == <<up, nodes, edges, elapsed, air, age>>

-----------------------------------------------------------------------------
(* The delay of the timer in seconds.  The expression in the code adds to   *)
(* the minimum a random number below CLOCK_SECOND * MAX - MIN ticks.        *)
MaxDelay == DISCOVERY_INTERVAL_MIN + DISCOVERY_INTERVAL_MAX

(* The history variable stops counting here.                                *)
AgeCap == TTL + MaxDelay

EdgeRecord == [src : Node, dst : Node, ttl : 1..TTL]

-----------------------------------------------------------------------------
(* The motes that hear n.                                                   *)
InRange(n) == {r \in Node : up[r] /\ [src |-> n, dst |-> r] \in Link}

(* The packets of a report on their way, one for every mote in range, with  *)
(* the address of the sender.                                               *)
p_broadcast_send(n, packets) ==
    {[from |-> n, to |-> r, src |-> p.src, drains |-> p.drains] :
        p \in packets, r \in InRange(n)}

-----------------------------------------------------------------------------
(* A mote boots with nothing but itself in its graph.                       *)

Init ==
    /\ up \in {f \in [Node -> BOOLEAN] : \A n \in Node \ Late : f[n]}
    /\ nodes = [n \in Node |-> IF up[n] THEN {n} ELSE {}]
    /\ edges = [n \in Node |-> {}]
    /\ elapsed = [n \in Node |-> 0]
    /\ air = {}
    /\ age = [l \in Link |-> AgeCap]

(* Bugs for the mutants: the broadcast precedes the purge; the time of the  *)
(* purge is not taken down.                                                 *)
Wake_early(n) ==
    /\ up[n]
    /\ elapsed[n] \in DISCOVERY_INTERVAL_MIN..MaxDelay
    /\ nodes' = [nodes EXCEPT ![n] = purge_nodes(@, edges[n], n, elapsed[n])]
    /\ edges' = [edges EXCEPT ![n] = purge_edges(@, elapsed[n])]
    /\ elapsed' = [elapsed EXCEPT ![n] = 0]
    /\ \E packets \in serialize(n, edges[n]) :
          air' = air \cup p_broadcast_send(n, packets)
    /\ UNCHANGED <<up, age>>

Wake_again(n) ==
    /\ up[n]
    /\ elapsed[n] \in DISCOVERY_INTERVAL_MIN..MaxDelay
    /\ \E packets \in serialize(n, edges[n]) :
          air' = air \cup p_broadcast_send(n, packets)
    /\ UNCHANGED <<up, nodes, edges, elapsed, age>>

(* The timer of n expires: purge, then broadcast.                           *)
Wake(n) ==
    /\ up[n]
    /\ elapsed[n] \in DISCOVERY_INTERVAL_MIN..MaxDelay
    /\ nodes' = IF NO_PURGE THEN nodes
                ELSE [nodes EXCEPT ![n] = purge_nodes(@, edges[n], n, elapsed[n])]
    /\ edges' = IF NO_PURGE THEN edges
                ELSE [edges EXCEPT ![n] = purge_edges(@, elapsed[n])]
    /\ elapsed' = [elapsed EXCEPT ![n] = 0]
    /\ \E packets \in serialize(n, edges'[n]) :
          air' = air \cup p_broadcast_send(n, packets)
    /\ UNCHANGED <<up, age>>

(* A bug for the mutants: the edge from the sender is stored before the     *)
(* source of the packet, when the sender may not be known yet.              *)
Receive_swapped(m) ==
    LET n == m.to
        link == [src |-> m.from, dst |-> n]
        edge == [src |-> m.from, dst |-> n, ttl |-> TTL]
    IN  /\ \E E1 \in add_edges(nodes[n], edges[n], {edge}) :
           \E N2 \in add_nodes(nodes[n], {m.src} \cup {e.dst : e \in m.drains}) :
           \E E2 \in add_edges(N2, E1, m.drains) :
              /\ nodes' = [nodes EXCEPT ![n] = N2]
              /\ edges' = [edges EXCEPT ![n] = E2]
        /\ air' = air \ {m}
        /\ age' = [age EXCEPT ![link] = 0]
        /\ UNCHANGED <<up, elapsed>>

(* deserialize(): the source, the edge from the sender, the drains and then *)
(* the edges to them.                                                       *)
Receive(m) ==
    LET n == m.to
        link == [src |-> m.from, dst |-> n]
        edge == [src |-> m.from, dst |-> n, ttl |-> TTL]
    IN  /\ \E N1 \in add_nodes(nodes[n], {m.src}) :
           \E E1 \in add_edges(N1, edges[n], {edge}) :
           \E N2 \in add_nodes(N1, {e.dst : e \in m.drains}) :
           \E E2 \in add_edges(N2, E1, m.drains) :
              /\ nodes' = [nodes EXCEPT ![n] = N2]
              /\ edges' = [edges EXCEPT ![n] = E2]
        /\ air' = air \ {m}
        /\ age' = [age EXCEPT ![link] = 0]
        /\ UNCHANGED <<up, elapsed>>

(* A packet is not sent, not received, or discarded for its hash.           *)
Lose(m) ==
    /\ Lossy
    /\ air' = air \ {m}
    /\ UNCHANGED <<up, nodes, edges, elapsed, age>>

(* A mote fails, and with it its graph and what was on its way to it.       *)
Crash(n) ==
    /\ up[n]
    /\ up' = [up EXCEPT ![n] = FALSE]
    /\ nodes' = [nodes EXCEPT ![n] = {}]
    /\ edges' = [edges EXCEPT ![n] = {}]
    /\ elapsed' = [elapsed EXCEPT ![n] = 0]
    /\ air' = {m \in air : m.to # n}
    /\ UNCHANGED age

(* The process starts: init_graph() and add_node() of the mote itself.      *)
Boot(n) ==
    /\ ~up[n]
    /\ up' = [up EXCEPT ![n] = TRUE]
    /\ nodes' = [nodes EXCEPT ![n] = {n}]
    /\ UNCHANGED <<edges, elapsed, air, age>>

(* A second passes.  A due timer does not wait for more than a second, and  *)
(* neither does a packet in flight.                                         *)
Tick ==
    /\ air = {}
    /\ \A n \in Node : up[n] => elapsed[n] < MaxDelay
    /\ elapsed' = [n \in Node |-> IF up[n] THEN elapsed[n] + 1 ELSE elapsed[n]]
    /\ age' = [l \in Link |-> IF age[l] < AgeCap THEN age[l] + 1 ELSE AgeCap]
    /\ UNCHANGED <<up, nodes, edges, air>>

Next ==
    \/ \E n \in Node : Wake(n)
    \/ \E m \in air : Receive(m)
    \/ \E m \in air : Lose(m)
    \/ \E n \in Mortal : Crash(n)
    \/ \E n \in Late : Boot(n)
    \/ Tick

Spec == Init /\ [][Next]_vars

(* The network does not stop: as long as a packet is to be delivered, a     *)
(* timer is due or a second can pass, one of these happens.  Nothing more   *)
(* is needed, since Tick waits for the timers that have run out and for the *)
(* packets in flight, and a mote wakes up at most once a second.            *)
Running ==
    \/ \E n \in Node : Wake(n)
    \/ \E m \in air : Receive(m)
    \/ Tick

FairSpec == Spec /\ WF_vars(Running)

TimePasses == []<><<Tick>>_vars

TimedSpec == Spec /\ TimePasses

-----------------------------------------------------------------------------
(* Properties.                                                              *)

Packet == [from : Node, to : Node, src : Node, drains : SUBSET EdgeRecord]

(* Types and capacities: node_count and edge_count never exceed the pools,  *)
(* and every stored ttl is in 1..TTL, so that the unsigned subtraction in   *)
(* purge() never wraps.                                                     *)
TypeOK ==
    /\ up \in [Node -> BOOLEAN]
    /\ nodes \in [Node -> SUBSET Node]
    /\ \A n \in Node : Cardinality(nodes[n]) <= MAX_NODES
    /\ edges \in [Node -> SUBSET EdgeRecord]
    /\ \A n \in Node : Cardinality(edges[n]) <= MAX_EDGES
    /\ elapsed \in [Node -> 0..MaxDelay]
    /\ air \subseteq Packet
    /\ age \in [Link -> 0..AgeCap]

(* A running mote always finds itself and both ends of every edge among its *)
(* nodes: otherwise serialize() gives up in the middle of a broadcast, and  *)
(* get_hop_counts(), which makes room for node_count - 1 entries, writes    *)
(* past their end.                                                          *)
GraphClosed ==
    \A n \in Node :
        /\ up[n] => n \in nodes[n]
        /\ Endpoints(edges[n]) \subseteq nodes[n]

(* add_edge() never stores two entries for one edge, whichever of several   *)
(* packets brings it.                                                       *)
OneRecordPerEdge ==
    \A n \in Node : \A e, f \in edges[n] : SameEdge(e, f) => e = f

LinkOf(e) == [src |-> e.src, dst |-> e.dst]

(* The remaining lifetime of an edge, wherever it is stored or on its way,  *)
(* plus the time since a packet last came over the link stays within TTL,   *)
(* up to the seconds that the mote has not subtracted yet.                  *)
AgeBound ==
    /\ \A n \in Node : \A e \in edges[n] :
          LinkOf(e) \in Link /\ e.ttl + age[LinkOf(e)] <= TTL + elapsed[n]
    /\ \A m \in air : \A e \in m.drains :
          LinkOf(e) \in Link /\ e.ttl + age[LinkOf(e)] <= TTL

(* However an edge is passed around, no mote knows it any more TTL plus one *)
(* timer delay after the last packet came over it: gossip does not keep a   *)
(* dead link alive.                                                         *)
NoStaleEdge ==
    \A n \in Node : \A e \in edges[n] :
        LinkOf(e) \in Link /\ age[LinkOf(e)] < AgeCap

(* The mote at the end of an edge is where its lifetime is renewed: every   *)
(* other copy expires no later than the one of that mote.                   *)
OwnCopyFreshest ==
    \A m \in Node : \A f \in edges[m] :
        f.dst \notin Mortal /\ f.ttl > elapsed[m] =>
            \E e \in find_edge(edges[f.dst], f) :
                f.ttl - elapsed[m] <= e.ttl - elapsed[f.dst]

(* Received information never shortens the life of an edge the mote knows:  *)
(* add_edge() compares the ttl first, and graph.test.c:328-341 tests it.    *)
(* (graph.h:98-99 says that the known edge is overwritten in any case.)     *)
GossipNeverShortens ==
    [][(\E m \in air : Receive(m)) =>
          \A n \in Node : \A e \in edges[n] :
              \E f \in find_edge(edges'[n], e) : f.ttl >= e.ttl]_vars

(* As long as packets keep coming over a link the mote at its end, unless   *)
(* it is one that fails, never purges it, if an edge may live for two timer *)
(* delays: one that passes before it is refreshed and one that was running  *)
(* when it was stored.                                                      *)
NeighbourKept ==
    \A l \in Link :
        /\ up[l.dst] /\ l.dst \notin Mortal /\ age[l] <= MaxDelay
        /\ \A m \in air : ~(m.from = l.src /\ m.to = l.dst)
        => \E e \in edges[l.dst] : LinkOf(e) = l

(* What a mote may know of the running network: the nodes within K hops, so *)
(* that a change farther away never costs it memory.                        *)
Neighbourhood == [n \in Node |-> WithinHops(Link, n, K)]

KHopBound == \A n \in Node : nodes[n] \subseteq Neighbourhood[n][K]

(* The K-hop view of a mote: the links that have an end within K-1 hops and *)
(* lead to a mote whose reports reach it, and the nodes they connect.       *)
Reporting ==
    LET over[h \in 0..K, n \in Node] ==
            IF h = 0 THEN {n}
            ELSE over[h-1, n] \cup {l.src : l \in {k \in Link : k.dst \in over[h-1, n]}}
    IN  [n \in Node |-> over[K, n]]

KHopView ==
    [n \in Node |->
        {l \in Link : /\ {l.src, l.dst} \cap Neighbourhood[n][K-1] # {}
                      /\ l.dst \in Reporting[n]}]

(* With no losses every mote ends up with exactly its K-hop view, although  *)
(* edges keep expiring and being renewed all the time.                      *)
Converges ==
    <>[](\A n \in Node : /\ {LinkOf(e) : e \in edges[n]} = KHopView[n]
                         /\ nodes[n] = {n} \cup Endpoints(KHopView[n]))

(* The edges of a mote that is off for good disappear from all the others,  *)
(* whatever was still in flight.                                            *)
DeadForgotten ==
    \A x \in Mortal :
        <>[](~up[x]) => <>[](\A n \in Node : x \notin nodes[n])

(* What the comment of purge() in graph-operations.h says: a node is        *)
(* deleted if and only if it has no edges.                                  *)
OrphansPurged ==
    [][\A n \in Node : Wake(n) => nodes'[n] \subseteq {n} \cup Endpoints(edges'[n])]_vars
=============================================================================
