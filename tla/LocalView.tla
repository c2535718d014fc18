------------------------------ MODULE LocalView ------------------------------
(***************************************************************************)
(* What one mote promises, as Discovery assumes it of every mote: a packet  *)
(* it receives is merged into its graph at once, and when its timer expires *)
(* the graph is purged and reported at once.  The specification that Mote   *)
(* implements.                                                              *)
(***************************************************************************)
EXTENDS Serialize

CONSTANTS
    self,      \* linkaddr_node_addr
    TTL,       \* lifetime of an edge
    Incoming,  \* the packets that can arrive: [from, src, drains], drains a sequence
    Delays     \* the seconds that can pass between two purges

VARIABLES
    nodes,  \* the set of the addresses in node_memory
    edges,  \* the set of the entries of edge_memory
    sent    \* the report being handed to the radio

Init == nodes = {self} /\ edges = {} /\ sent = {}

Drains(m) == {m.drains[k] : k \in DOMAIN m.drains}

(* deserialize(): the source, the edge from the sender, the drains and then *)
(* the edges to them.                                                       *)
Receive(m) ==
    LET edge == [src |-> m.from, dst |-> self, ttl |-> TTL]
    IN  /\ sent = {}
        /\ \E N1 \in add_nodes(nodes, {m.src}) :
           \E E1 \in add_edges(N1, edges, {edge}) :
           \E N2 \in add_nodes(N1, {e.dst : e \in Drains(m)}) :
           \E E2 \in add_edges(N2, E1, Drains(m)) :
              nodes' = N2 /\ edges' = E2
        /\ UNCHANGED sent

(* The timer expires d seconds after the last time: purge(), serialize().   *)
Wake(d) ==
    /\ sent = {}
    /\ nodes' = purge_nodes(nodes, edges, self, d)
    /\ edges' = purge_edges(edges, d)
    /\ sent' \in serialize(self, edges')

Transmit == sent # {} /\ sent' = {} /\ UNCHANGED <<nodes, edges>>

Next ==
    \/ \E m \in Incoming : Receive(m)
    \/ \E d \in Delays : Wake(d)
    \/ Transmit

Spec == Init /\ [][Next]_<<nodes, edges, sent>>
=============================================================================
