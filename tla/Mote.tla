-------------------------------- MODULE Mote --------------------------------
(***************************************************************************)
(* One mote, loop by loop: deserialize(), purge(), get_hop_counts() and     *)
(* serialize() on the pools of graph.c.  Nothing interrupts them; their     *)
(* steps are told apart because the loops work on arrays that they change,  *)
(* or fill without a look at the end, and because an allocation can fail in *)
(* their middle.                                                            *)
(*                                                                         *)
(* LocalView says what they achieve as a whole, and Implements that they do *)
(* when no allocation fails.                                                *)
(***************************************************************************)
EXTENDS Serialize, Sequences

CONSTANTS
    NULL,
    self,          \* linkaddr_node_addr
    TTL,           \* lifetime of an edge
    Incoming,      \* the packets that can arrive: [from, src, drains], drains a sequence
    Delays,        \* the seconds that can pass between two purges
    UINT16,        \* 2^16, the size of uint16_t
    ULONG,         \* the size of unsigned long, a multiple of UINT16
    MallocMayFail

ASSUME MoteAssumption ==
    /\ TTL \in Nat \ {0}
    /\ Delays \subseteq Nat
    /\ UINT16 \in Nat \ {0} /\ ULONG \in Nat \ {0} /\ ULONG % UINT16 = 0
    /\ MallocMayFail \in BOOLEAN

(* The motes that this one can hear of, and what it hears of their links.   *)
Address == {self} \cup UNION {{m.from, m.src} \cup {m.drains[k].dst : k \in DOMAIN m.drains} :
                                 m \in Incoming}

Link == [src : Address, dst : Address, ttl : Nat]

(* A mote is neither its own neighbour nor a drain of itself: no mote hears *)
(* itself.  The drains of a packet are different nodes.                     *)
ASSUME IncomingAssumption ==
    \A m \in Incoming :
        /\ m.from # self
        /\ m.drains \in Seq(Link)
        /\ \A k \in DOMAIN m.drains : m.drains[k].src # m.drains[k].dst
        /\ \A j, k \in DOMAIN m.drains : m.drains[j].dst = m.drains[k].dst => j = k

Graph == [nodes : SUBSET Address, edges : SUBSET Link]

(* NULL is neither a pointer nor an entry nor a graph.                      *)
ASSUME NullAssumption ==
    /\ NULL \notin Int /\ NULL \notin Address /\ NULL \notin Link
    /\ NULL \notin Graph

VARIABLES
    pc,           \* the loop the mote is in
    node_memory,  \* the pools
    edge_memory,
    clock,        \* clock_seconds()
    last_time,    \* clock_seconds() at the end of the last purge
    todo,         \* what the inner loop has still to look at
    i,            \* counter of the outer loop
    bound,        \* count - deleted in purge()
    hops,         \* hop_dict: a sequence of [addr, hop_count]
    buffer,       \* the edges copied to memory_base
    sent,         \* the packets given to packet_complete()
    before        \* history: the graph before the function called last

vars == <<pc, node_memory, edge_memory, clock, last_time, todo, i, bound,
          hops, buffer, sent, before>>

memory == <<node_memory, edge_memory>>
time == <<clock, last_time>>

Memory == INSTANCE GraphMemory

Nodes == Memory!Entries(node_memory)
Edges == Memory!Entries(edge_memory)

(* The results of a step that needs malloc().                               *)
OrFail(result, failure) == IF MallocMayFail THEN {result, failure} ELSE {result}

Outgoing(edges, x) == OrFail(Memory!get_outgoing_edges(edges, x), <<>>)
Ingoing(edges, x)  == OrFail(Memory!get_ingoing_edges(edges, x), <<>>)

-----------------------------------------------------------------------------
(* The process has started: init_graph(), and add_node() of the mote.       *)
Init ==
    /\ pc = "idle"
    /\ node_memory = Memory!add_node(Memory!init_graph(MAX_NODES), self)
    /\ edge_memory = Memory!init_graph(MAX_EDGES)
    /\ clock = 0 /\ last_time = 0
    /\ todo = <<>> /\ i = 0 /\ bound = 0
    /\ hops = <<>> /\ buffer = {} /\ sent = {}
    /\ before = NULL

(* A packet arrives.  deserialize() adds the source, the edge from the      *)
(* sender, the drains, and the edges to them.                               *)
Receive(m) ==
    /\ pc = "idle"
    /\ pc' = "receive"
    /\ todo' = << [node |-> m.src], [edge |-> [src |-> m.from, dst |-> self, ttl |-> TTL]] >>
               \o [k \in DOMAIN m.drains |-> [node |-> m.drains[k].dst]]
               \o [k \in DOMAIN m.drains |-> [edge |-> m.drains[k]]]
    /\ before' = [nodes |-> Nodes, edges |-> Edges]
    /\ UNCHANGED <<memory, time, i, bound, hops, buffer, sent>>

Add ==
    /\ pc = "receive"
    /\ \/ /\ "node" \in DOMAIN Head(todo)
          /\ node_memory' = Memory!add_node(node_memory, Head(todo).node)
          /\ UNCHANGED edge_memory
       \/ /\ "edge" \in DOMAIN Head(todo)
          /\ edge_memory' = Memory!add_edge(node_memory, edge_memory, Head(todo).edge)
          /\ UNCHANGED node_memory
    /\ todo' = Tail(todo)
    /\ IF todo' = <<>> THEN pc' = "idle" /\ before' = NULL ELSE UNCHANGED <<pc, before>>
    /\ UNCHANGED <<time, i, bound, hops, buffer, sent>>

-----------------------------------------------------------------------------
(* purge()                                                                  *)

(* The timer expires after d seconds.                                       *)
TimerExpires(d) ==
    /\ pc = "idle"
    /\ pc' = "purge"
    /\ clock' = (clock + d) % ULONG
    /\ i' = 0
    /\ bound' = edge_memory.count
    /\ before' = [nodes |-> Nodes, edges |-> Edges]
    /\ UNCHANGED <<memory, last_time, todo, hops, buffer, sent>>

(* A bug for the mutants: the difference is not cut to sixteen bits.        *)
diff_wide == LET this_time == clock % UINT16 IN (this_time - last_time) % ULONG

(* The time that passed since the last purge.                               *)
diff == LET this_time == clock % UINT16 IN (this_time - last_time) % UINT16

(* Without an outgoing or ingoing edge x is removed, unless it is the mote. *)
DropOrphan(nodes, edges, x) ==
    IF x = self THEN {nodes}
    ELSE {IF out = <<>> /\ in = <<>> THEN Memory!remove_node(nodes, x) ELSE nodes :
             out \in Outgoing(edges, x), in \in Ingoing(edges, x)}

(* A bug for the mutants: the counter goes on although the edges behind the *)
(* removed one have moved up.                                               *)
RemoveExpired_skipping ==
    /\ pc = "purge" /\ i < bound
    /\ LET e    == Memory!At(edge_memory, i)
           rest == Memory!remove_edge(edge_memory, e.src, e.dst)
       IN  /\ e.ttl <= diff
           /\ edge_memory' = rest
           /\ \E nodes \in DropOrphan(node_memory, rest, e.src) :
                 node_memory' \in DropOrphan(nodes, rest, e.dst)
    /\ bound' = bound - 1
    /\ i' = i + 1
    /\ UNCHANGED <<pc, time, todo, hops, buffer, sent, before>>

(* i-- and the i++ of the loop leave the counter where it is.               *)
RemoveExpired ==
    /\ pc = "purge" /\ i < bound
    /\ LET e    == Memory!At(edge_memory, i)
           rest == Memory!remove_edge(edge_memory, e.src, e.dst)
       IN  /\ e.ttl <= diff
           /\ edge_memory' = rest
           /\ \E nodes \in DropOrphan(node_memory, rest, e.src) :
                 node_memory' \in DropOrphan(nodes, rest, e.dst)
    /\ bound' = bound - 1
    /\ UNCHANGED <<pc, time, todo, i, hops, buffer, sent, before>>

Decrease ==
    /\ pc = "purge" /\ i < bound
    /\ LET e == Memory!At(edge_memory, i)
       IN  /\ e.ttl > diff
           /\ edge_memory' = Memory!Overwrite(edge_memory, i, [e EXCEPT !.ttl = @ - diff])
    /\ i' = i + 1
    /\ UNCHANGED <<pc, node_memory, time, todo, bound, hops, buffer, sent, before>>

(* serialize() up to its first source: without K, memory or the mote itself *)
(* in the graph there is no report, and with K = 1 it is the mote alone.    *)
StartReport ==
    \E possible \in OrFail(K > 0 /\ self \in Nodes, FALSE) :
        /\ pc' = IF possible /\ K >= 2 THEN "pack" ELSE "sent"
        /\ sent' = IF possible /\ K = 1 THEN {[src |-> self, drains |-> {}]} ELSE {}
        /\ before' = IF pc' = "sent" THEN NULL ELSE before

(* The end of purge(), after which serialize() is called.  The clock has    *)
(* the value here that it had when purge() started.                         *)
Purged ==
    /\ pc = "purge" /\ i >= bound
    /\ last_time' = clock
    /\ i' = 0 /\ bound' = 0
    /\ StartReport
    /\ UNCHANGED <<memory, clock, todo, hops, buffer>>

-----------------------------------------------------------------------------
(* package_and_send_edges_and_nodes() of the mote itself (i = 0) and of the *)
(* nodes in hop_dict.                                                       *)

Source == IF i = 0 THEN [addr |-> self, hop_count |-> 0] ELSE hops[i]

Packet(drains) == [src |-> Source.addr, drains |-> drains]

(* After the mote itself the hop counts are computed.                       *)
NextSource ==
    IF i = 0 THEN pc' = "count" /\ UNCHANGED i
             ELSE pc' = "pack" /\ i' = i + 1

(* No packet is sent of a node that is too far away or, unless it is the    *)
(* mote itself, of one without outgoing edges.                              *)
SkipSource ==
    /\ pc = "pack" /\ i \in 0..Len(hops)
    /\ \/ Source.hop_count > K-1 /\ UNCHANGED sent
       \/ /\ Source.hop_count <= K-1 /\ Source.addr \in Nodes
          /\ <<>> \in Outgoing(edge_memory, Source.addr)
          /\ sent' = IF i = 0 THEN sent \cup {Packet({})} ELSE sent
    /\ NextSource
    /\ UNCHANGED <<memory, time, todo, bound, hops, buffer, before>>

PackSource ==
    /\ pc = "pack" /\ i \in 0..Len(hops)
    /\ Source.hop_count <= K-1 /\ Source.addr \in Nodes
    /\ todo' \in Outgoing(edge_memory, Source.addr) \ {<<>>}
    /\ pc' = "edges"
    /\ UNCHANGED <<memory, time, i, bound, hops, buffer, sent, before>>

(* Of a node K-1 hops away only the edges to nodes K-2 hops away and to the *)
(* mote itself are packed.                                                  *)
PacksTo(x) ==
    \/ Source.hop_count # K-1
    \/ x = self
    \/ \E k \in DOMAIN hops : hops[k].addr = x /\ hops[k].hop_count = K-2

(* A bug for the mutants: the loop goes on without the next edge.           *)
SkipEdge_stuck ==
    /\ pc = "edges" /\ todo # <<>>
    /\ ~PacksTo(Head(todo).dst)
    /\ UNCHANGED vars

SkipEdge ==
    /\ pc = "edges" /\ todo # <<>>
    /\ ~PacksTo(Head(todo).dst)
    /\ todo' = Tail(todo)
    /\ UNCHANGED <<pc, memory, time, i, bound, hops, buffer, sent, before>>

(* A bug for the mutants: a full packet is sent only when it is the last.   *)
PackEdge_full ==
    /\ pc = "edges" /\ todo # <<>>
    /\ PacksTo(Head(todo).dst) /\ Head(todo).dst \in Nodes
    /\ LET packed == buffer \cup {Head(todo)}
       IN  IF Cardinality(packed) >= EdgesPerPacket
           THEN sent' = sent \cup {Packet(packed)} /\ buffer' = {}
           ELSE buffer' = packed /\ UNCHANGED sent
    /\ todo' = Tail(todo)
    /\ UNCHANGED <<pc, memory, time, i, bound, hops, before>>

(* A full packet is sent when there are edges left to look at.              *)
PackEdge ==
    /\ pc = "edges" /\ todo # <<>>
    /\ PacksTo(Head(todo).dst) /\ Head(todo).dst \in Nodes
    /\ LET packed == buffer \cup {Head(todo)}
       IN  IF Cardinality(packed) >= EdgesPerPacket /\ Len(todo) > 1
           THEN sent' = sent \cup {Packet(packed)} /\ buffer' = {}
           ELSE buffer' = packed /\ UNCHANGED sent
    /\ todo' = Tail(todo)
    /\ UNCHANGED <<pc, memory, time, i, bound, hops, before>>

(* The rest is sent; without the drain of an edge it is not.                *)
EndSource ==
    /\ pc = "edges"
    /\ IF todo = <<>> THEN sent' = sent \cup {Packet(buffer)}
       ELSE /\ PacksTo(Head(todo).dst) /\ Head(todo).dst \notin Nodes
            /\ UNCHANGED sent
    /\ todo' = <<>> /\ buffer' = {}
    /\ NextSource
    /\ UNCHANGED <<memory, time, bound, hops, before>>

(* The end of serialize(), also when a node in hop_dict is not found.       *)
Serialized ==
    /\ pc = "pack"
    /\ i \in 0..Len(hops) => Source.hop_count <= K-1 /\ Source.addr \notin Nodes
    /\ pc' = "sent"
    /\ i' = 0 /\ hops' = <<>> /\ before' = NULL
    /\ UNCHANGED <<memory, time, todo, bound, buffer, sent>>

-----------------------------------------------------------------------------
(* get_hop_counts()                                                         *)

(* The array needs memory; without any the count is left unset, and what    *)
(* serialize() does next is not defined.                                    *)
CountHops ==
    /\ pc = "count"
    /\ IF node_memory.count <= 1 \/ edge_memory.count = 0
       THEN pc' = "pack" /\ i' = 1 /\ UNCHANGED todo
       ELSE /\ todo' = Memory!Listing(edge_memory)
            /\ pc' \in OrFail("direct", "undefined")
            /\ UNCHANGED i
    /\ UNCHANGED <<memory, time, bound, hops, buffer, sent, before>>

(* A bug for the mutants: nodes in the array are not looked for.            *)
Visit_again(x, hop_count) == hops' = Append(hops, [addr |-> x, hop_count |-> hop_count])

Visit(x, hop_count) ==
    hops' = IF \E k \in DOMAIN hops : hops[k].addr = x THEN hops
            ELSE Append(hops, [addr |-> x, hop_count |-> hop_count])

(* First the neighbours of the mote, ...                                    *)
Direct ==
    /\ pc = "direct" /\ todo # <<>>
    /\ \/ Head(todo).src = self /\ Visit(Head(todo).dst, 1)
       \/ Head(todo).src # self /\ Head(todo).dst = self /\ Visit(Head(todo).src, 1)
       \/ self \notin {Head(todo).src, Head(todo).dst} /\ UNCHANGED hops
    /\ todo' = Tail(todo)
    /\ UNCHANGED <<pc, memory, time, i, bound, buffer, sent, before>>

DirectDone ==
    /\ pc = "direct" /\ todo = <<>>
    /\ pc' = IF hops = <<>> THEN "pack" ELSE "explore"
    /\ i' = 1
    /\ UNCHANGED <<memory, time, todo, bound, hops, buffer, sent, before>>

(* ... then the neighbours of every node that has got into the array.  An   *)
(* entry not filled yet holds linkaddr_null, which has no edges.            *)
Found == i < node_memory.count /\ i <= Len(hops)

(* A bug for the mutants: ingoing edges are not followed.                   *)
Explore_outgoing ==
    /\ pc = "explore" /\ Found
    /\ \E out \in Outgoing(edge_memory, hops[i].addr), in \in Ingoing(edge_memory, hops[i].addr) :
          /\ out # <<>> \/ in # <<>>
          /\ todo' = [k \in DOMAIN out |-> out[k].dst]
    /\ IF todo' = <<>> THEN i' = i + 1 /\ UNCHANGED pc ELSE pc' = "visit" /\ UNCHANGED i
    /\ UNCHANGED <<memory, time, bound, hops, buffer, sent, before>>

Explore ==
    /\ pc = "explore" /\ Found
    /\ \E out \in Outgoing(edge_memory, hops[i].addr), in \in Ingoing(edge_memory, hops[i].addr) :
          /\ out # <<>> \/ in # <<>>
          /\ todo' = [k \in DOMAIN out |-> out[k].dst] \o [k \in DOMAIN in |-> in[k].src]
    /\ pc' = "visit"
    /\ UNCHANGED <<memory, time, i, bound, hops, buffer, sent, before>>

ExploreEdge ==
    /\ pc = "visit"
    /\ IF Head(todo) = self THEN UNCHANGED hops
       ELSE Visit(Head(todo), hops[i].hop_count + 1)
    /\ todo' = Tail(todo)
    /\ IF todo' = <<>> THEN pc' = "explore" /\ i' = i + 1 ELSE UNCHANGED <<pc, i>>
    /\ UNCHANGED <<memory, time, bound, buffer, sent, before>>

HopsCounted ==
    /\ pc = "explore"
    /\ Found => /\ <<>> \in Outgoing(edge_memory, hops[i].addr)
                /\ <<>> \in Ingoing(edge_memory, hops[i].addr)
    /\ pc' = "pack"
    /\ i' = 1
    /\ UNCHANGED <<memory, time, todo, bound, hops, buffer, sent, before>>

-----------------------------------------------------------------------------
(* The report leaves and the process waits.                                 *)
Transmit ==
    /\ pc = "sent"
    /\ pc' = "idle"
    /\ sent' = {}
    /\ UNCHANGED <<memory, time, todo, i, bound, hops, buffer, before>>

Step ==
    \/ Add
    \/ RemoveExpired \/ Decrease \/ Purged
    \/ SkipSource \/ PackSource \/ SkipEdge \/ PackEdge \/ EndSource \/ Serialized
    \/ CountHops \/ Direct \/ DirectDone \/ Explore \/ ExploreEdge \/ HopsCounted
    \/ Transmit

Next ==
    \/ \E m \in Incoming : Receive(m)
    \/ \E d \in Delays : TimerExpires(d)
    \/ Step

Spec == Init /\ [][Next]_vars

(* The processor does not stop in the middle of a function.                 *)
FairSpec == Spec /\ WF_vars(Step)

-----------------------------------------------------------------------------
(* Properties.                                                              *)

(* However entries come and go, the pointers of a pool stay in order: no    *)
(* entry is lost or pointed to twice, and none of the places that the loops *)
(* visit is NULL.                                                           *)
PoolsConsistent == Memory!Consistent(node_memory) /\ Memory!Consistent(edge_memory)

(* The loops that fill the array of hop counts stay within the node_count-1 *)
(* entries it has, although they do not look at its end.                    *)
HopsInBounds == hops # <<>> => Len(hops) < node_memory.count

(* get_hop_counts() lists the nodes that can be reached over edges in both  *)
(* directions, each once, and each with the length of the shortest path.    *)
HopsRight ==
    pc \in {"pack", "edges"} /\ i > 0 =>
        LET within == WithinHops(Edges, self, MAX_NODES)
        IN  /\ {<<hops[k].addr, hops[k].hop_count>> : k \in DOMAIN hops} =
                   UNION {AtHop(within, h) \X {h} : h \in 1..MAX_NODES}
            /\ \A j, k \in DOMAIN hops : hops[j].addr = hops[k].addr => j = k

(* What happens between two waits of the process, seen as one step.         *)
View == INSTANCE LocalView WITH
            nodes <- IF before = NULL THEN Nodes ELSE before.nodes,
            edges <- IF before = NULL THEN Edges ELSE before.edges,
            sent  <- IF pc = "sent" THEN sent ELSE {}

(* The loops achieve what Discovery takes for granted: a packet is merged   *)
(* completely, the graph is purged by the time that passed, and the report  *)
(* holds the graph within K-1 hops, cut into packets.                       *)
Implements == View!Spec

(* Every loop ends, also the one whose counter is decremented: the process  *)
(* gets back to where it waits.                                             *)
Returns == []<>(pc = "idle")

(* What graph-operations.h says of purge(): it deletes a node if and only   *)
(* if it has no edges.                                                      *)
OnlyOrphansDeleted ==
    [][\A x \in Nodes \ Memory!Entries(node_memory)' :
          x \notin Endpoints(Memory!Entries(edge_memory)')]_vars
=============================================================================
