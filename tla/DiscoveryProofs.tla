--------------------------- MODULE DiscoveryProofs ---------------------------
(***************************************************************************)
(* Theorems about Discovery, for every network, every K, every capacity and *)
(* every pattern of losses, failures and restarts.                          *)
(*                                                                         *)
(* The inductive invariant IInv adds to the type invariant what the steps   *)
(* need of each other: a packet carries at most one record per edge and     *)
(* travels over a link to a running mote, and a mote that is off has        *)
(* nothing stored.                                                          *)
(***************************************************************************)
EXTENDS Discovery, LocalGraphProofs

SinglePackets == \A m \in air : Single(m.drains)

PacketsOnLinks ==
    \A m \in air : [src |-> m.from, dst |-> m.to] \in Link /\ up[m.to]

MoteOK(n) ==
    /\ Cardinality(nodes[n]) <= MAX_NODES
    /\ Cardinality(edges[n]) <= MAX_EDGES
    /\ Single(edges[n])
    /\ up[n] => n \in nodes[n]
    /\ Endpoints(edges[n]) \subseteq nodes[n]
    /\ ~up[n] => nodes[n] = {} /\ edges[n] = {} /\ elapsed[n] = 0

IInv ==
    /\ up \in [Node -> BOOLEAN]
    /\ nodes \in [Node -> SUBSET Node]
    /\ edges \in [Node -> SUBSET EdgeRecord]
    /\ elapsed \in [Node -> 0..MaxDelay]
    /\ age \in [Link -> 0..AgeCap]
    /\ air \subseteq Packet
    /\ \A n \in Node : MoteOK(n)
    /\ SinglePackets
    /\ PacketsOnLinks

-----------------------------------------------------------------------------
(* Helpers.                                                                 *)

(* What the assumptions say of the constants the steps compute with.        *)
LEMMA Constants ==
    /\ MaxDelay \in Nat \ {0} /\ AgeCap \in Nat /\ TTL \in Nat \ {0} /\ TTL <= AgeCap
    /\ DISCOVERY_INTERVAL_MIN \in Nat /\ DISCOVERY_INTERVAL_MIN >= 1
BY BuildAssumption DEF MaxDelay, AgeCap

(* There are finitely many edge records, so every stored set is finite.     *)
LEMMA FiniteEdges ==
    ASSUME NEW E \in SUBSET EdgeRecord
    PROVE  IsFiniteSet(E)
<1> DEFINE P == (Node \X Node) \X (1..TTL)
           f == [p \in P |-> [src |-> p[1][1], dst |-> p[1][2], ttl |-> p[2]]]
<1>1. IsFiniteSet(1..TTL)
  BY FS_Interval, BuildAssumption
<1>2. IsFiniteSet(Node \X Node)
  BY FS_Product, NodeAssumption
<1>3. IsFiniteSet(P)
  BY <1>1, <1>2, FS_Product
<1>4. \A e \in EdgeRecord : <<<<e.src, e.dst>>, e.ttl>> \in P
  BY DEF EdgeRecord
<1>5. \A e \in EdgeRecord : f[<<<<e.src, e.dst>>, e.ttl>>] = e
  BY <1>4 DEF EdgeRecord
<1>6. f \in [P -> EdgeRecord]
  BY DEF EdgeRecord
<1>7. f \in Surjection(P, EdgeRecord)
  BY <1>4, <1>5, <1>6 DEF Surjection
<1>8. IsFiniteSet(EdgeRecord)
  BY <1>3, <1>7, FS_Surjection
<1>9. QED  BY <1>8, FS_Subset

(* Every set of nodes a mote stores is finite.                              *)
LEMMA FiniteNodes ==
    ASSUME NEW N \in SUBSET Node
    PROVE  IsFiniteSet(N)
BY NodeAssumption, FS_Subset

(* A packet names a node of the graph as its source and carries edges of    *)
(* the graph only.                                                          *)
LEMMA SerializeReports ==
    ASSUME NEW n, NEW E, NEW P \in serialize(n, E), NEW p \in P
    PROVE  /\ p.src = n \/ \E e \in E : p.src = e.src
           /\ p.drains \subseteq E
<1>1. CASE K = 0
  BY <1>1 DEF serialize
<1>2. CASE K = 1
  BY <1>2 DEF serialize
<1>3. CASE K # 0 /\ K # 1
  <2> DEFINE within == WithinHops(E, n, K-1)
             sources == Sources(n, E, within)
             pack == [x \in sources |-> Packings(Packable(n, E, within, x),
                                                 get_outgoing_edges(E, x))]
  <2>1. PICK f \in [sources -> UNION {pack[x] : x \in sources}] :
            /\ \A x \in sources : f[x] \in pack[x]
            /\ P = UNION {{[src |-> x, drains |-> c] : c \in f[x]} : x \in sources}
    BY <1>3 DEF serialize
  <2>2. PICK x \in sources : \E c \in f[x] : p = [src |-> x, drains |-> c]
    BY <2>1
  <2>3. PICK c \in f[x] : p = [src |-> x, drains |-> c]
    BY <2>2
  <2>4. f[x] \in Packings(Packable(n, E, within, x), get_outgoing_edges(E, x))
    BY <2>1
  <2>5. c \subseteq Packable(n, E, within, x)
    BY <2>4 DEF Packings
  <2>6. Packable(n, E, within, x) \subseteq get_outgoing_edges(E, x)
    BY DEF Packable
  <2>7. get_outgoing_edges(E, x) \subseteq E
    BY DEF get_outgoing_edges
  <2>8. x = n \/ \E e \in E : e.src = x
    BY DEF Sources, get_outgoing_edges
  <2>9. QED  BY <2>3, <2>5, <2>6, <2>7, <2>8
<1>4. QED  BY <1>1, <1>2, <1>3

(* What a purge of one mote does to its graph.                              *)
LEMMA WakeGraph ==
    ASSUME IInv, NEW n \in Node, Wake(n)
    PROVE  /\ nodes'[n] \subseteq nodes[n] /\ n \in nodes'[n]
           /\ edges'[n] \subseteq EdgeRecord /\ Single(edges'[n])
           /\ Cardinality(edges'[n]) <= MAX_EDGES
           /\ Endpoints(edges'[n]) \subseteq nodes'[n]
           /\ \A m \in Node \ {n} : nodes'[m] = nodes[m] /\ edges'[m] = edges[m]
           /\ DOMAIN nodes' = Node /\ DOMAIN edges' = Node
<1>1. /\ edges[n] \in SUBSET EdgeRecord /\ IsFiniteSet(edges[n])
      /\ Cardinality(edges[n]) <= MAX_EDGES
      /\ elapsed[n] \in 0..MaxDelay /\ up[n]
      /\ DOMAIN nodes = Node /\ DOMAIN edges = Node
      /\ Endpoints(edges[n]) \subseteq nodes[n]
      /\ n \in nodes[n] /\ Single(edges[n])
  BY FiniteEdges DEF IInv, MoteOK, Wake
<1>2. CASE NO_PURGE
  BY <1>1, <1>2 DEF Wake
<1>3. CASE ~NO_PURGE
  <2>1. /\ nodes'[n] = purge_nodes(nodes[n], edges[n], n, elapsed[n])
        /\ edges'[n] = purge_edges(edges[n], elapsed[n])
        /\ \A m \in Node \ {n} : nodes'[m] = nodes[m] /\ edges'[m] = edges[m]
        /\ DOMAIN nodes' = Node /\ DOMAIN edges' = Node
    BY <1>1, <1>3 DEF Wake
  <2>2. edges'[n] \subseteq EdgeRecord
    <3> SUFFICES ASSUME NEW g \in edges'[n] PROVE g \in EdgeRecord
      OBVIOUS
    <3>1. PICK e \in edges[n] \ Expired(edges[n], elapsed[n]) :
              g = [src |-> e.src, dst |-> e.dst, ttl |-> e.ttl - elapsed[n]]
      BY <1>1, <2>1, PurgeEdges
    <3>2. e \in EdgeRecord /\ e.ttl > elapsed[n]
      <4>1. e \in EdgeRecord
        BY <1>1
      <4>2. ~(e.ttl <= elapsed[n])
        BY <3>1 DEF Expired
      <4>3. QED  BY <1>1, <4>1, <4>2, Constants DEF EdgeRecord
    <3>3. e.src \in Node /\ e.dst \in Node /\ e.ttl - elapsed[n] \in 1..TTL
      BY <1>1, <3>2, Constants DEF EdgeRecord
    <3>4. QED  BY <3>1, <3>3 DEF EdgeRecord
  <2>3. Cardinality(edges'[n]) <= MAX_EDGES
    <3>1. /\ IsFiniteSet(edges'[n])
          /\ Cardinality(edges'[n]) <= Cardinality(edges[n])
      BY <1>1, <2>1, PurgeEdges
    <3>2. Cardinality(edges'[n]) \in Nat /\ Cardinality(edges[n]) \in Nat
      BY <1>1, <3>1, FS_CardinalityType
    <3>3. QED  BY <1>1, <3>1, <3>2, CapacityAssumption
  <2>4. Single(edges'[n])
    BY <1>1, <2>1, PurgeSingle
  <2>5. /\ nodes'[n] \subseteq nodes[n] /\ n \in nodes'[n]
        /\ Endpoints(edges'[n]) \subseteq nodes'[n]
    BY <1>1, <2>1, PurgeNodes
  <2>6. QED  BY <2>1, <2>2, <2>3, <2>4, <2>5
<1>4. QED  BY <1>2, <1>3

(* The packets of a broadcast.                                              *)
LEMMA WakePackets ==
    ASSUME IInv, NEW n \in Node, Wake(n), NEW m \in air' \ air
    PROVE  /\ m \in Packet /\ m.drains \subseteq edges'[n]
           /\ [src |-> m.from, dst |-> m.to] \in Link /\ up[m.to]
<1>1. PICK P \in serialize(n, edges'[n]) :
          air' = air \cup {[from |-> n, to |-> r, src |-> p.src, drains |-> p.drains] :
                              p \in P, r \in InRange(n)}
  BY DEF Wake, p_broadcast_send
<1>2. PICK p \in P, r \in InRange(n) :
          m = [from |-> n, to |-> r, src |-> p.src, drains |-> p.drains]
  BY <1>1
<1>3. /\ p.src = n \/ \E e \in edges'[n] : p.src = e.src
      /\ p.drains \subseteq edges'[n]
  BY <1>1, SerializeReports
<1>4. edges'[n] \subseteq EdgeRecord
  BY WakeGraph
<1>5. r \in Node /\ up[r] /\ [src |-> n, dst |-> r] \in Link
  BY DEF InRange
<1>6. p.src \in Node
  BY <1>3, <1>4 DEF EdgeRecord
<1>7. p.drains \in SUBSET EdgeRecord
  BY <1>3, <1>4
<1>8. m \in Packet
  BY <1>2, <1>5, <1>6, <1>7 DEF Packet
<1>9. m.from = n /\ m.to = r /\ m.drains = p.drains
  BY <1>2
<1>10. QED  BY <1>3, <1>5, <1>8, <1>9

(* What merging a packet does to the graph of its receiver.                 *)
LEMMA ReceiveGraph ==
    ASSUME IInv, NEW m \in air, Receive(m)
    PROVE  /\ m.to \in Node
           /\ nodes[m.to] \subseteq nodes'[m.to] /\ nodes'[m.to] \subseteq Node
           /\ nodes'[m.to] \subseteq nodes[m.to] \cup {m.src} \cup {e.dst : e \in m.drains}
           /\ Cardinality(nodes'[m.to]) <= MAX_NODES
           /\ edges'[m.to] \subseteq EdgeRecord /\ Single(edges'[m.to])
           /\ Cardinality(edges'[m.to]) <= MAX_EDGES
           /\ Endpoints(edges'[m.to]) \subseteq nodes'[m.to]
           /\ \A g \in edges'[m.to] : \/ g \in edges[m.to] \/ g \in m.drains
                                   \/ g = [src |-> m.from, dst |-> m.to, ttl |-> TTL]
           /\ \A e \in edges[m.to] : \E f \in find_edge(edges'[m.to], e) : f.ttl >= e.ttl
           /\ \E N \in add_nodes(nodes[m.to], {m.src}) :
              \E E \in add_edges(N, edges[m.to], {[src |-> m.from, dst |-> m.to, ttl |-> TTL]}) :
                 \A e \in E : \E f \in find_edge(edges'[m.to], e) : f.ttl >= e.ttl
           /\ \A k \in Node \ {m.to} : nodes'[k] = nodes[k] /\ edges'[k] = edges[k]
           /\ DOMAIN nodes' = Node /\ DOMAIN edges' = Node
<1> DEFINE n == m.to
           edge == [src |-> m.from, dst |-> n, ttl |-> TTL]
           ends == {e.dst : e \in m.drains}
<1>1. /\ m \in Packet /\ n \in Node /\ m.src \in Node /\ m.from \in Node
      /\ m.drains \in SUBSET EdgeRecord /\ Single(m.drains)
  BY DEF IInv, Packet, SinglePackets
<1>2. /\ nodes[n] \in SUBSET Node /\ Cardinality(nodes[n]) <= MAX_NODES
      /\ edges[n] \in SUBSET EdgeRecord /\ Cardinality(edges[n]) <= MAX_EDGES
      /\ DOMAIN nodes = Node /\ DOMAIN edges = Node
      /\ Endpoints(edges[n]) \subseteq nodes[n] /\ Single(edges[n])
  BY <1>1 DEF IInv, MoteOK
<1>3. PICK N1 \in add_nodes(nodes[n], {m.src}) :
          \E E1 \in add_edges(N1, edges[n], {edge}) :
          \E N2 \in add_nodes(N1, ends) :
          \E E2 \in add_edges(N2, E1, m.drains) :
             /\ nodes' = [nodes EXCEPT ![n] = N2]
             /\ edges' = [edges EXCEPT ![n] = E2]
  BY DEF Receive
<1>4. PICK E1 \in add_edges(N1, edges[n], {edge}) :
          \E N2 \in add_nodes(N1, ends) :
          \E E2 \in add_edges(N2, E1, m.drains) :
             /\ nodes' = [nodes EXCEPT ![n] = N2]
             /\ edges' = [edges EXCEPT ![n] = E2]
  BY <1>3
<1>5. PICK N2 \in add_nodes(N1, ends) :
          \E E2 \in add_edges(N2, E1, m.drains) :
             /\ nodes' = [nodes EXCEPT ![n] = N2]
             /\ edges' = [edges EXCEPT ![n] = E2]
  BY <1>4
<1>6. PICK E2 \in add_edges(N2, E1, m.drains) :
             /\ nodes' = [nodes EXCEPT ![n] = N2]
             /\ edges' = [edges EXCEPT ![n] = E2]
  BY <1>5
<1>7. edge \in EdgeRecord
  BY <1>1, Constants DEF EdgeRecord
<1>8. Single({edge}) /\ IsFiniteSet({edge}) /\ IsFiniteSet({m.src})
  BY FS_Singleton DEF Single
<1>9. /\ nodes[n] \subseteq N1 /\ N1 \subseteq nodes[n] \cup {m.src}
      /\ N1 \subseteq Node /\ Cardinality(N1) <= MAX_NODES
  BY <1>1, <1>2, <1>8, AddNodes, FiniteNodes
<1>10. ends \in SUBSET Node
  BY <1>1 DEF EdgeRecord
<1>11. /\ N1 \subseteq N2 /\ N2 \subseteq N1 \cup ends
       /\ N2 \subseteq Node /\ Cardinality(N2) <= MAX_NODES
  BY <1>9, <1>10, AddNodes, FiniteNodes
<1>12. \A e \in EdgeRecord : e.ttl \in Nat /\ e.src \in Node /\ e.dst \in Node
  BY Constants DEF EdgeRecord
<1>13. /\ Single(E1)
       /\ \A g \in E1 : g \in edges[n] \/ g = edge
       /\ \A g \in E1 : \/ g.src \in N1 /\ g.dst \in N1
                        \/ \E e \in edges[n] : SameEdge(e, g)
       /\ \A e \in edges[n] : \E g \in find_edge(E1, e) : g.ttl >= e.ttl
       /\ Cardinality(E1) <= MAX_EDGES
  <2>1. IsFiniteSet(edges[n]) /\ \A e \in edges[n] \cup {edge} : e.ttl \in Nat
    BY <1>2, <1>7, <1>12, FiniteEdges
  <2>2. Cardinality(E1) <= MAX_EDGES
    BY <1>2, <1>8, <2>1, AddEdgesCapacity
  <2>3. QED  BY <1>2, <1>8, <2>1, <2>2, AddEdges
<1>14. E1 \in SUBSET EdgeRecord
  BY <1>2, <1>7, <1>13
<1>15. /\ Single(E2)
       /\ \A g \in E2 : g \in E1 \/ g \in m.drains
       /\ \A g \in E2 : \/ g.src \in N2 /\ g.dst \in N2
                        \/ \E e \in E1 : SameEdge(e, g)
       /\ \A e \in E1 : \E g \in find_edge(E2, e) : g.ttl >= e.ttl
       /\ Cardinality(E2) <= MAX_EDGES
  <2>1. /\ IsFiniteSet(E1) /\ IsFiniteSet(m.drains)
        /\ \A e \in E1 \cup m.drains : e.ttl \in Nat
    BY <1>1, <1>12, <1>14, FiniteEdges
  <2>2. Cardinality(E2) <= MAX_EDGES
    BY <1>1, <1>13, <2>1, AddEdgesCapacity
  <2>3. QED  BY <1>1, <1>13, <2>1, <2>2, AddEdges
<1>16. E2 \subseteq EdgeRecord
  BY <1>1, <1>14, <1>15
<1>17. \A g \in E1 : g.src \in N1 /\ g.dst \in N1
  BY <1>2, <1>9, <1>13 DEF Endpoints, SameEdge
<1>18. Endpoints(E2) \subseteq N2
  BY <1>11, <1>15, <1>17 DEF Endpoints, SameEdge
<1>19. ASSUME NEW e \in edges[n]
       PROVE  \E f \in find_edge(E2, e) : f.ttl >= e.ttl
  <2>1. PICK g \in find_edge(E1, e) : g.ttl >= e.ttl
    BY <1>13
  <2>2. g \in E1 /\ SameEdge(e, g)
    BY <2>1 DEF find_edge
  <2>3. PICK f \in find_edge(E2, g) : f.ttl >= g.ttl
    BY <1>15, <2>2
  <2>4. f \in E2 /\ SameEdge(g, f)
    BY <2>3 DEF find_edge
  <2>5. e.ttl \in Nat /\ g.ttl \in Nat /\ f.ttl \in Nat
    BY <1>2, <1>12, <1>14, <1>16, <2>2, <2>4
  <2>6. f \in find_edge(E2, e) /\ f.ttl >= e.ttl
    BY <2>1, <2>2, <2>3, <2>4, <2>5 DEF find_edge, SameEdge
  <2>7. QED  BY <2>6
<1>20. /\ nodes'[n] = N2 /\ edges'[n] = E2
       /\ \A k \in Node \ {n} : nodes'[k] = nodes[k] /\ edges'[k] = edges[k]
       /\ DOMAIN nodes' = Node /\ DOMAIN edges' = Node
  BY <1>1, <1>2, <1>6
<1>21. QED
  BY <1>1, <1>9, <1>11, <1>13, <1>15, <1>16, <1>18, <1>19, <1>20

-----------------------------------------------------------------------------
(* The invariant is inductive: one lemma per action.                        *)

(* Right after the start the inductive invariant holds.                     *)
LEMMA IInvInit ==  Init => IInv
<1> SUFFICES ASSUME Init PROVE IInv
  OBVIOUS
<1>1. up \in [Node -> BOOLEAN]
  BY FaultAssumption DEF Init
<1>2. ASSUME NEW n \in Node PROVE MoteOK(n)
  <2>1. nodes[n] = (IF up[n] THEN {n} ELSE {}) /\ edges[n] = {} /\ elapsed[n] = 0
    BY DEF Init
  <2>2. Cardinality({n}) = 1 /\ Cardinality({}) = 0
    BY FS_Singleton, FS_EmptySet
  <2>3. Cardinality(nodes[n]) <= MAX_NODES /\ Cardinality(edges[n]) <= MAX_EDGES
    BY <2>1, <2>2, CapacityAssumption
  <2>4. Single({}) /\ Endpoints({}) = {}
    BY DEF Single, Endpoints
  <2>5. QED  BY <1>1, <2>1, <2>3, <2>4 DEF MoteOK
<1>3. /\ nodes \in [Node -> SUBSET Node]
      /\ edges \in [Node -> SUBSET EdgeRecord]
      /\ elapsed \in [Node -> 0..MaxDelay]
      /\ age \in [Link -> 0..AgeCap]
  BY Constants DEF Init
<1>4. air \subseteq Packet /\ SinglePackets /\ PacketsOnLinks
  BY DEF Init, SinglePackets, PacketsOnLinks
<1>5. QED  BY <1>1, <1>2, <1>3, <1>4 DEF IInv

(* A wake-up, with its purge and its broadcast, preserves the invariant.    *)
LEMMA IInvWake ==
    ASSUME IInv, NEW n \in Node, Wake(n)
    PROVE  IInv'
<1>1. /\ up' = up /\ age' = age /\ elapsed' = [elapsed EXCEPT ![n] = 0] /\ up[n]
      /\ DOMAIN nodes = Node /\ DOMAIN edges = Node /\ DOMAIN elapsed = Node
  BY DEF Wake, IInv
<1>2. ASSUME NEW k \in Node PROVE MoteOK(k)'
  <2>1. CASE k = n
    <3>1. nodes[n] \in SUBSET Node /\ Cardinality(nodes[n]) <= MAX_NODES
      BY DEF IInv, MoteOK
    <3>2. nodes'[n] \in SUBSET nodes[n]
      BY WakeGraph
    <3>3. IsFiniteSet(nodes[n]) /\ IsFiniteSet(nodes'[n])
      BY <3>1, <3>2, FiniteNodes
    <3>4. /\ Cardinality(nodes'[n]) <= Cardinality(nodes[n])
          /\ Cardinality(nodes'[n]) \in Nat /\ Cardinality(nodes[n]) \in Nat
      BY <3>2, <3>3, FS_Subset, FS_CardinalityType
    <3>5. Cardinality(nodes'[n]) <= MAX_NODES
      BY <3>1, <3>4, CapacityAssumption
    <3>6. QED  BY <1>1, <2>1, <3>5, WakeGraph DEF MoteOK
  <2>2. CASE k # n
    <3>1. nodes'[k] = nodes[k] /\ edges'[k] = edges[k] /\ elapsed'[k] = elapsed[k]
      BY <1>1, <2>2, WakeGraph
    <3>2. QED  BY <1>1, <3>1 DEF MoteOK, IInv
  <2>3. QED  BY <2>1, <2>2
<1>3. nodes' \in [Node -> SUBSET Node] /\ edges' \in [Node -> SUBSET EdgeRecord]
  <2>1. nodes' = [k \in Node |-> nodes'[k]] /\ edges' = [k \in Node |-> edges'[k]]
    BY <1>1 DEF Wake, IInv
  <2>2. \A k \in Node : nodes'[k] \in SUBSET Node /\ edges'[k] \in SUBSET EdgeRecord
    BY WakeGraph DEF IInv
  <2>3. QED  BY <2>1, <2>2
<1>4. elapsed' \in [Node -> 0..MaxDelay]
  BY <1>1, Constants DEF IInv
<1>5. air' \subseteq Packet
  BY WakePackets DEF IInv
<1>6. SinglePackets'
  <2> SUFFICES ASSUME NEW m \in air' PROVE Single(m.drains)
    BY DEF SinglePackets
  <2>1. CASE m \in air
    BY <2>1 DEF SinglePackets, IInv
  <2>2. CASE m \notin air
    BY <2>2, WakePackets, WakeGraph DEF Single
  <2>3. QED  BY <2>1, <2>2
<1>7. PacketsOnLinks'
  BY <1>1, WakePackets DEF PacketsOnLinks, IInv
<1>8. QED  BY <1>1, <1>2, <1>3, <1>4, <1>5, <1>6, <1>7 DEF IInv

(* Merging a packet preserves the invariant.                                *)
LEMMA IInvReceive ==
    ASSUME IInv, NEW m \in air, Receive(m)
    PROVE  IInv'
<1>1. /\ up' = up /\ elapsed' = elapsed /\ air' = air \ {m}
      /\ age' = [age EXCEPT ![[src |-> m.from, dst |-> m.to]] = 0]
      /\ up[m.to] /\ m.to \in Node
  BY ReceiveGraph DEF Receive, IInv, PacketsOnLinks
<1>2. ASSUME NEW k \in Node PROVE MoteOK(k)'
  <2>1. CASE k = m.to
    <3>1. k \in nodes[k]
      BY <1>1, <2>1 DEF IInv, MoteOK
    <3>2. QED  BY <1>1, <2>1, <3>1, ReceiveGraph DEF MoteOK
  <2>2. CASE k # m.to
    <3>1. nodes'[k] = nodes[k] /\ edges'[k] = edges[k]
      BY <2>2, ReceiveGraph
    <3>2. QED  BY <1>1, <3>1 DEF MoteOK, IInv
  <2>3. QED  BY <2>1, <2>2
<1>3. nodes' \in [Node -> SUBSET Node] /\ edges' \in [Node -> SUBSET EdgeRecord]
  <2>1. nodes' = [k \in Node |-> nodes'[k]] /\ edges' = [k \in Node |-> edges'[k]]
    BY DEF Receive, IInv
  <2>2. \A k \in Node : nodes'[k] \in SUBSET Node /\ edges'[k] \in SUBSET EdgeRecord
    BY ReceiveGraph DEF IInv
  <2>3. QED  BY <2>1, <2>2
<1>4. age' \in [Link -> 0..AgeCap]
  <2> DEFINE link == [src |-> m.from, dst |-> m.to]
  <2> HIDE DEF link
  <2>1. age' = [age EXCEPT ![link] = 0]
    BY <1>1 DEF link
  <2>2. 0 \in 0..AgeCap
    BY Constants
  <2>3. age \in [Link -> 0..AgeCap]
    BY DEF IInv
  <2>4. QED  BY <2>1, <2>2, <2>3
<1>5. SinglePackets' /\ PacketsOnLinks' /\ air' \subseteq Packet
  BY <1>1 DEF SinglePackets, PacketsOnLinks, IInv
<1>6. QED  BY <1>1, <1>2, <1>3, <1>4, <1>5 DEF IInv

(* The failure of a mote preserves the invariant.                           *)
LEMMA IInvCrash ==
    ASSUME IInv, NEW n \in Node, Crash(n)
    PROVE  IInv'
<1>1. ASSUME NEW k \in Node PROVE MoteOK(k)'
  <2>1. CASE k = n
    <3>1. nodes'[k] = {} /\ edges'[k] = {} /\ elapsed'[k] = 0 /\ up'[k] = FALSE
      BY <2>1 DEF Crash, IInv
    <3>2. Single({}) /\ Endpoints({}) = {}
      BY DEF Single, Endpoints
    <3>3. Cardinality({}) = 0
      BY FS_EmptySet
    <3>4. QED  BY <3>1, <3>2, <3>3, CapacityAssumption DEF MoteOK
  <2>2. CASE k # n
    <3>1. /\ nodes'[k] = nodes[k] /\ edges'[k] = edges[k]
          /\ elapsed'[k] = elapsed[k] /\ up'[k] = up[k]
      BY <2>2 DEF Crash, IInv
    <3>2. QED  BY <3>1 DEF MoteOK, IInv
  <2>3. QED  BY <2>1, <2>2
<1>2. /\ up' \in [Node -> BOOLEAN] /\ elapsed' \in [Node -> 0..MaxDelay]
      /\ nodes' \in [Node -> SUBSET Node] /\ edges' \in [Node -> SUBSET EdgeRecord]
      /\ age' \in [Link -> 0..AgeCap]
  BY Constants DEF Crash, IInv
<1>3. SinglePackets' /\ PacketsOnLinks' /\ air' \subseteq Packet
  <2>1. \A m \in air' : m \in air /\ m.to # n /\ m.to \in Node
    BY DEF Crash, IInv, Packet
  <2>2. \A m \in air' : up'[m.to] = up[m.to]
    BY <2>1 DEF Crash, IInv
  <2>3. QED  BY <2>1, <2>2 DEF SinglePackets, PacketsOnLinks, IInv
<1>4. QED  BY <1>1, <1>2, <1>3 DEF IInv

(* The start of a mote preserves the invariant.                             *)
LEMMA IInvBoot ==
    ASSUME IInv, NEW n \in Node, Boot(n)
    PROVE  IInv'
<1>1. ASSUME NEW k \in Node PROVE MoteOK(k)'
  <2>1. CASE k = n
    <3>1. nodes'[k] = {k} /\ edges'[k] = {} /\ up'[k] = TRUE
      BY <2>1 DEF Boot, IInv, MoteOK
    <3>2. Single({}) /\ Endpoints({}) = {}
      BY DEF Single, Endpoints
    <3>3. Cardinality({k}) = 1 /\ Cardinality({}) = 0
      BY FS_Singleton, FS_EmptySet
    <3>4. QED  BY <3>1, <3>2, <3>3, CapacityAssumption DEF MoteOK
  <2>2. CASE k # n
    <3>1. /\ nodes'[k] = nodes[k] /\ edges'[k] = edges[k]
          /\ elapsed'[k] = elapsed[k] /\ up'[k] = up[k]
      BY <2>2 DEF Boot, IInv
    <3>2. QED  BY <3>1 DEF MoteOK, IInv
  <2>3. QED  BY <2>1, <2>2
<1>2. /\ up' \in [Node -> BOOLEAN] /\ elapsed' \in [Node -> 0..MaxDelay]
      /\ nodes' \in [Node -> SUBSET Node] /\ edges' \in [Node -> SUBSET EdgeRecord]
      /\ age' \in [Link -> 0..AgeCap]
  BY DEF Boot, IInv
<1>3. SinglePackets' /\ PacketsOnLinks' /\ air' \subseteq Packet
  BY DEF Boot, SinglePackets, PacketsOnLinks, IInv, Packet
<1>4. QED  BY <1>1, <1>2, <1>3 DEF IInv

(* A second that passes preserves the invariant: no timer is overdue.       *)
LEMMA IInvTick ==
    ASSUME IInv, Tick
    PROVE  IInv'
<1>1. \A n \in Node : ~up[n] => elapsed'[n] = elapsed[n]
  BY DEF Tick
<1>2. \A k \in Node : MoteOK(k)'
  BY <1>1 DEF MoteOK, IInv, Tick
<1>3. elapsed' \in [Node -> 0..MaxDelay]
  BY Constants DEF Tick, IInv
<1>4. age' \in [Link -> 0..AgeCap]
  BY Constants DEF Tick, IInv
<1>5. SinglePackets' /\ PacketsOnLinks' /\ air' \subseteq Packet
  BY DEF Tick, SinglePackets, PacketsOnLinks
<1>6. QED  BY <1>2, <1>3, <1>4, <1>5 DEF IInv, Tick

(* Every step preserves the invariant.                                      *)
LEMMA IInvNext ==
    ASSUME IInv, [Next]_vars
    PROVE  IInv'
<1>1. ASSUME NEW n \in Node, Wake(n) PROVE IInv'
  BY <1>1, IInvWake
<1>2. ASSUME NEW m \in air, Receive(m) PROVE IInv'
  BY <1>2, IInvReceive
<1>3. ASSUME NEW m \in air, Lose(m) PROVE IInv'
  BY <1>3 DEF Lose, IInv, MoteOK, SinglePackets, PacketsOnLinks
<1>4. ASSUME NEW n \in Mortal, Crash(n) PROVE IInv'
  BY <1>4, IInvCrash, FaultAssumption
<1>5. ASSUME NEW n \in Late, Boot(n) PROVE IInv'
  BY <1>5, IInvBoot, FaultAssumption
<1>6. CASE Tick
  BY <1>6, IInvTick
<1>7. CASE UNCHANGED vars
  BY <1>7 DEF vars, IInv, MoteOK, SinglePackets, PacketsOnLinks
<1>8. QED  BY <1>1, <1>2, <1>3, <1>4, <1>5, <1>6, <1>7 DEF Next

(* The invariant holds in every reachable state.                            *)
THEOREM Invariance == Spec => []IInv
<1>1. Init => IInv
  BY IInvInit
<1>2. IInv /\ [Next]_vars => IInv'
  BY IInvNext
<1>3. QED  BY <1>1, <1>2, PTL DEF Spec

-----------------------------------------------------------------------------
(* The pools never overflow, and every value is of its type: in particular  *)
(* a stored ttl is never 0 and the subtraction in purge() never wraps.      *)
THEOREM TypeCorrect == Spec => []TypeOK
<1>1. IInv => TypeOK
  BY DEF IInv, MoteOK, TypeOK
<1>2. QED  BY <1>1, Invariance, PTL

(* A running mote finds itself and the ends of all its edges in its node    *)
(* table, so serialize() never gives up and get_hop_counts() never writes   *)
(* past its array, whatever was purged, lost or refused for lack of space.  *)
THEOREM ClosedGraphs == Spec => []GraphClosed
<1>1. IInv => GraphClosed
  BY DEF IInv, MoteOK, GraphClosed
<1>2. QED  BY <1>1, Invariance, PTL

(* No edge has two entries.                                                 *)
THEOREM NoDuplicates == Spec => []OneRecordPerEdge
<1>1. IInv => OneRecordPerEdge
  BY DEF IInv, MoteOK, OneRecordPerEdge, Single
<1>2. QED  BY <1>1, Invariance, PTL

-----------------------------------------------------------------------------
(* Received information never shortens the life of a known edge.            *)
THEOREM NeverShortened == Spec => GossipNeverShortens
<1>1. ASSUME IInv, NEW m \in air, Receive(m), NEW n \in Node, NEW e \in edges[n]
      PROVE  \E f \in find_edge(edges'[n], e) : f.ttl >= e.ttl
  <2>1. CASE n = m.to
    BY <1>1, <2>1, ReceiveGraph
  <2>2. CASE n # m.to
    <3>1. edges'[n] = edges[n] /\ e \in EdgeRecord
      BY <1>1, <2>2, ReceiveGraph DEF IInv
    <3>2. e \in find_edge(edges'[n], e)
      BY <1>1, <3>1 DEF find_edge, SameEdge
    <3>3. e.ttl >= e.ttl
      BY <3>1, Constants DEF EdgeRecord
    <3>4. QED  BY <3>2, <3>3
  <2>3. QED  BY <2>1, <2>2
<1>2. IInv /\ [Next]_vars =>
        [(\E m \in air : Receive(m)) =>
            \A n \in Node : \A e \in edges[n] :
                \E f \in find_edge(edges'[n], e) : f.ttl >= e.ttl]_vars
  BY <1>1
<1>3. QED  BY <1>2, Invariance, PTL DEF Spec, GossipNeverShortens

-----------------------------------------------------------------------------
(* How old an edge can be, if edges are purged.                             *)

(* What a purge leaves, edge by edge.                                       *)
LEMMA WakePurge ==
    ASSUME IInv, ~NO_PURGE, NEW n \in Node, Wake(n)
    PROVE  /\ edges'[n] = purge_edges(edges[n], elapsed[n])
           /\ \A g \in edges'[n] : \E e \in edges[n] :
                 /\ SameEdge(e, g) /\ LinkOf(e) = LinkOf(g)
                 /\ e.ttl = g.ttl + elapsed[n] /\ g.ttl \in 1..TTL /\ e.ttl \in 1..TTL
           /\ elapsed[n] \in Nat /\ elapsed' = [elapsed EXCEPT ![n] = 0]
           /\ up' = up /\ age' = age
<1>1. /\ edges'[n] = purge_edges(edges[n], elapsed[n])
      /\ elapsed[n] \in Nat /\ elapsed' = [elapsed EXCEPT ![n] = 0]
      /\ up' = up /\ age' = age
  BY Constants DEF Wake, IInv
<1>2. ASSUME NEW g \in edges'[n]
      PROVE  \E e \in edges[n] :
                 /\ SameEdge(e, g) /\ LinkOf(e) = LinkOf(g)
                 /\ e.ttl = g.ttl + elapsed[n] /\ g.ttl \in 1..TTL /\ e.ttl \in 1..TTL
  <2>1. edges[n] \in SUBSET EdgeRecord /\ IsFiniteSet(edges[n])
    BY FiniteEdges DEF IInv
  <2>2. PICK e \in edges[n] \ Expired(edges[n], elapsed[n]) :
            g = [src |-> e.src, dst |-> e.dst, ttl |-> e.ttl - elapsed[n]]
    BY <1>1, <2>1, PurgeEdges
  <2>3. g \in EdgeRecord /\ e \in EdgeRecord
    BY <2>1, WakeGraph
  <2>4. g.ttl = e.ttl - elapsed[n] /\ g.src = e.src /\ g.dst = e.dst
    BY <2>2
  <2>5. g.ttl \in 1..TTL /\ e.ttl \in 1..TTL
    BY <2>3 DEF EdgeRecord
  <2>6. e.ttl = g.ttl + elapsed[n]
    BY <1>1, <2>4, <2>5, Constants
  <2>7. QED  BY <2>4, <2>5, <2>6 DEF SameEdge, LinkOf
<1>3. QED  BY <1>1, <1>2

(* A packet that is received makes its link the youngest, no other older.   *)
LEMMA ReceiveAge ==
    ASSUME IInv, NEW m \in air, Receive(m)
    PROVE  /\ \A l \in Link : age'[l] \in Nat /\ age[l] \in Nat /\ age'[l] <= age[l]
           /\ age'[[src |-> m.from, dst |-> m.to]] = 0
           /\ [src |-> m.from, dst |-> m.to] \in Link
<1> DEFINE link == [src |-> m.from, dst |-> m.to]
<1>1. link \in Link /\ age \in [Link -> 0..AgeCap] /\ age' = [age EXCEPT ![link] = 0]
  BY DEF IInv, PacketsOnLinks, Receive
<1> HIDE DEF link
<1>2. /\ \A l \in Link : age'[l] \in Nat /\ age[l] \in Nat /\ age'[l] <= age[l]
      /\ age'[link] = 0
  BY <1>1, Constants
<1>3. QED  BY <1>1, <1>2 DEF link

(* Every step preserves the bound on the age of an edge: a copy is lowered  *)
(* before it is sent, and only a packet over the link itself raises one.    *)
LEMMA AgeBoundNext ==
    ASSUME IInv, IInv', AgeBound, ~NO_PURGE, [Next]_vars
    PROVE  AgeBound'
<1>1. /\ \A n \in Node : edges[n] \subseteq EdgeRecord /\ edges'[n] \subseteq EdgeRecord
      /\ \A e \in EdgeRecord : e.ttl \in Nat /\ e.ttl >= 1
      /\ elapsed \in [Node -> 0..MaxDelay] /\ age \in [Link -> 0..AgeCap]
      /\ \A m \in air : m.drains \in SUBSET EdgeRecord /\ m \in Packet
  BY Constants DEF IInv, Packet, EdgeRecord
<1>2. ASSUME NEW n \in Node, Wake(n) PROVE AgeBound'
  <2>1. ASSUME NEW g \in edges'[n]
        PROVE  LinkOf(g) \in Link /\ g.ttl + age'[LinkOf(g)] <= TTL
    <3>1. PICK e \in edges[n] :
              /\ LinkOf(e) = LinkOf(g) /\ e.ttl = g.ttl + elapsed[n]
              /\ g.ttl \in 1..TTL /\ e.ttl \in 1..TTL
      BY <1>2, WakePurge
    <3>2. LinkOf(e) \in Link /\ e.ttl + age[LinkOf(e)] <= TTL + elapsed[n]
      BY DEF AgeBound
    <3>3. age'[LinkOf(g)] = age[LinkOf(e)] /\ age[LinkOf(e)] \in Nat /\ elapsed[n] \in Nat
      BY <1>1, <1>2, <3>1, <3>2, WakePurge, Constants
    <3>4. QED  BY <3>1, <3>2, <3>3, Constants
  <2>2. ASSUME NEW k \in Node, NEW g \in edges'[k]
        PROVE  LinkOf(g) \in Link /\ g.ttl + age'[LinkOf(g)] <= TTL + elapsed'[k]
    <3>1. CASE k = n
      <4>1. elapsed'[k] = 0
        BY <1>1, <1>2, <3>1, WakePurge
      <4>2. QED  BY <2>1, <2>2, <3>1, <4>1, Constants
    <3>2. CASE k # n
      <4>1. edges'[k] = edges[k] /\ elapsed'[k] = elapsed[k] /\ age' = age
        BY <1>1, <1>2, <3>2, WakeGraph, WakePurge
      <4>2. QED  BY <2>2, <4>1 DEF AgeBound
    <3>3. QED  BY <3>1, <3>2
  <2>3. ASSUME NEW m \in air', NEW g \in m.drains
        PROVE  LinkOf(g) \in Link /\ g.ttl + age'[LinkOf(g)] <= TTL
    <3>1. CASE m \in air
      BY <1>2, <2>3, <3>1, WakePurge DEF AgeBound
    <3>2. CASE m \notin air
      BY <1>2, <2>1, <2>3, <3>2, WakePackets
    <3>3. QED  BY <3>1, <3>2
  <2>4. QED  BY <2>2, <2>3 DEF AgeBound
<1>3. ASSUME NEW m \in air, Receive(m) PROVE AgeBound'
  <2>1. ASSUME NEW l \in Link, NEW t \in Nat, NEW b \in Nat, t + age[l] <= b
        PROVE  t + age'[l] <= b
    <3>1. age'[l] \in Nat /\ age[l] \in Nat /\ age'[l] <= age[l]
      BY <1>3, ReceiveAge
    <3>2. QED  BY <2>1, <3>1
  <2>2. elapsed' = elapsed /\ air' = air \ {m}
    BY <1>3 DEF Receive
  <2>3. ASSUME NEW k \in Node, NEW g \in edges'[k]
        PROVE  LinkOf(g) \in Link /\ g.ttl + age'[LinkOf(g)] <= TTL + elapsed'[k]
    <3>1. elapsed[k] \in Nat /\ TTL + elapsed[k] \in Nat /\ g.ttl \in Nat
      BY <1>1, <2>3, Constants
    <3>2. CASE g \in edges[k]
      BY <2>1, <2>2, <3>1, <3>2 DEF AgeBound
    <3>3. CASE g \notin edges[k] /\ g \in m.drains
      <4>1. LinkOf(g) \in Link /\ g.ttl + age[LinkOf(g)] <= TTL
        BY <3>3 DEF AgeBound
      <4>2. g.ttl + age'[LinkOf(g)] <= TTL /\ age'[LinkOf(g)] \in Nat
        BY <2>1, <3>1, <4>1, <1>3, ReceiveAge, Constants
      <4>3. QED  BY <2>2, <3>1, <4>1, <4>2, Constants
    <3>4. CASE g \notin edges[k] /\ g \notin m.drains
      <4>1. k = m.to /\ g = [src |-> m.from, dst |-> m.to, ttl |-> TTL]
        BY <1>3, <2>3, <3>4, ReceiveGraph
      <4>2. LinkOf(g) = [src |-> m.from, dst |-> m.to] /\ g.ttl = TTL
        BY <4>1 DEF LinkOf
      <4>3. LinkOf(g) \in Link /\ age'[LinkOf(g)] = 0
        BY <1>3, <4>2, ReceiveAge
      <4>4. QED  BY <2>2, <3>1, <4>2, <4>3, Constants
    <3>5. QED  BY <3>2, <3>3, <3>4
  <2>4. ASSUME NEW p \in air', NEW g \in p.drains
        PROVE  LinkOf(g) \in Link /\ g.ttl + age'[LinkOf(g)] <= TTL
    BY <1>1, <2>1, <2>2, <2>4, Constants DEF AgeBound
  <2>5. QED  BY <2>3, <2>4 DEF AgeBound
<1>4. ASSUME NEW m \in air, Lose(m) PROVE AgeBound'
  BY <1>4 DEF Lose, AgeBound
<1>5. ASSUME NEW n \in Mortal, Crash(n) PROVE AgeBound'
  <2>1. ASSUME NEW k \in Node
        PROVE  edges'[k] = {} \/ (edges'[k] = edges[k] /\ elapsed'[k] = elapsed[k])
    <3>1. DOMAIN edges = Node /\ DOMAIN elapsed = Node
      BY DEF IInv
    <3>2. CASE k = n
      BY <1>5, <3>1, <3>2 DEF Crash
    <3>3. CASE k # n
      BY <1>5, <3>1, <3>3 DEF Crash
    <3>4. QED  BY <3>2, <3>3
  <2>2. age' = age /\ air' \subseteq air
    BY <1>5 DEF Crash
  <2>3. QED  BY <2>1, <2>2 DEF AgeBound
<1>6. ASSUME NEW n \in Late, Boot(n) PROVE AgeBound'
  BY <1>6 DEF Boot, AgeBound
<1>7. ASSUME Tick PROVE AgeBound'
  <2>1. air' = {} /\ edges' = edges
    BY <1>7 DEF Tick
  <2>2. ASSUME NEW k \in Node, NEW g \in edges'[k]
        PROVE  LinkOf(g) \in Link /\ g.ttl + age'[LinkOf(g)] <= TTL + elapsed'[k]
    <3>1. LinkOf(g) \in Link /\ g.ttl + age[LinkOf(g)] <= TTL + elapsed[k]
      BY <2>1, <2>2 DEF AgeBound
    <3>2. up[k]
      BY <2>1, <2>2 DEF IInv, MoteOK
    <3>3. elapsed'[k] = elapsed[k] + 1 /\ elapsed[k] \in Nat
      BY <1>1, <1>7, <3>2, Constants DEF Tick
    <3>4. age'[LinkOf(g)] \in Nat /\ age[LinkOf(g)] \in Nat
          /\ age'[LinkOf(g)] <= age[LinkOf(g)] + 1
      BY <1>1, <1>7, <3>1, Constants DEF Tick
    <3>5. g.ttl \in Nat
      BY <1>1, <2>2
    <3>6. QED  BY <3>1, <3>3, <3>4, <3>5, Constants
  <2>3. QED  BY <2>1, <2>2 DEF AgeBound
<1>8. CASE UNCHANGED vars
  BY <1>8 DEF vars, AgeBound
<1>9. QED  BY <1>2, <1>3, <1>4, <1>5, <1>6, <1>7, <1>8 DEF Next

(* The remaining lifetime of an edge and the time since a packet came over  *)
(* it never exceed TTL, wherever the edge has travelled.                    *)
THEOREM AgesBounded ==
    ASSUME ~NO_PURGE
    PROVE  Spec => []AgeBound
<1>1. Init => AgeBound
  BY DEF Init, AgeBound
<1>2. IInv /\ IInv' /\ AgeBound /\ [Next]_vars => AgeBound'
  BY AgeBoundNext
<1>3. QED  BY <1>1, <1>2, Invariance, PTL DEF Spec

(* Gossip does not keep a dead link alive: no mote knows an edge over which *)
(* nothing has come for TTL and one timer delay.                            *)
THEOREM NothingStale ==
    ASSUME ~NO_PURGE
    PROVE  Spec => []NoStaleEdge
<1>1. ASSUME IInv, AgeBound PROVE NoStaleEdge
  <2> SUFFICES ASSUME NEW n \in Node, NEW e \in edges[n]
               PROVE  LinkOf(e) \in Link /\ age[LinkOf(e)] < AgeCap
    BY DEF NoStaleEdge
  <2>1. LinkOf(e) \in Link /\ e.ttl + age[LinkOf(e)] <= TTL + elapsed[n]
    BY <1>1 DEF AgeBound
  <2>2. e.ttl \in Nat /\ e.ttl >= 1 /\ elapsed[n] \in 0..MaxDelay
    BY <1>1, Constants DEF IInv, EdgeRecord
  <2>3. age[LinkOf(e)] \in Nat
    BY <1>1, <2>1, Constants DEF IInv
  <2>4. QED  BY <2>1, <2>2, <2>3, BuildAssumption DEF AgeCap, MaxDelay
<1>2. QED  BY <1>1, Invariance, AgesBounded, PTL

-----------------------------------------------------------------------------
(* Where the lifetime of an edge is renewed.                                *)

(* The mote at the end of the edge f has a copy with at least ttl to live.  *)
Renewable(f, ttl) ==
    \E e \in find_edge(edges[f.dst], f) : ttl <= e.ttl - elapsed[f.dst]

(* The same after the step.                                                 *)
RenewableNext(f, ttl) ==
    \E e \in find_edge(edges'[f.dst], f) : ttl <= e.ttl - elapsed'[f.dst]

(* The inductive form of OwnCopyFreshest covers the packets in flight.      *)
FreshIInv ==
    /\ \A m \in Node : \A f \in edges[m] :
          f.dst \notin Mortal /\ f.ttl > elapsed[m] => Renewable(f, f.ttl - elapsed[m])
    /\ \A m \in air : \A f \in m.drains :
          f.dst \notin Mortal => Renewable(f, f.ttl)

(* Every step keeps the copy at the end of an edge the freshest one.        *)
LEMMA FreshNext ==
    ASSUME IInv, IInv', FreshIInv, ~NO_PURGE, [Next]_vars
    PROVE  FreshIInv'
<1>1. /\ \A n \in Node : edges[n] \subseteq EdgeRecord /\ edges'[n] \subseteq EdgeRecord
      /\ \A e \in EdgeRecord : e.ttl \in Nat /\ e.ttl >= 1 /\ e.dst \in Node /\ e.src \in Node
      /\ elapsed \in [Node -> Nat] /\ elapsed' \in [Node -> Nat]
      /\ \A m \in air : m.drains \in SUBSET EdgeRecord /\ m.to \in Node
  BY Constants DEF IInv, Packet, EdgeRecord
<1>2. ASSUME NEW n \in Node, Wake(n) PROVE FreshIInv'
  <2>1. /\ elapsed'[n] = 0
        /\ \A k \in Node \ {n} : elapsed'[k] = elapsed[k] /\ edges'[k] = edges[k]
    BY <1>1, <1>2, WakeGraph, WakePurge
  (* A copy with time left survives the purge with just that time.          *)
  <2>2. ASSUME NEW f, f.dst \in Node, NEW ttl \in Int, ttl > 0, Renewable(f, ttl)
        PROVE  RenewableNext(f, ttl)
    <3>1. PICK e \in find_edge(edges[f.dst], f) : ttl <= e.ttl - elapsed[f.dst]
      BY <2>2 DEF Renewable, RenewableNext
    <3>2. e \in edges[f.dst] /\ SameEdge(f, e) /\ e \in EdgeRecord
      BY <1>1, <2>2, <3>1 DEF find_edge
    <3>3. CASE f.dst # n
      BY <2>1, <2>2, <3>1, <3>3 DEF Renewable, RenewableNext
    <3>4. CASE f.dst = n
      <4> DEFINE g == [src |-> e.src, dst |-> e.dst, ttl |-> e.ttl - elapsed[n]]
      <4>1. e \notin Expired(edges[n], elapsed[n])
        BY <1>1, <2>2, <3>1, <3>2, <3>4 DEF Expired
      <4>2. g \in edges'[n]
        BY <1>2, <3>2, <3>4, <4>1, WakePurge DEF purge_edges
      <4>3. g \in find_edge(edges'[n], f)
        BY <3>2, <4>2 DEF find_edge, SameEdge
      <4>4. ttl <= g.ttl - elapsed'[n]
        BY <1>1, <2>1, <2>2, <3>1, <3>2, <3>4
      <4>5. QED  BY <3>4, <4>3, <4>4 DEF Renewable, RenewableNext
    <3>5. QED  BY <3>3, <3>4
  <2>3. ASSUME NEW g \in edges'[n], g.dst \notin Mortal
        PROVE  RenewableNext(g, g.ttl)
    <3>1. PICK e \in edges[n] :
              /\ SameEdge(e, g) /\ e.ttl = g.ttl + elapsed[n] /\ g.ttl \in 1..TTL
      BY <1>2, WakePurge
    <3>2. e.dst = g.dst /\ e.src = g.src /\ g.dst \in Node
      BY <1>1, <3>1 DEF SameEdge
    <3>3. e.ttl > elapsed[n] /\ e.ttl - elapsed[n] = g.ttl /\ g.ttl \in Int /\ g.ttl > 0
      BY <1>1, <3>1, Constants
    <3>4. Renewable(e, g.ttl)
      BY <2>3, <3>2, <3>3 DEF FreshIInv
    <3>5. Renewable(g, g.ttl)
      BY <3>2, <3>4 DEF Renewable, RenewableNext, find_edge, SameEdge
    <3>6. QED  BY <2>2, <3>2, <3>3, <3>5
  <2>4. ASSUME NEW k \in Node, NEW f \in edges'[k], f.dst \notin Mortal, f.ttl > elapsed'[k]
        PROVE  RenewableNext(f, f.ttl - elapsed'[k])
    <3>1. CASE k = n
      <4>1. f.ttl - elapsed'[k] = f.ttl
        BY <1>1, <2>1, <2>4, <3>1
      <4>2. QED  BY <2>3, <2>4, <3>1, <4>1
    <3>2. CASE k # n
      <4>1. edges'[k] = edges[k] /\ elapsed'[k] = elapsed[k]
        BY <2>1, <3>2
      <4>2. Renewable(f, f.ttl - elapsed[k])
        BY <2>4, <4>1 DEF FreshIInv
      <4>3. f.ttl - elapsed[k] \in Int /\ f.ttl - elapsed[k] > 0 /\ f.dst \in Node
        BY <1>1, <2>4, <4>1
      <4>4. RenewableNext(f, f.ttl - elapsed[k])
        BY <2>2, <4>2, <4>3
      <4>5. QED  BY <4>1, <4>4 DEF Renewable, RenewableNext
    <3>3. QED  BY <3>1, <3>2
  <2>5. ASSUME NEW m \in air', NEW f \in m.drains, f.dst \notin Mortal
        PROVE  RenewableNext(f, f.ttl)
    <3>1. CASE m \in air
      <4>1. Renewable(f, f.ttl)
        BY <2>5, <3>1 DEF FreshIInv
      <4>2. f \in EdgeRecord
        BY <1>1, <2>5, <3>1
      <4>3. f.ttl \in Int /\ f.ttl > 0 /\ f.dst \in Node
        BY <1>1, <4>2
      <4>4. QED  BY <2>2, <4>1, <4>3
    <3>2. CASE m \notin air
      BY <1>2, <2>3, <2>5, <3>2, WakePackets
    <3>3. QED  BY <3>1, <3>2
  <2>6. QED  BY <2>4, <2>5 DEF FreshIInv, Renewable, RenewableNext
<1>3. ASSUME NEW m \in air, Receive(m) PROVE FreshIInv'
  <2>1. elapsed' = elapsed /\ air' \subseteq air
    BY <1>3 DEF Receive
  (* No stored edge is lost or gets less time to live.                      *)
  <2>2. ASSUME NEW f, f.dst \in Node, NEW ttl \in Int, Renewable(f, ttl)
        PROVE  RenewableNext(f, ttl)
    <3>1. PICK e \in find_edge(edges[f.dst], f) : ttl <= e.ttl - elapsed[f.dst]
      BY <2>2 DEF Renewable, RenewableNext
    <3>2. e \in edges[f.dst] /\ SameEdge(f, e) /\ e \in EdgeRecord
      BY <1>1, <2>2, <3>1 DEF find_edge
    <3>3. CASE f.dst # m.to
      <4>1. edges'[f.dst] = edges[f.dst]
        BY <1>3, <2>2, <3>3, ReceiveGraph
      <4>2. QED  BY <2>1, <3>1, <4>1 DEF Renewable, RenewableNext
    <3>4. CASE f.dst = m.to
      <4>1. PICK g \in find_edge(edges'[m.to], e) : g.ttl >= e.ttl
        BY <1>3, <3>2, <3>4, ReceiveGraph
      <4>2. g \in edges'[m.to] /\ SameEdge(e, g) /\ g \in EdgeRecord
        BY <1>1, <4>1 DEF find_edge
      <4>3. g \in find_edge(edges'[f.dst], f)
        BY <3>2, <3>4, <4>2 DEF find_edge, SameEdge
      <4>4. ttl <= g.ttl - elapsed'[f.dst]
        BY <1>1, <2>1, <2>2, <3>1, <3>2, <4>1, <4>2
      <4>5. QED  BY <4>3, <4>4 DEF Renewable, RenewableNext
    <3>5. QED  BY <3>3, <3>4
  <2>3. ASSUME NEW k \in Node, NEW f \in edges'[k], f.dst \notin Mortal, f.ttl > elapsed'[k]
        PROVE  RenewableNext(f, f.ttl - elapsed'[k])
    <3>1. f.ttl \in Nat /\ elapsed[k] \in Nat /\ f.dst \in Node
      BY <1>1, <2>3
    <3>2. CASE f \in edges[k]
      <4>1. Renewable(f, f.ttl - elapsed[k])
        BY <2>1, <2>3, <3>2 DEF FreshIInv
      <4>2. RenewableNext(f, f.ttl - elapsed[k])
        BY <2>2, <3>1, <4>1
      <4>3. QED  BY <2>1, <4>2 DEF Renewable, RenewableNext
    <3>3. CASE f \notin edges[k] /\ f \in m.drains
      <4>1. PICK e \in find_edge(edges[f.dst], f) : f.ttl <= e.ttl - elapsed[f.dst]
        BY <2>3, <3>3 DEF FreshIInv, Renewable, RenewableNext
      <4>2. e \in EdgeRecord /\ elapsed[f.dst] \in Nat
        BY <1>1, <3>1, <4>1 DEF find_edge
      <4>3. f.ttl - elapsed[k] <= e.ttl - elapsed[f.dst]
        BY <1>1, <3>1, <4>1, <4>2
      <4>4. Renewable(f, f.ttl - elapsed[k])
        BY <4>1, <4>3 DEF Renewable, RenewableNext
      <4>5. RenewableNext(f, f.ttl - elapsed[k])
        BY <2>2, <3>1, <4>4
      <4>6. QED  BY <2>1, <4>5 DEF Renewable, RenewableNext
    <3>4. CASE f \notin edges[k] /\ f \notin m.drains
      <4>1. k = m.to /\ f = [src |-> m.from, dst |-> m.to, ttl |-> TTL]
        BY <1>3, <2>3, <3>4, ReceiveGraph
      <4>2. f.dst = k
        BY <4>1
      <4>3. f \in find_edge(edges'[f.dst], f)
        BY <2>3, <4>2 DEF find_edge, SameEdge
      <4>4. f.ttl - elapsed'[k] <= f.ttl - elapsed'[f.dst]
        BY <2>1, <3>1, <4>2
      <4>5. QED  BY <4>3, <4>4 DEF Renewable, RenewableNext
    <3>5. QED  BY <3>2, <3>3, <3>4
  <2>4. ASSUME NEW p \in air', NEW f \in p.drains, f.dst \notin Mortal
        PROVE  RenewableNext(f, f.ttl)
    <3>1. Renewable(f, f.ttl)
      BY <2>1, <2>4 DEF FreshIInv
    <3>2. f \in EdgeRecord
      BY <1>1, <2>1, <2>4
    <3>3. f.ttl \in Int /\ f.dst \in Node
      BY <1>1, <3>2
    <3>4. QED  BY <2>2, <3>1, <3>3
  <2>5. QED  BY <2>3, <2>4 DEF FreshIInv, Renewable, RenewableNext
<1>4. ASSUME NEW m \in air, Lose(m) PROVE FreshIInv'
  BY <1>4 DEF Lose, FreshIInv, Renewable, RenewableNext
<1>5. ASSUME NEW n \in Mortal, Crash(n) PROVE FreshIInv'
  <2>1. /\ edges'[n] = {} /\ air' \subseteq air
        /\ \A k \in Node \ {n} : edges'[k] = edges[k] /\ elapsed'[k] = elapsed[k]
    BY <1>5, FaultAssumption DEF Crash, IInv
  <2>2. ASSUME NEW f, NEW ttl, f.dst \in Node, f.dst \notin Mortal, Renewable(f, ttl)
        PROVE  RenewableNext(f, ttl)
    BY <2>1, <2>2 DEF Renewable, RenewableNext
  <2>3. ASSUME NEW k \in Node, NEW f \in edges'[k], f.dst \notin Mortal, f.ttl > elapsed'[k]
        PROVE  RenewableNext(f, f.ttl - elapsed'[k])
    <3>1. k # n /\ edges'[k] = edges[k] /\ elapsed'[k] = elapsed[k]
      BY <2>1, <2>3
    <3>2. Renewable(f, f.ttl - elapsed[k]) /\ f.dst \in Node
      BY <1>1, <2>3, <3>1 DEF FreshIInv
    <3>3. RenewableNext(f, f.ttl - elapsed[k])
      BY <2>2, <2>3, <3>2
    <3>4. QED  BY <3>1, <3>3 DEF Renewable, RenewableNext
  <2>4. ASSUME NEW p \in air', NEW f \in p.drains, f.dst \notin Mortal
        PROVE  RenewableNext(f, f.ttl)
    <3>1. Renewable(f, f.ttl) /\ f.dst \in Node
      BY <1>1, <2>1, <2>4 DEF FreshIInv
    <3>2. QED  BY <2>2, <2>4, <3>1
  <2>5. QED  BY <2>3, <2>4 DEF FreshIInv, Renewable, RenewableNext
<1>6. ASSUME NEW n \in Late, Boot(n) PROVE FreshIInv'
  BY <1>6 DEF Boot, FreshIInv, Renewable, RenewableNext
<1>7. ASSUME Tick PROVE FreshIInv'
  <2>1. air' = {} /\ edges' = edges
    BY <1>7 DEF Tick
  <2>2. ASSUME NEW k \in Node, edges[k] # {}
        PROVE  elapsed'[k] = elapsed[k] + 1
    <3>1. up[k]
      BY <2>2 DEF IInv, MoteOK
    <3>2. QED  BY <1>7, <3>1 DEF Tick
  <2>3. ASSUME NEW k \in Node, NEW f \in edges'[k], f.dst \notin Mortal, f.ttl > elapsed'[k]
        PROVE  RenewableNext(f, f.ttl - elapsed'[k])
    <3>1. elapsed'[k] = elapsed[k] + 1 /\ f \in edges[k] /\ f \in EdgeRecord
      BY <1>1, <2>1, <2>2, <2>3
    <3>2. f.ttl \in Nat /\ elapsed[k] \in Nat /\ f.dst \in Node
      BY <1>1, <3>1
    <3>3. PICK e \in find_edge(edges[f.dst], f) : f.ttl - elapsed[k] <= e.ttl - elapsed[f.dst]
      BY <2>3, <3>1, <3>2 DEF FreshIInv, Renewable, RenewableNext
    <3>4. e \in edges[f.dst] /\ e \in EdgeRecord
      BY <1>1, <3>2, <3>3 DEF find_edge
    <3>5. elapsed'[f.dst] = elapsed[f.dst] + 1 /\ elapsed[f.dst] \in Nat
      BY <1>1, <2>2, <3>2, <3>4
    <3>6. f.ttl - elapsed'[k] <= e.ttl - elapsed'[f.dst]
      BY <1>1, <3>1, <3>2, <3>3, <3>4, <3>5
    <3>7. QED  BY <2>1, <3>3, <3>6 DEF Renewable, RenewableNext
  <2>4. QED  BY <2>1, <2>3 DEF FreshIInv, Renewable, RenewableNext
<1>8. CASE UNCHANGED vars
  BY <1>8 DEF vars, FreshIInv, Renewable, RenewableNext
<1>9. QED  BY <1>2, <1>3, <1>4, <1>5, <1>6, <1>7, <1>8 DEF Next

(* Every copy of an edge expires no later than the one of the mote at its   *)
(* end, unless that mote has failed in the meantime.                        *)
THEOREM RenewedAtItsEnd ==
    ASSUME ~NO_PURGE
    PROVE  Spec => []OwnCopyFreshest
<1>1. Init => FreshIInv
  BY DEF Init, FreshIInv
<1>2. IInv /\ IInv' /\ FreshIInv /\ [Next]_vars => FreshIInv'
  BY FreshNext
<1>3. FreshIInv => OwnCopyFreshest
  BY DEF FreshIInv, Renewable, OwnCopyFreshest
<1>4. QED  BY <1>1, <1>2, <1>3, Invariance, PTL DEF Spec
=============================================================================
