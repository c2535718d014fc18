------------------------- MODULE DiscoveryViewProofs -------------------------
(***************************************************************************)
(* Theorems about what a mote of Discovery knows: never a node more than K  *)
(* hops away, and always the neighbours it keeps hearing, if the pools are  *)
(* large enough and an edge may live for two timer delays.                  *)
(***************************************************************************)
EXTENDS DiscoveryProofs

-----------------------------------------------------------------------------
(* Nobody learns of a node too far away.                                    *)

(* A report goes no farther than K-1 hops from its mote.                    *)
LEMMA SerializeHops ==
    ASSUME NEW n, NEW E, NEW P \in serialize(n, E), NEW p \in P
    PROVE  /\ K \in Nat \ {0}
           /\ p.src \in WithinHops(E, n, K-1)[K-1]
           /\ \A e \in p.drains : e.dst \in WithinHops(E, n, K-1)[K-1]
<1> DEFINE W == WithinHops(E, n, K-1)
<1>1. K \in Nat \ {0}
  BY ReportAssumption DEF serialize
<1>2. W[0] = {n} /\ \A h \in 1..K-1 : W[h] = W[h-1] \cup Adjacent(E, W[h-1])
  BY <1>1, WithinHopsValues
<1>3. n \in W[K-1]
  BY <1>1, <1>2, HopsGrow
<1>4. CASE K = 1
  <2>1. p = [src |-> n, drains |-> {}]
    BY <1>4 DEF serialize
  <2>2. p.src = n /\ p.drains = {}
    BY <2>1
  <2>3. QED  BY <1>1, <1>3, <2>2
<1>5. CASE K # 1
  <2> DEFINE sources == Sources(n, E, W)
             pack == [x \in sources |-> Packings(Packable(n, E, W, x),
                                                 get_outgoing_edges(E, x))]
  <2>1. PICK f \in [sources -> UNION {pack[x] : x \in sources}] :
            /\ \A x \in sources : f[x] \in pack[x]
            /\ P = UNION {{[src |-> x, drains |-> c] : c \in f[x]} : x \in sources}
    BY <1>1, <1>5 DEF serialize
  <2>2. PICK x \in sources : \E c \in f[x] : p = [src |-> x, drains |-> c]
    BY <2>1
  <2>3. PICK c \in f[x] : p = [src |-> x, drains |-> c]
    BY <2>2
  <2>4. f[x] \in Packings(Packable(n, E, W, x), get_outgoing_edges(E, x))
    BY <2>1
  <2>5. c \subseteq Packable(n, E, W, x)
    BY <2>4 DEF Packings
  <2> HIDE DEF W
  <2>6. x \in W[K-1]
    BY <1>3 DEF Sources
  <2>7. K-1 \in 1..K-1 /\ (K-1)-1 = K-2 /\ K-1 # 0
    BY <1>1, <1>5
  <2>8. W[K-1] = W[K-2] \cup Adjacent(E, W[K-2])
    BY <1>2, <2>7
  <2>9. AtHop(W, K-1) = W[K-1] \ W[K-2] /\ AtHop(W, K-2) \subseteq W[K-2]
    BY <2>7 DEF AtHop
  <2>10. ASSUME NEW e \in c PROVE e.dst \in W[K-1]
    <3>1. e \in E /\ e.src = x
      BY <2>5 DEF Packable, get_outgoing_edges
    <3>2. CASE x \in AtHop(W, K-1)
      <4>1. e.dst = n \/ e.dst \in AtHop(W, K-2)
        BY <2>5, <3>2 DEF Packable
      <4>2. QED  BY <1>3, <2>8, <2>9, <4>1
    <3>3. CASE x \notin AtHop(W, K-1)
      <4>1. x \in W[K-2]
        BY <2>6, <2>9, <3>3
      <4>2. e.dst \in Adjacent(E, W[K-2])
        BY <3>1, <4>1 DEF Adjacent
      <4>3. QED  BY <2>8, <4>2
    <3>4. QED  BY <3>2, <3>3
  <2>11. p.src = x /\ p.drains = c
    BY <2>3
  <2>12. QED  BY <1>1, <2>6, <2>10, <2>11 DEF W
<1>6. QED  BY <1>4, <1>5

(* What is stored and what is reported are links of the network.            *)
KnownLinks ==
    /\ \A n \in Node : \A e \in edges[n] : LinkOf(e) \in Link
    /\ \A m \in air : \A e \in m.drains : LinkOf(e) \in Link

(* KHopBound, and the same of what is on its way to a mote.                 *)
HopIInv ==
    /\ KnownLinks
    /\ KHopBound
    /\ \A m \in air :
          {m.src} \cup {e.dst : e \in m.drains} \subseteq Neighbourhood[m.to][K]

(* Every edge that is left after a wake-up was there before.                *)
LEMMA WakeEdges ==
    ASSUME IInv, NEW n \in Node, Wake(n), NEW g \in edges'[n]
    PROVE  \E e \in edges[n] : SameEdge(e, g) /\ LinkOf(e) = LinkOf(g)
<1>1. CASE NO_PURGE
  BY <1>1 DEF Wake, SameEdge
<1>2. CASE ~NO_PURGE
  BY <1>2, WakePurge
<1>3. QED  BY <1>1, <1>2

(* A step makes no edge up.                                                 *)
LEMMA KnownLinksNext ==
    ASSUME IInv, IInv', KnownLinks, [Next]_vars
    PROVE  KnownLinks'
<1>1. ASSUME NEW n \in Node, Wake(n) PROVE KnownLinks'
  <2>1. \A g \in edges'[n] : LinkOf(g) \in Link
    BY <1>1, WakeEdges DEF KnownLinks
  <2>2. \A k \in Node \ {n} : edges'[k] = edges[k]
    BY <1>1, WakeGraph
  <2>3. \A m \in air' \ air : m.drains \subseteq edges'[n]
    BY <1>1, WakePackets
  <2>4. QED  BY <2>1, <2>2, <2>3 DEF KnownLinks
<1>2. ASSUME NEW m \in air, Receive(m) PROVE KnownLinks'
  <2>1. ASSUME NEW g \in edges'[m.to] PROVE LinkOf(g) \in Link
    <3>1. \/ g \in edges[m.to] \/ g \in m.drains
          \/ g = [src |-> m.from, dst |-> m.to, ttl |-> TTL]
      BY <1>2, <2>1, ReceiveGraph
    <3>2. CASE g = [src |-> m.from, dst |-> m.to, ttl |-> TTL]
      BY <3>2 DEF LinkOf, IInv, PacketsOnLinks
    <3>3. QED  BY <1>2, <3>1, <3>2, ReceiveGraph DEF KnownLinks
  <2>2. \A k \in Node \ {m.to} : edges'[k] = edges[k]
    BY <1>2, ReceiveGraph
  <2>3. air' \subseteq air
    BY <1>2 DEF Receive
  <2>4. QED  BY <2>1, <2>2, <2>3 DEF KnownLinks
<1>3. ASSUME NEW n \in Mortal, Crash(n) PROVE KnownLinks'
  BY <1>3 DEF Crash, KnownLinks, IInv
<1>4. QED
  BY <1>1, <1>2, <1>3 DEF Next, Lose, Boot, Tick, vars, KnownLinks

(* A packet that is sent is one of the report, to a mote in range.          *)
LEMMA WakeReports ==
    ASSUME NEW n \in Node, Wake(n), NEW m \in air' \ air
    PROVE  /\ m.from = n /\ m.to \in InRange(n)
           /\ \E P \in serialize(n, edges'[n]) : \E p \in P :
                 m.src = p.src /\ m.drains = p.drains
<1>1. PICK P \in serialize(n, edges'[n]) :
          air' = air \cup {[from |-> n, to |-> r, src |-> p.src, drains |-> p.drains] :
                              p \in P, r \in InRange(n)}
  BY DEF Wake, p_broadcast_send
<1>2. PICK p \in P, r \in InRange(n) :
          m = [from |-> n, to |-> r, src |-> p.src, drains |-> p.drains]
  BY <1>1
<1>3. m.from = n /\ m.to = r /\ m.src = p.src /\ m.drains = p.drains
  BY <1>2
<1>4. QED  BY <1>3

(* What n reports lies within K hops of every mote in range: its report     *)
(* goes K-1 hops, over links of the network, and n itself is one hop away.  *)
LEMMA ReportedHops ==
    ASSUME IInv, KnownLinks, NEW n \in Node, Wake(n), NEW m \in air' \ air
    PROVE  {m.src} \cup {e.dst : e \in m.drains} \subseteq Neighbourhood[m.to][K]
<1>1. m.from = n /\ m.to \in InRange(n)
  BY WakeReports
<1>2. PICK P \in serialize(n, edges'[n]) : \E p \in P :
                 m.src = p.src /\ m.drains = p.drains
  BY WakeReports
<1>3. PICK p \in P : m.src = p.src /\ m.drains = p.drains
  BY <1>2
<1> DEFINE V == WithinHops(edges'[n], n, K-1)
           W == WithinHops(Link, m.to, K)
<1>4. /\ K \in Nat \ {0} /\ K-1 \in Nat
      /\ p.src \in V[K-1] /\ \A e \in p.drains : e.dst \in V[K-1]
  BY SerializeHops
<1>5. m.to \in Node /\ [src |-> n, dst |-> m.to] \in Link
  BY <1>1 DEF InRange
<1>6. n \in W[1]
  <2>1. W[0] = {m.to} /\ W[1] = W[0] \cup Adjacent(Link, W[0])
    BY <1>4, WithinHopsValues
  <2> HIDE DEF W
  <2>2. n \in Adjacent(Link, {m.to})
    <3> DEFINE l == [src |-> n, dst |-> m.to]
    <3>1. l \in Link /\ l.dst \in {m.to} /\ l.src = n
      BY <1>5
    <3>2. QED  BY <3>1 DEF Adjacent
  <2>3. QED  BY <2>1, <2>2
<1>7. ASSUME NEW g \in edges'[n] PROVE \E l \in Link : SameEdge(g, l)
  <2>1. LinkOf(g) \in Link
    BY WakeEdges DEF KnownLinks
  <2>2. SameEdge(g, LinkOf(g))
    BY DEF SameEdge, LinkOf
  <2>3. QED  BY <2>1, <2>2
<1>8. V[K-1] \subseteq W[(K-1)+1]
  <2>1. (K-1) + 1 <= K /\ K-1 \in 0..K-1 /\ 1 \in Nat /\ K \in Nat
    BY <1>4
  <2>2. \A h \in 0..K-1 : V[h] \subseteq W[h+1]
    BY <1>4, <1>6, <1>7, <2>1, HopsFollow
  <2>3. QED  BY <2>1, <2>2
<1>9. W[(K-1)+1] = Neighbourhood[m.to][K]
  <2>1. (K-1)+1 = K
    BY <1>4
  <2>2. QED  BY <1>5, <2>1 DEF Neighbourhood
<1> HIDE DEF V, W
<1>10. QED  BY <1>3, <1>4, <1>8, <1>9

(* A mote is among the nodes within its K hops.                             *)
LEMMA HopsSelf ==
    ASSUME NEW n \in Node
    PROVE  n \in Neighbourhood[n][K]
<1>1. WithinHops(Link, n, K)[0] = {n}
  BY ReportAssumption, WithinHopsValues
<1>2. 0 \in 0..K /\ K \in 0..K
  BY ReportAssumption
<1>3. WithinHops(Link, n, K)[0] \subseteq WithinHops(Link, n, K)[K]
  BY <1>2, ReportAssumption, HopsGrow
<1>4. QED  BY <1>1, <1>3 DEF Neighbourhood

(* Every step keeps the motes within K hops, and the packets.               *)
LEMMA HopNext ==
    ASSUME IInv, IInv', HopIInv, [Next]_vars
    PROVE  HopIInv'
<1>1. KnownLinks'
  BY KnownLinksNext DEF HopIInv
<1>2. ASSUME NEW n \in Node, Wake(n) PROVE HopIInv'
  <2>1. \A k \in Node : nodes'[k] \subseteq nodes[k]
    BY <1>2, WakeGraph
  <2>2. \A m \in air' \ air :
           {m.src} \cup {e.dst : e \in m.drains} \subseteq Neighbourhood[m.to][K]
    BY <1>2, ReportedHops DEF HopIInv
  <2>3. QED  BY <1>1, <2>1, <2>2 DEF HopIInv, KHopBound
<1>3. ASSUME NEW m \in air, Receive(m) PROVE HopIInv'
  <2>1. air' \subseteq air
    BY <1>3 DEF Receive
  <2>2. m.to \in Node /\ \A k \in Node \ {m.to} : nodes'[k] = nodes[k]
    BY <1>3, ReceiveGraph
  <2>3. nodes'[m.to] \subseteq nodes[m.to] \cup {m.src} \cup {e.dst : e \in m.drains}
    BY <1>3, ReceiveGraph
  <2>4. nodes'[m.to] \subseteq Neighbourhood[m.to][K]
    BY <1>3, <2>2, <2>3 DEF HopIInv, KHopBound
  <2>5. QED  BY <1>1, <2>1, <2>2, <2>4 DEF HopIInv, KHopBound
<1>4. ASSUME NEW n \in Mortal, Crash(n) PROVE HopIInv'
  <2>1. air' \subseteq air /\ \A k \in Node : nodes'[k] \subseteq nodes[k]
    BY <1>4 DEF Crash, IInv
  <2>2. QED  BY <1>1, <2>1 DEF HopIInv, KHopBound
<1>5. ASSUME NEW n \in Late, Boot(n) PROVE HopIInv'
  <2>1. air' = air /\ n \in Node /\ nodes' = [nodes EXCEPT ![n] = {n}]
    BY <1>5, FaultAssumption DEF Boot
  <2>2. \A k \in Node : nodes'[k] = nodes[k] \/ nodes'[k] = {k}
    BY <2>1 DEF IInv
  <2>3. QED  BY <1>1, <2>1, <2>2, HopsSelf DEF HopIInv, KHopBound
<1>6. ASSUME NEW m \in air, Lose(m) PROVE HopIInv'
  BY <1>1, <1>6 DEF Lose, HopIInv, KHopBound
<1>7. ASSUME Tick PROVE HopIInv'
  BY <1>1, <1>7 DEF Tick, HopIInv, KHopBound
<1>8. CASE UNCHANGED vars
  BY <1>1, <1>8 DEF vars, HopIInv, KHopBound
<1>9. QED  BY <1>2, <1>3, <1>4, <1>5, <1>6, <1>7, <1>8 DEF Next

(* The invariant holds in every reachable state.                            *)
THEOREM HopsHold == Spec => []HopIInv
<1>1. Init => HopIInv
  <2> SUFFICES ASSUME Init PROVE HopIInv
    OBVIOUS
  <2>1. \A n \in Node : nodes[n] \subseteq {n} /\ edges[n] = {}
    BY DEF Init
  <2>2. air = {}
    BY DEF Init
  <2>3. QED  BY <2>1, <2>2, HopsSelf DEF HopIInv, KHopBound, KnownLinks
<1>2. IInv /\ IInv' /\ HopIInv /\ [Next]_vars => HopIInv'
  BY HopNext
<1>3. QED  BY <1>1, <1>2, Invariance, PTL DEF Spec

(* No mote ever knows a node more than K hops away, whatever is lost, fails *)
(* or is never purged: a change of the network farther away costs a mote    *)
(* neither memory nor packets.                                              *)
THEOREM KHopsOnly == Spec => []KHopBound
<1>1. HopIInv => KHopBound
  BY DEF HopIInv
<1>2. QED  BY <1>1, HopsHold, PTL

-----------------------------------------------------------------------------
(* Nobody forgets a neighbour that keeps reporting.                         *)

(* The pools are dimensioned for the neighbourhood of every mote.           *)
NearLinks(n) ==
    {l \in Link : l.src \in Neighbourhood[n][K] /\ l.dst \in Neighbourhood[n][K]}

PoolsSuffice ==
    \A n \in Node : /\ Cardinality(Neighbourhood[n][K]) <= MAX_NODES
                    /\ Cardinality(NearLinks(n)) <= MAX_EDGES

(* The link over which a packet travels.                                    *)
Over(m) == [src |-> m.from, dst |-> m.to]

(* The mote at the end of l has the edge, with a lifetime that fell by no   *)
(* more than the seconds and the delay of one timer.                        *)
Kept(l, seconds) ==
    \E e \in edges[l.dst] :
        LinkOf(e) = l /\ e.ttl - elapsed[l.dst] + seconds + MaxDelay >= TTL

KeptNext(l, seconds) ==
    \E e \in edges'[l.dst] :
        LinkOf(e) = l /\ e.ttl - elapsed'[l.dst] + seconds + MaxDelay >= TTL

(* The packet that names the sender itself is on its way.                   *)
Announced(l) == \E m \in air : Over(m) = l /\ m.src = m.from

(* Whatever came over a link, or is still to come, the edge is stored or    *)
(* the packet with which it can be stored is in flight.                     *)
LinkKept(l) ==
    /\ up[l.dst] /\ age[l] <= MaxDelay => Kept(l, age[l]) \/ Announced(l)
    /\ (\E m \in air : Over(m) = l) => Kept(l, 0) \/ Announced(l)
    /\ ~up[l.dst] => age[l] = AgeCap

KeptIInv == \A l \in Link : l.dst \notin Mortal => LinkKept(l)

(* Every report has a packet about the mote itself.                         *)
LEMMA SerializeOwn ==
    ASSUME NEW n, NEW E, NEW P \in serialize(n, E), K # 0
    PROVE  \E p \in P : p.src = n
<1>1. CASE K = 1
  <2>1. [src |-> n, drains |-> {}] \in P
    BY <1>1 DEF serialize
  <2>2. [src |-> n, drains |-> {}].src = n
    OBVIOUS
  <2>3. QED  BY <2>1, <2>2
<1>2. CASE K # 1
  <2> DEFINE W == WithinHops(E, n, K-1)
             sources == Sources(n, E, W)
             pack == [x \in sources |-> Packings(Packable(n, E, W, x),
                                                 get_outgoing_edges(E, x))]
  <2>1. PICK f \in [sources -> UNION {pack[x] : x \in sources}] :
            /\ \A x \in sources : f[x] \in pack[x]
            /\ P = UNION {{[src |-> x, drains |-> c] : c \in f[x]} : x \in sources}
    BY <1>2 DEF serialize
  <2>2. n \in sources
    BY DEF Sources
  <2>3. f[n] \in Packings(Packable(n, E, W, n), get_outgoing_edges(E, n))
    BY <2>1, <2>2
  <2>4. PICK c \in f[n] : TRUE
    BY <2>3 DEF Packings
  <2>5. [src |-> n, drains |-> c] \in P
    BY <2>1, <2>2, <2>4
  <2>6. QED  BY <2>5
<1>3. QED  BY <1>1, <1>2

(* There are finitely many links.                                           *)
LEMMA FiniteLinks == IsFiniteSet(Link)
<1> DEFINE P == Node \X Node
           R == [src : Node, dst : Node]
           f == [p \in P |-> [src |-> p[1], dst |-> p[2]]]
<1>1. IsFiniteSet(P)
  BY FS_Product, NodeAssumption
<1>2. \A l \in R : <<l.src, l.dst>> \in P /\ f[<<l.src, l.dst>>] = l
  OBVIOUS
<1>3. f \in [P -> R]
  OBVIOUS
<1>4. f \in Surjection(P, R)
  BY <1>2, <1>3 DEF Surjection
<1>5. IsFiniteSet(R)
  BY <1>1, <1>4, FS_Surjection
<1>6. QED  BY <1>5, FS_Subset, LinkAssumption

(* A neighbourhood consists of motes, of finitely many.                     *)
LEMMA FiniteNeighbourhood ==
    ASSUME NEW n \in Node
    PROVE  IsFiniteSet(Neighbourhood[n][K])
<1> DEFINE W == WithinHops(Link, n, K)
           S == {h \in 0..K : W[h] \subseteq Node}
<1>1. W[0] = {n} /\ \A h \in 1..K : W[h] = W[h-1] \cup Adjacent(Link, W[h-1])
  BY ReportAssumption, WithinHopsValues
<1>2. ASSUME NEW T PROVE Adjacent(Link, T) \subseteq Node
  BY LinkAssumption DEF Adjacent
<1>3. Neighbourhood[n][K] = W[K]
  BY DEF Neighbourhood
<1> HIDE DEF W
<1>4. 0 \in S
  BY <1>1, ReportAssumption
<1>5. ASSUME NEW h \in 0..K-1, h \in S PROVE h + 1 \in S
  <2>1. h + 1 \in 1..K /\ (h + 1) - 1 = h
    BY ReportAssumption
  <2>2. W[h+1] \subseteq Node
    BY <1>1, <1>2, <1>5, <2>1
  <2>3. QED  BY <2>1, <2>2
<1>6. 0..K \subseteq S
  <2> HIDE DEF S
  <2>1. QED  BY <1>4, <1>5, ReportAssumption, UpTo
<1>7. W[K] \in SUBSET Node
  BY <1>6, ReportAssumption
<1>8. QED  BY <1>3, <1>7, FiniteNodes

(* If one link of the neighbourhood is not stored, there is room for it.    *)
LEMMA RoomForLink ==
    ASSUME IInv, HopIInv, PoolsSuffice, NEW n \in Node, NEW l \in NearLinks(n),
           \A e \in edges[n] : LinkOf(e) # l
    PROVE  Cardinality(edges[n]) < MAX_EDGES
<1> DEFINE L == NearLinks(n)
           f == [e \in edges[n] |-> LinkOf(e)]
<1>1. IsFiniteSet(L) /\ IsFiniteSet(L \ {l})
  BY FiniteLinks, FS_Subset DEF NearLinks
<1>2. ASSUME NEW e \in edges[n] PROVE LinkOf(e) \in L \ {l}
  <2>1. {e.src, e.dst} \subseteq nodes[n]
    BY DEF IInv, MoteOK, Endpoints
  <2>2. nodes[n] \subseteq Neighbourhood[n][K]
    BY DEF HopIInv, KHopBound
  <2>3. LinkOf(e) \in Link /\ LinkOf(e).src = e.src /\ LinkOf(e).dst = e.dst
    BY DEF HopIInv, KnownLinks, LinkOf
  <2>4. LinkOf(e) \in L
    BY <2>1, <2>2, <2>3 DEF NearLinks
  <2>5. QED  BY <2>4
<1>3. ASSUME NEW d \in edges[n], NEW e \in edges[n], LinkOf(d) = LinkOf(e)
      PROVE  d = e
  <2>1. SameEdge(d, e)
    BY <1>3 DEF LinkOf, SameEdge
  <2>2. QED  BY <2>1 DEF IInv, MoteOK, Single
<1>4. f \in Injection(edges[n], L \ {l})
  <2> HIDE DEF L
  <2>1. f \in [edges[n] -> L \ {l}]
    BY <1>2
  <2>2. \A d, e \in edges[n] : f[d] = f[e] => d = e
    BY <1>3
  <2>3. QED  BY <2>1, <2>2 DEF Injection, IsInjective
<1>5. Cardinality(edges[n]) <= Cardinality(L \ {l})
  BY <1>1, <1>4, FS_Injection
<1>6. Cardinality(L \ {l}) = Cardinality(L) - 1 /\ Cardinality(L) \in Nat
  BY <1>1, FS_RemoveElement, FS_CardinalityType
<1>7. Cardinality(L) <= MAX_EDGES
  BY DEF PoolsSuffice
<1>8. Cardinality(edges[n]) \in Nat
  BY FiniteEdges, FS_CardinalityType DEF IInv
<1>9. QED  BY <1>5, <1>6, <1>7, <1>8, CapacityAssumption

(* The edge over which a packet comes is stored with a full lifetime, if it *)
(* is known already or the packet names the sender.                         *)
LEMMA ReceiveStores ==
    ASSUME IInv, HopIInv, PoolsSuffice, NEW m \in air, Receive(m),
           m.src = m.from \/ \E e \in edges[m.to] : LinkOf(e) = Over(m)
    PROVE  \E f \in edges'[m.to] : LinkOf(f) = Over(m) /\ f.ttl >= TTL
<1> DEFINE n == m.to
           edge == [src |-> m.from, dst |-> n, ttl |-> TTL]
<1>1. PICK N1 \in add_nodes(nodes[n], {m.src}) :
          \E E \in add_edges(N1, edges[n], {edge}) :
             \A e \in E : \E f \in find_edge(edges'[n], e) : f.ttl >= e.ttl
  BY ReceiveGraph
<1>2. PICK E1 \in add_edges(N1, edges[n], {edge}) :
             \A e \in E1 : \E f \in find_edge(edges'[n], e) : f.ttl >= e.ttl
  BY <1>1
<1>3. /\ n \in Node /\ Over(m) \in Link /\ n \in nodes[n]
      /\ nodes[n] \in SUBSET Node /\ edges[n] \in SUBSET EdgeRecord
      /\ Cardinality(nodes[n]) <= MAX_NODES /\ m.src \in Node
  BY DEF IInv, MoteOK, PacketsOnLinks, Packet, Over
<1>4. edge.src = m.from /\ edge.dst = n /\ edge.ttl = TTL /\ LinkOf(edge) = Over(m)
  BY DEF LinkOf, Over
<1> HIDE DEF edge
<1>5. IsFiniteSet(edges[n]) /\ \A e \in edges[n] : e.ttl <= edge.ttl
  BY <1>3, <1>4, FiniteEdges, Constants DEF EdgeRecord
<1>6. edge \in E1
  <2>1. CASE \E e \in edges[n] : LinkOf(e) = Over(m)
    <3>1. find_edge(edges[n], edge) # {}
      BY <1>4, <2>1 DEF find_edge, SameEdge, LinkOf, Over
    <3>2. QED  BY <1>2, <1>5, <3>1, AddEdgeStored
  <2>2. CASE ~\E e \in edges[n] : LinkOf(e) = Over(m)
    <3>1. m.src = m.from
      BY <2>2
    <3>2. /\ nodes[n] \subseteq Neighbourhood[n][K]
          /\ m.src \in Neighbourhood[n][K]
      BY <1>3 DEF HopIInv, KHopBound
    <3>3. IsFiniteSet(nodes[n]) /\ IsFiniteSet({m.src})
      BY <1>3, FiniteNodes, FS_Singleton
    <3>4. Cardinality(nodes[n] \cup {m.src}) <= MAX_NODES
      <4>1. nodes[n] \cup {m.src} \in SUBSET Node
        BY <1>3
      <4>2. IsFiniteSet(Neighbourhood[n][K])
        BY <1>3, FiniteNeighbourhood
      <4>3. /\ Cardinality(nodes[n] \cup {m.src}) <= Cardinality(Neighbourhood[n][K])
            /\ IsFiniteSet(nodes[n] \cup {m.src})
        BY <3>2, <4>2, FS_Subset
      <4>4. Cardinality(Neighbourhood[n][K]) <= MAX_NODES
        BY <1>3 DEF PoolsSuffice
      <4>5. /\ Cardinality(nodes[n] \cup {m.src}) \in Nat
            /\ Cardinality(Neighbourhood[n][K]) \in Nat
        BY <4>2, <4>3, FS_CardinalityType
      <4>6. QED  BY <4>3, <4>4, <4>5, CapacityAssumption
    <3>5. m.src \in N1
      BY <1>1, <3>3, <3>4, AddNodeStored
    <3>6. n \in N1
      BY <1>1, <1>3, <3>3, AddNodes
    <3>7. Over(m) \in NearLinks(n)
      BY <1>3, <3>1, <3>2 DEF NearLinks, Over
    <3>8. Cardinality(edges[n]) < MAX_EDGES
      BY <1>3, <2>2, <3>7, RoomForLink
    <3>9. QED  BY <1>2, <1>4, <1>5, <3>1, <3>5, <3>6, <3>8, AddEdgeStored
  <2>3. QED  BY <2>1, <2>2
<1>7. PICK f \in find_edge(edges'[n], edge) : f.ttl >= edge.ttl
  BY <1>2, <1>6
<1>8. f \in edges'[n] /\ LinkOf(f) = Over(m) /\ f.ttl >= TTL
  BY <1>4, <1>7 DEF find_edge, SameEdge, LinkOf
<1>9. QED  BY <1>8

(* What a mote has stored with time left survives its purge with the same   *)
(* time left.                                                               *)
LEMMA WakeKeeps ==
    ASSUME IInv, NEW n \in Node, Wake(n), NEW e \in edges[n], e.ttl > elapsed[n]
    PROVE  \E f \in edges'[n] : /\ LinkOf(f) = LinkOf(e)
                               /\ f.ttl - elapsed'[n] >= e.ttl - elapsed[n]
<1>1. /\ elapsed'[n] = 0 /\ elapsed[n] \in Nat /\ e.ttl \in Nat
      /\ edges[n] \in SUBSET EdgeRecord
  BY Constants DEF Wake, IInv, EdgeRecord
<1>2. CASE NO_PURGE
  <2>1. e \in edges'[n]
    BY <1>2 DEF Wake
  <2>2. QED  BY <1>1, <2>1
<1>3. CASE ~NO_PURGE
  <2> DEFINE f == [src |-> e.src, dst |-> e.dst, ttl |-> e.ttl - elapsed[n]]
  <2>1. edges'[n] = purge_edges(edges[n], elapsed[n])
    BY <1>3, WakePurge
  <2>2. e \notin Expired(edges[n], elapsed[n])
    BY <1>1 DEF Expired
  <2>3. f \in edges'[n]
    BY <2>1, <2>2 DEF purge_edges
  <2>4. LinkOf(f) = LinkOf(e) /\ f.ttl - elapsed'[n] >= e.ttl - elapsed[n]
    BY <1>1 DEF LinkOf
  <2>5. QED  BY <2>3, <2>4
<1>4. QED  BY <1>2, <1>3

(* A link stays kept through every step that lets no time pass and does not *)
(* end the mote at its end.                                                 *)
LEMMA KeptStep ==
    ASSUME IInv, IInv', NEW l \in Link, l.dst \notin Mortal, TTL > 2 * MaxDelay,
           NEW seconds \in 0..MaxDelay, Kept(l, seconds), [Next]_vars, ~Tick
    PROVE  KeptNext(l, seconds)
<1>1. /\ l.dst \in Node /\ edges[l.dst] \in SUBSET EdgeRecord
      /\ elapsed[l.dst] \in Nat
  BY LinkAssumption, Constants DEF IInv
<1>2. PICK e \in edges[l.dst] :
          LinkOf(e) = l /\ e.ttl - elapsed[l.dst] + seconds + MaxDelay >= TTL
  BY DEF Kept
<1>3. e.ttl \in Nat /\ seconds \in Nat /\ seconds <= MaxDelay
  BY <1>1, Constants DEF EdgeRecord
<1>4. CASE edges'[l.dst] = edges[l.dst] /\ elapsed'[l.dst] = elapsed[l.dst]
  BY <1>2, <1>4 DEF KeptNext
<1>5. ASSUME NEW n \in Node, Wake(n) PROVE KeptNext(l, seconds)
  <2>1. CASE l.dst = n
    <3>1. e.ttl > elapsed[n]
      BY <1>1, <1>2, <1>3, <2>1, Constants
    <3>2. PICK f \in edges'[n] : /\ LinkOf(f) = LinkOf(e)
                                 /\ f.ttl - elapsed'[n] >= e.ttl - elapsed[n]
      BY <1>2, <1>5, <2>1, <3>1, WakeKeeps
    <3>3. f.ttl \in Nat /\ elapsed'[n] \in Nat
      BY Constants DEF IInv, EdgeRecord
    <3>4. LinkOf(f) = l /\ f.ttl - elapsed'[n] + seconds + MaxDelay >= TTL
      BY <1>1, <1>2, <1>3, <2>1, <3>2, <3>3, Constants
    <3>5. QED  BY <2>1, <3>4 DEF KeptNext
  <2>2. CASE l.dst # n
    <3>1. edges'[l.dst] = edges[l.dst] /\ elapsed'[l.dst] = elapsed[l.dst]
      BY <1>1, <1>5, <2>2, WakeGraph DEF Wake, IInv
    <3>2. QED  BY <1>4, <3>1
  <2>3. QED  BY <2>1, <2>2
<1>6. ASSUME NEW m \in air, Receive(m) PROVE KeptNext(l, seconds)
  <2>1. elapsed' = elapsed
    BY <1>6 DEF Receive
  <2>2. CASE l.dst = m.to
    <3>1. PICK f \in find_edge(edges'[m.to], e) : f.ttl >= e.ttl
      BY <1>2, <1>6, <2>2, ReceiveGraph
    <3>2. f \in edges'[l.dst] /\ LinkOf(f) = l
      BY <1>2, <2>2, <3>1 DEF find_edge, SameEdge, LinkOf
    <3>3. f.ttl \in Nat
      BY <1>1, <3>2, Constants DEF IInv, EdgeRecord
    <3>4. f.ttl - elapsed'[l.dst] + seconds + MaxDelay >= TTL
      BY <1>1, <1>2, <1>3, <2>1, <3>1, <3>3, Constants
    <3>5. QED  BY <3>2, <3>4 DEF KeptNext
  <2>3. CASE l.dst # m.to
    BY <1>1, <1>4, <1>6, <2>1, <2>3, ReceiveGraph
  <2>4. QED  BY <2>2, <2>3
<1>7. ASSUME NEW n \in Mortal, Crash(n) PROVE KeptNext(l, seconds)
  <2>1. edges'[l.dst] = edges[l.dst] /\ elapsed'[l.dst] = elapsed[l.dst]
    BY <1>1, <1>7 DEF Crash, IInv
  <2>2. QED  BY <1>4, <2>1
<1>8. QED
  BY <1>4, <1>5, <1>6, <1>7 DEF Next, Lose, Boot, vars

(* Every step keeps the links.                                              *)
LEMMA LinkKeptNext ==
    ASSUME IInv, IInv', HopIInv, KeptIInv, [Next]_vars,
           ~Lossy, PoolsSuffice, TTL > 2 * MaxDelay,
           NEW l \in Link, l.dst \notin Mortal
    PROVE  /\ up'[l.dst] /\ age'[l] <= MaxDelay => KeptNext(l, age'[l]) \/ Announced(l)'
           /\ (\E m \in air' : Over(m) = l) => KeptNext(l, 0) \/ Announced(l)'
           /\ ~up'[l.dst] => age'[l] = AgeCap
<1> DEFINE New ==
           /\ up'[l.dst] /\ age'[l] <= MaxDelay => KeptNext(l, age'[l]) \/ Announced(l)'
           /\ (\E m \in air' : Over(m) = l) => KeptNext(l, 0) \/ Announced(l)'
           /\ ~up'[l.dst] => age'[l] = AgeCap
<1>1. /\ l.dst \in Node /\ l.src \in Node /\ LinkKept(l)
      /\ age[l] \in Nat /\ age[l] <= AgeCap
      /\ elapsed[l.dst] \in Nat /\ elapsed[l.dst] <= MaxDelay
  BY LinkAssumption, Constants DEF IInv, KeptIInv
<1>2. /\ ~Tick /\ Kept(l, 0) => KeptNext(l, 0)
      /\ ~Tick /\ Kept(l, age[l]) /\ age[l] <= MaxDelay => KeptNext(l, age[l])
  <2>1. 0 \in 0..MaxDelay /\ (age[l] <= MaxDelay => age[l] \in 0..MaxDelay)
    BY <1>1, Constants
  <2>2. QED  BY <2>1, KeptStep
<1>3. ASSUME NEW n \in Node, Wake(n) PROVE New
  <2>1. up' = up /\ age' = age /\ air \subseteq air' /\ ~Tick
    <3>1. elapsed'[n] = 0 /\ up[n] /\ elapsed[n] \in Nat
      BY <1>3, Constants DEF Wake, IInv
    <3>2. Tick => elapsed'[n] = elapsed[n] + 1
      BY <3>1 DEF Tick
    <3>3. ~Tick
      BY <3>1, <3>2
    <3>4. QED  BY <1>3, <3>3 DEF Wake
  <2>2. Announced(l) => Announced(l)'
    BY <2>1 DEF Announced
  <2>3. ASSUME NEW m \in air', m \notin air, Over(m) = l PROVE Announced(l)'
    <3>1. m.from = n /\ m.to \in InRange(n)
      BY <1>3, <2>3, WakeReports
    <3>2. PICK P \in serialize(n, edges'[n]) :
             air' = air \cup {[from |-> n, to |-> r, src |-> p.src, drains |-> p.drains] :
                                 p \in P, r \in InRange(n)}
      BY <1>3 DEF Wake, p_broadcast_send
    <3>3. P # {}
      BY <2>3, <3>2
    <3>4. K # 0
      BY <3>3 DEF serialize
    <3>5. PICK p \in P : p.src = n
      BY <3>4, SerializeOwn
    <3> DEFINE q == [from |-> n, to |-> m.to, src |-> p.src, drains |-> p.drains]
    <3>6. q \in air' /\ Over(q) = Over(m) /\ q.src = q.from
      BY <3>1, <3>2, <3>5 DEF Over
    <3>7. QED  BY <2>3, <3>6 DEF Announced
  <2>4. QED  BY <1>1, <1>2, <2>1, <2>2, <2>3 DEF LinkKept
<1>4. ASSUME NEW m \in air, Receive(m) PROVE New
  <2>1. /\ up' = up /\ elapsed' = elapsed /\ air' = air \ {m} /\ ~Tick
        /\ age' = [age EXCEPT ![Over(m)] = 0] /\ Over(m) \in Link /\ up[m.to]
    BY <1>4 DEF Receive, Over, Tick, IInv, PacketsOnLinks
  <2>2. CASE Over(m) # l
    <3>1. age'[l] = age[l]
      BY <2>1, <2>2 DEF IInv
    <3>2. Announced(l) => Announced(l)'
      BY <2>1, <2>2 DEF Announced
    <3>3. QED  BY <1>1, <1>2, <2>1, <3>1, <3>2 DEF LinkKept
  <2>3. CASE Over(m) = l
    <3>1. age'[l] = 0 /\ l.dst = m.to
      BY <2>1, <2>3 DEF IInv, Over
    <3>2. CASE m.src = m.from \/ Kept(l, 0)
      <4>1. m.src = m.from \/ \E e \in edges[m.to] : LinkOf(e) = Over(m)
        BY <2>3, <3>1, <3>2 DEF Kept
      <4>2. PICK f \in edges'[m.to] : LinkOf(f) = Over(m) /\ f.ttl >= TTL
        BY <1>4, <4>1, ReceiveStores
      <4>3. f.ttl \in Nat
        BY <1>1, <3>1, <4>2, Constants DEF IInv, EdgeRecord
      <4>4. KeptNext(l, 0)
        BY <1>1, <2>1, <2>3, <3>1, <4>2, <4>3, Constants DEF KeptNext
      <4>5. QED  BY <2>1, <3>1, <4>4
    <3>3. CASE ~(m.src = m.from \/ Kept(l, 0))
      <4>1. Announced(l)
        BY <1>1, <2>3, <3>3 DEF LinkKept
      <4>2. PICK p \in air : Over(p) = l /\ p.src = p.from
        BY <4>1 DEF Announced
      <4>3. p \in air'
        BY <2>1, <3>3, <4>2
      <4>4. Announced(l)'
        BY <4>2, <4>3 DEF Announced
      <4>5. QED  BY <2>1, <3>1, <4>4
    <3>4. QED  BY <3>2, <3>3
  <2>4. QED  BY <2>2, <2>3
<1>5. ASSUME NEW n \in Mortal, Crash(n) PROVE New
  <2>1. /\ n # l.dst /\ age' = age /\ air' = {m \in air : m.to # n}
        /\ up'[l.dst] = up[l.dst] /\ elapsed'[l.dst] = elapsed[l.dst]
        /\ edges'[l.dst] = edges[l.dst]
    BY <1>1, <1>5 DEF Crash, IInv
  <2>2. Announced(l) => Announced(l)'
    BY <2>1 DEF Announced, Over
  <2>3. Kept(l, 0) => KeptNext(l, 0)
    BY <2>1 DEF Kept, KeptNext
  <2>4. Kept(l, age[l]) => KeptNext(l, age[l])
    BY <2>1 DEF Kept, KeptNext
  <2>5. QED  BY <1>1, <2>1, <2>2, <2>3, <2>4 DEF LinkKept
<1>6. ASSUME NEW n \in Late, Boot(n) PROVE New
  <2>1. edges' = edges /\ elapsed' = elapsed /\ age' = age /\ air' = air
    BY <1>6 DEF Boot
  <2>2. \A k \in Node : up'[k] = up[k] \/ (~up[k] /\ up'[k])
    BY <1>6 DEF Boot, IInv
  <2>3. MaxDelay < AgeCap
    BY Constants DEF AgeCap
  <2>4. QED
    BY <1>1, <2>1, <2>2, <2>3, Constants DEF LinkKept, Kept, KeptNext, Announced
<1>7. ASSUME Tick PROVE New
  <2>1. air = {} /\ air' = {} /\ edges' = edges /\ up' = up
    BY <1>7 DEF Tick
  <2>2. age'[l] = (IF age[l] < AgeCap THEN age[l] + 1 ELSE AgeCap)
    BY <1>7 DEF Tick
  <2>3. ASSUME up[l.dst], age'[l] <= MaxDelay PROVE KeptNext(l, age'[l])
    <3>1. elapsed'[l.dst] = elapsed[l.dst] + 1
      BY <1>1, <1>7, <2>3 DEF Tick
    <3>2. MaxDelay < AgeCap
      BY Constants DEF AgeCap
    <3>3. age'[l] = age[l] + 1 /\ age[l] <= MaxDelay
      BY <1>1, <2>2, <2>3, <3>2, Constants
    <3>4. Kept(l, age[l])
      BY <1>1, <2>1, <2>3, <3>3 DEF LinkKept, Announced
    <3>5. PICK e \in edges[l.dst] :
              LinkOf(e) = l /\ e.ttl - elapsed[l.dst] + age[l] + MaxDelay >= TTL
      BY <3>4 DEF Kept
    <3>6. e.ttl \in Nat
      BY <1>1, <3>5, Constants DEF IInv, EdgeRecord
    <3>7. e.ttl - elapsed'[l.dst] + age'[l] + MaxDelay >= TTL
      BY <1>1, <3>1, <3>3, <3>5, <3>6, Constants
    <3>8. QED  BY <2>1, <3>5, <3>7 DEF KeptNext
  <2>4. ~up[l.dst] => age'[l] = AgeCap
    BY <1>1, <2>2 DEF LinkKept
  <2>5. QED  BY <2>1, <2>3, <2>4
<1>8. CASE UNCHANGED vars
  BY <1>1, <1>8 DEF vars, LinkKept, Kept, KeptNext, Announced
<1>9. ASSUME NEW m \in air, Lose(m) PROVE FALSE
  BY <1>9 DEF Lose
<1>10. QED  BY <1>3, <1>4, <1>5, <1>6, <1>7, <1>8, <1>9 DEF Next

(* A mote that does not fail never loses a neighbour whose packets keep     *)
(* coming, if no packet is lost on the air, the pools have room for the     *)
(* neighbourhood and an edge may live for two timer delays.                 *)
THEOREM NeighboursKept ==
    ASSUME ~Lossy, PoolsSuffice, TTL > 2 * MaxDelay
    PROVE  Spec => []NeighbourKept
<1>1. Init => KeptIInv
  <2> SUFFICES ASSUME Init PROVE KeptIInv
    OBVIOUS
  <2>1. air = {} /\ \A l \in Link : age[l] = AgeCap
    BY DEF Init
  <2>2. MaxDelay < AgeCap
    BY Constants DEF AgeCap
  <2>3. QED  BY <2>1, <2>2, Constants DEF KeptIInv, LinkKept
<1>2. IInv /\ IInv' /\ HopIInv /\ KeptIInv /\ [Next]_vars => KeptIInv'
  BY LinkKeptNext DEF KeptIInv, LinkKept, Kept, KeptNext
<1>3. KeptIInv => NeighbourKept
  <2> SUFFICES ASSUME KeptIInv, NEW l \in Link, up[l.dst], l.dst \notin Mortal,
                      age[l] <= MaxDelay, \A m \in air : ~(m.from = l.src /\ m.to = l.dst)
               PROVE  \E e \in edges[l.dst] : LinkOf(e) = l
    BY DEF NeighbourKept
  <2>1. ~Announced(l)
    BY DEF Announced, Over
  <2>2. QED  BY <2>1 DEF KeptIInv, LinkKept, Kept
<1>4. Spec => []HopIInv
  BY HopsHold
<1>5. QED  BY <1>1, <1>2, <1>3, <1>4, Invariance, PTL DEF Spec
=============================================================================
