--------------------------- MODULE MoteViewProofs ---------------------------
(***************************************************************************)
(* The loops of a mote implement LocalView, as long as no allocation fails  *)
(* and the clock does not wrap completely between two purges.               *)
(***************************************************************************)
EXTENDS MoteProofs

HIDE DEF Memory!Used, Memory!At

(* What a graph that can be stored looks like.                              *)
Fits(N, E) ==
    /\ N \subseteq Address /\ IsFiniteSet(N) /\ Cardinality(N) <= MAX_NODES
    /\ E \subseteq Link /\ IsFiniteSet(E) /\ Cardinality(E) <= MAX_EDGES /\ Single(E)

LEMMA PoolsFit == ASSUME PoolIInv PROVE Fits(Nodes, Edges)
<1>1. /\ node_memory \in NodePool /\ Nodes = Memory!Entries(node_memory)
      /\ edge_memory \in EdgePool /\ Edges = Memory!Entries(edge_memory)
  BY DEF PoolIInv, Nodes, Edges
<1>2. Single(Edges)
  BY <1>1 DEF EdgePool, Single, Memory!Entries
<1>3. /\ Nodes \subseteq Address /\ IsFiniteSet(Nodes)
      /\ Cardinality(Nodes) = node_memory.count /\ node_memory.count \in 0..MAX_NODES
      /\ MAX_NODES \in Nat
  BY <1>1, NodePoolFacts
<1>4. /\ Edges \subseteq Link /\ IsFiniteSet(Edges)
      /\ Cardinality(Edges) = edge_memory.count /\ edge_memory.count \in 0..MAX_EDGES
      /\ MAX_EDGES \in Nat
  BY <1>1, EdgePoolFacts
<1>5. QED  BY <1>2, <1>3, <1>4 DEF Fits

LEMMA AddNodesFit ==
    ASSUME NEW N, NEW E, Fits(N, E), NEW new \in SUBSET Address, IsFiniteSet(new),
           NEW M \in add_nodes(N, new)
    PROVE  Fits(M, E)
<1>1. M \subseteq N \cup new /\ Cardinality(M) <= MAX_NODES
  BY AddNodes DEF Fits
<1>2. IsFiniteSet(N \cup new)
  BY FS_Union DEF Fits
<1>3. IsFiniteSet(M)
  BY <1>1, <1>2, FS_Subset
<1>4. QED  BY <1>1, <1>3 DEF Fits

LEMMA AddEdgesFit ==
    ASSUME NEW N, NEW E, Fits(N, E), NEW new \in SUBSET Link, IsFiniteSet(new), Single(new),
           NEW F \in add_edges(N, E, new)
    PROVE  Fits(N, F)
<1>1. \A e \in E \cup new : e.ttl \in Nat
  BY DEF Fits, Link
<1>2. Single(F) /\ F \subseteq E \cup new /\ Cardinality(F) <= MAX_EDGES
  BY <1>1, AddEdges, AddEdgesCapacity DEF Fits
<1>3. IsFiniteSet(E \cup new)
  BY FS_Union DEF Fits
<1>4. IsFiniteSet(F)
  BY <1>2, <1>3, FS_Subset
<1>5. QED  BY <1>2, <1>4 DEF Fits

-----------------------------------------------------------------------------
(* deserialize()                                                            *)

(* The edge from the sender, and the drains that come first.                *)
HeardLink(m) == [src |-> m.from, dst |-> self, ttl |-> TTL]
FirstNodes(m, n) == {m.drains[k].dst : k \in 1..n}
FirstDrains(m, n) == {m.drains[k] : k \in 1..n}

(* Call n of add_node() and add_edge().                                     *)
CallAt(m, n) ==
    LET L == Len(m.drains)
    IN  IF n = 1 THEN [node |-> m.src]
        ELSE IF n = 2 THEN [edge |-> HeardLink(m)]
        ELSE IF n <= L + 2 THEN [node |-> m.drains[n-2].dst]
        ELSE [edge |-> m.drains[n-2-L]]

(* What n calls make of the nodes N0 and the edges E0.                      *)
Merged(m, n, N0, E0, N, E) ==
    IF n = 0 THEN N = N0 /\ E = E0
    ELSE \E N1 \in add_nodes(N0, {m.src}) :
            IF n = 1 THEN N = N1 /\ E = E0
            ELSE \E E1 \in add_edges(N1, E0, {HeardLink(m)}) :
                    IF n <= Len(m.drains) + 2
                    THEN N \in add_nodes(N1, FirstNodes(m, n-2)) /\ E = E1
                    ELSE /\ N \in add_nodes(N1, FirstNodes(m, Len(m.drains)))
                         /\ E \in add_edges(N, E1, FirstDrains(m, n-2-Len(m.drains)))

LEMMA PacketFacts ==
    ASSUME NEW m \in Incoming
    PROVE  /\ m.src \in Address /\ HeardLink(m) \in Link
           /\ Len(m.drains) \in Nat /\ DOMAIN m.drains = 1..Len(m.drains)
           /\ \A k \in 1..Len(m.drains) : m.drains[k] \in Link /\ m.drains[k].dst \in Address
           /\ \A j, k \in 1..Len(m.drains) : SameEdge(m.drains[j], m.drains[k]) => j = k
<1>1. m.src \in Address /\ m.from \in Address /\ self \in Address
  BY DEF Address
<1>2. HeardLink(m) \in Link
  BY <1>1, MoteAssumption DEF HeardLink, Link
<1>3. /\ m.drains \in Seq(Link)
      /\ \A j, k \in DOMAIN m.drains : m.drains[j].dst = m.drains[k].dst => j = k
  BY IncomingAssumption
<1>4. /\ Len(m.drains) \in Nat /\ DOMAIN m.drains = 1..Len(m.drains)
      /\ \A k \in 1..Len(m.drains) : m.drains[k] \in Link
  BY <1>3
<1>5. QED  BY <1>1, <1>2, <1>3, <1>4 DEF SameEdge, Link

LEMMA FirstFacts ==
    ASSUME NEW m \in Incoming, NEW n \in 0..Len(m.drains)
    PROVE  /\ FirstNodes(m, n) \in SUBSET Address /\ IsFiniteSet(FirstNodes(m, n))
           /\ FirstDrains(m, n) \in SUBSET Link /\ IsFiniteSet(FirstDrains(m, n))
           /\ Single(FirstDrains(m, n))
           /\ n < Len(m.drains) =>
                 /\ FirstNodes(m, n+1) = FirstNodes(m, n) \cup {m.drains[n+1].dst}
                 /\ FirstDrains(m, n+1) = FirstDrains(m, n) \cup {m.drains[n+1]}
                 /\ m.drains[n+1] \notin FirstDrains(m, n)
           /\ FirstNodes(m, 0) = {} /\ FirstDrains(m, 0) = {}
<1>1. /\ Len(m.drains) \in Nat
      /\ \A k \in 1..Len(m.drains) : m.drains[k] \in Link /\ m.drains[k].dst \in Address
      /\ \A j, k \in 1..Len(m.drains) : SameEdge(m.drains[j], m.drains[k]) => j = k
  BY PacketFacts
<1>2. n \in Nat /\ n <= Len(m.drains) /\ \A k \in 1..n : k \in 1..Len(m.drains)
  BY <1>1
<1>3. FirstNodes(m, n) \in SUBSET Address /\ FirstDrains(m, n) \in SUBSET Link
  BY <1>1, <1>2 DEF FirstNodes, FirstDrains
<1>4. Single(FirstDrains(m, n))
  BY <1>1, <1>2 DEF FirstDrains, Single
<1>5. IsFiniteSet(1..n)
  BY <1>2, FS_Interval
<1>6. IsFiniteSet(FirstNodes(m, n))
  <2> DEFINE f == [k \in 1..n |-> m.drains[k].dst]
  <2>1. f \in Surjection(1..n, FirstNodes(m, n))
    BY DEF FirstNodes, Surjection
  <2>2. QED  BY <1>5, <2>1, FS_Surjection
<1>7. IsFiniteSet(FirstDrains(m, n))
  <2> DEFINE f == [k \in 1..n |-> m.drains[k]]
  <2>1. f \in Surjection(1..n, FirstDrains(m, n))
    BY DEF FirstDrains, Surjection
  <2>2. QED  BY <1>5, <2>1, FS_Surjection
<1>8. ASSUME n < Len(m.drains)
      PROVE  /\ FirstNodes(m, n+1) = FirstNodes(m, n) \cup {m.drains[n+1].dst}
             /\ FirstDrains(m, n+1) = FirstDrains(m, n) \cup {m.drains[n+1]}
             /\ m.drains[n+1] \notin FirstDrains(m, n)
  <2>1. 1..n+1 = 1..n \cup {n+1} /\ n+1 \in 1..Len(m.drains) /\ n+1 \notin 1..n
    BY <1>1, <1>2, <1>8
  <2>2. \A k \in 1..n : m.drains[k] # m.drains[n+1]
    BY <1>1, <1>2, <2>1 DEF SameEdge
  <2>3. QED  BY <2>1, <2>2 DEF FirstNodes, FirstDrains
<1>9. FirstNodes(m, 0) = {} /\ FirstDrains(m, 0) = {}
  BY DEF FirstNodes, FirstDrains
<1>10. QED  BY <1>3, <1>4, <1>6, <1>7, <1>8, <1>9

(* add_node() and add_edge() of one entry.                                  *)
StoredNode(N, x) == IF x \in N \/ Cardinality(N) < MAX_NODES THEN N \cup {x} ELSE N

StoredEdge(N, E, e) ==
    IF find_edge(E, e) # {}
    THEN IF \E f \in find_edge(E, e) : f.ttl > e.ttl THEN E
         ELSE (E \ find_edge(E, e)) \cup {e}
    ELSE IF e.src \in N /\ e.dst \in N /\ Cardinality(E) < MAX_EDGES THEN E \cup {e} ELSE E

LEMMA StoreOneMoreNode ==
    ASSUME NEW N, NEW E, Fits(N, E), NEW new \in SUBSET Address, IsFiniteSet(new),
           NEW M \in add_nodes(N, new), NEW x
    PROVE  StoredNode(M, x) \in add_nodes(N, new \cup {x})
BY AddOneMoreNode DEF Fits, StoredNode

LEMMA StoreOneMoreEdge ==
    ASSUME NEW N, NEW M, NEW E, Fits(M, E), NEW new \in SUBSET Link, IsFiniteSet(new),
           NEW F \in add_edges(N, E, new), NEW e \in Link, e \notin new, Single(new \cup {e})
    PROVE  StoredEdge(N, F, e) \in add_edges(N, E, new \cup {e})
<1>1. e.ttl \in Nat /\ \A f \in E : f.ttl \in Nat
  BY DEF Fits, Link
<1> DEFINE G == StoredEdge(N, F, e)
<1>2. G = IF find_edge(F, e) # {}
          THEN IF \E f \in find_edge(F, e) : f.ttl > e.ttl THEN F
               ELSE (F \ find_edge(F, e)) \cup {e}
          ELSE IF e.src \in N /\ e.dst \in N /\ Cardinality(F) < MAX_EDGES
          THEN F \cup {e} ELSE F
  BY DEF StoredEdge
<1> HIDE DEF G
<1>3. G \in add_edges(N, E, new \cup {e})
  BY <1>1, <1>2, AddOneMoreEdge DEF Fits
<1>4. QED  BY <1>3 DEF G

(* The first two calls.                                                     *)
LEMMA FirstCallsFit ==
    ASSUME NEW m \in Incoming, NEW N0, NEW E0, Fits(N0, E0),
           NEW N1 \in add_nodes(N0, {m.src})
    PROVE  /\ Fits(N1, E0)
           /\ \A E1 \in add_edges(N1, E0, {HeardLink(m)}) : Fits(N1, E1)
<1> DEFINE node == {m.src}
           link == {HeardLink(m)}
<1>1. /\ node \in SUBSET Address /\ IsFiniteSet(node)
      /\ link \in SUBSET Link /\ IsFiniteSet(link) /\ Single(link)
  BY PacketFacts, FS_Singleton DEF Single
<1>2. N1 \in add_nodes(N0, node)
  OBVIOUS
<1> HIDE DEF node, link
<1>3. Fits(N1, E0)
  BY <1>1, <1>2, AddNodesFit
<1>4. \A E1 \in add_edges(N1, E0, link) : Fits(N1, E1)
  BY <1>1, <1>3, AddEdgesFit
<1>5. QED  BY <1>3, <1>4 DEF link

(* One call more.                                                           *)
LEMMA MergedNext ==
    ASSUME NEW m \in Incoming, NEW N0, NEW E0, Fits(N0, E0),
           NEW n \in 0 .. Len(m.drains) + Len(m.drains) + 1, NEW N, NEW E,
           Merged(m, n, N0, E0, N, E)
    PROVE  LET call == CallAt(m, n+1)
           IN  /\ "node" \in DOMAIN call => Merged(m, n+1, N0, E0, StoredNode(N, call.node), E)
               /\ "edge" \in DOMAIN call => Merged(m, n+1, N0, E0, N, StoredEdge(N, E, call.edge))
<1> DEFINE L == Len(m.drains)
           call == CallAt(m, n+1)
           link == HeardLink(m)
<1>1. /\ L \in Nat /\ n \in Nat /\ n <= L + L + 1 /\ n + 1 # 0
      /\ m.src \in Address /\ link \in Link
      /\ \A k \in 1..L : m.drains[k] \in Link
  BY PacketFacts
<1>2. ASSUME NEW N1 \in add_nodes(N0, {m.src})
      PROVE  Fits(N1, E0)
  BY FirstCallsFit
<1>3. ASSUME NEW N1 \in add_nodes(N0, {m.src}), NEW E1 \in add_edges(N1, E0, {link})
      PROVE  Fits(N1, E1)
  BY FirstCallsFit
<1> HIDE DEF L, link
<1>4. CASE n = 0
  <2>1. call = [node |-> m.src]
    BY <1>4 DEF CallAt
  <2>2. N = N0 /\ E = E0
    BY <1>4 DEF Merged
  <2>3. N0 \in add_nodes(N0, {}) /\ {} \in SUBSET Address /\ IsFiniteSet({})
    BY AddNoNodes, FS_EmptySet DEF Fits
  <2>4. StoredNode(N0, m.src) \in add_nodes(N0, {} \cup {m.src})
    BY <2>3, StoreOneMoreNode
  <2>5. StoredNode(N0, m.src) \in add_nodes(N0, {m.src})
    <3>1. {} \cup {m.src} = {m.src}
      OBVIOUS
    <3>2. QED  BY <2>4, <3>1
  <2>6. Merged(m, n+1, N0, E0, StoredNode(N0, m.src), E0)
    BY <1>4, <2>5 DEF Merged
  <2>7. QED  BY <2>1, <2>2, <2>6
<1>5. CASE n = 1
  <2>1. call = [edge |-> link] /\ n + 1 = 2 /\ n # 0
    BY <1>5 DEF CallAt, link
  <2>2. N \in add_nodes(N0, {m.src}) /\ E = E0
    <3>1. \E N1 \in add_nodes(N0, {m.src}) : IF n = 1 THEN N = N1 /\ E = E0 ELSE TRUE
      BY <2>1 DEF Merged
    <3>2. QED  BY <1>5, <3>1
  <2>3. Fits(N, E0)
    BY <1>2, <2>2
  <2>4. E0 \in add_edges(N, E0, {}) /\ {} \in SUBSET Link /\ IsFiniteSet({})
    BY <2>3, AddNoEdges, FS_EmptySet DEF Fits
  <2>5. link \notin {} /\ {} \cup {link} = {link} /\ Single({link})
    BY DEF Single
  <2>6. StoredEdge(N, E0, link) \in add_edges(N, E0, {} \cup {link})
    BY <1>1, <2>3, <2>4, <2>5, StoreOneMoreEdge
  <2>7. N \in add_nodes(N, FirstNodes(m, 0))
    <3>1. 0 \in 0..Len(m.drains)
      BY <1>1 DEF L
    <3>2. FirstNodes(m, 0) = {}
      BY <3>1, FirstFacts
    <3>3. QED  BY <2>3, <3>2, AddNoNodes DEF Fits
  <2>8. Merged(m, 2, N0, E0, N, StoredEdge(N, E0, link))
    <3>1. 2 <= Len(m.drains) + 2 /\ 2 - 2 = 0 /\ 2 # 0 /\ 2 # 1
      BY <1>1 DEF L
    <3>2. StoredEdge(N, E0, link) \in add_edges(N, E0, {HeardLink(m)})
      BY <2>5, <2>6 DEF link
    <3>3. QED  BY <2>2, <2>7, <3>1, <3>2 DEF Merged
  <2>9. QED  BY <2>1, <2>2, <2>8
<1>6. CASE 1 < n /\ n < L + 2
  <2>1. /\ n-2 \in 0..L /\ n-2 < L /\ (n-2)+1 = (n+1)-2 /\ n <= L + 2 /\ n + 1 <= L + 2
        /\ n # 0 /\ n # 1 /\ n+1 # 0 /\ n+1 # 1 /\ n+1 # 2
    BY <1>1, <1>6
  <2> DEFINE x == m.drains[(n-2)+1].dst
  <2>2. call = [node |-> x]
    BY <2>1 DEF CallAt, L
  <2>3. PICK N1 \in add_nodes(N0, {m.src}) :
             \E E1 \in add_edges(N1, E0, {link}) :
                N \in add_nodes(N1, FirstNodes(m, n-2)) /\ E = E1
    BY <2>1 DEF Merged, L, link
  <2>4. N \in add_nodes(N1, FirstNodes(m, n-2)) /\ E \in add_edges(N1, E0, {link})
    BY <2>3
  <2>5. /\ FirstNodes(m, n-2) \in SUBSET Address /\ IsFiniteSet(FirstNodes(m, n-2))
        /\ FirstNodes(m, (n-2)+1) = FirstNodes(m, n-2) \cup {x}
    BY <2>1, FirstFacts DEF L
  <2> HIDE DEF x
  <2>6. StoredNode(N, x) \in add_nodes(N1, FirstNodes(m, n-2) \cup {x})
    BY <1>3, <2>4, <2>5, StoreOneMoreNode
  <2>7. StoredNode(N, x) \in add_nodes(N1, FirstNodes(m, (n+1)-2))
    BY <2>1, <2>5, <2>6
  <2>8. Merged(m, n+1, N0, E0, StoredNode(N, x), E)
    BY <2>1, <2>4, <2>7 DEF Merged, L, link
  <2>9. QED  BY <2>2, <2>8
<1>7. CASE n >= L + 2
  <2> DEFINE j == n-2-L
             d == m.drains[j+1]
  <2>1. /\ j \in 0..L /\ j < L /\ j+1 = (n+1)-2-L /\ j+1 \in 1..L
        /\ n # 0 /\ n # 1 /\ n+1 # 0 /\ n+1 # 1 /\ n+1 # 2 /\ ~(n+1 <= L + 2)
        /\ n <= L + 2 => n = L + 2 /\ n-2 = L /\ j = 0
    BY <1>1, <1>7
  <2>2. call = [edge |-> d]
    BY <2>1 DEF CallAt, L
  <2>3. PICK N1 \in add_nodes(N0, {m.src}) :
             \E E1 \in add_edges(N1, E0, {link}) :
                IF n <= L + 2
                THEN N \in add_nodes(N1, FirstNodes(m, n-2)) /\ E = E1
                ELSE /\ N \in add_nodes(N1, FirstNodes(m, L))
                     /\ E \in add_edges(N, E1, FirstDrains(m, j))
    BY <2>1 DEF Merged, L, link
  <2>4. PICK E1 \in add_edges(N1, E0, {link}) :
             IF n <= L + 2
             THEN N \in add_nodes(N1, FirstNodes(m, n-2)) /\ E = E1
             ELSE N \in add_nodes(N1, FirstNodes(m, L)) /\ E \in add_edges(N, E1, FirstDrains(m, j))
    BY <2>3
  <2>5. /\ FirstDrains(m, j) \in SUBSET Link /\ IsFiniteSet(FirstDrains(m, j))
        /\ FirstDrains(m, j+1) = FirstDrains(m, j) \cup {d} /\ d \notin FirstDrains(m, j)
        /\ FirstDrains(m, 0) = {}
    BY <2>1, FirstFacts DEF L
  <2>6. Single(FirstDrains(m, j+1))
    <3>1. j+1 \in 0..L
      BY <2>1
    <3>2. QED  BY <3>1, FirstFacts DEF L
  <2>7. Fits(N1, E1)
    BY <1>3, <2>4
  <2>8. N \in add_nodes(N1, FirstNodes(m, L)) /\ E \in add_edges(N, E1, FirstDrains(m, j))
    <3>1. CASE n <= L + 2
      <4>1. E1 \in add_edges(N, E1, {})
        BY <2>7, AddNoEdges DEF Fits
      <4>2. QED  BY <2>1, <2>4, <2>5, <3>1, <4>1
    <3>2. QED  BY <2>4, <3>1
  <2>9. d \in Link
    BY <1>1, <2>1 DEF L
  <2> HIDE DEF d
  <2>10. StoredEdge(N, E, d) \in add_edges(N, E1, FirstDrains(m, j) \cup {d})
    <3>1. Single(FirstDrains(m, j) \cup {d})
      BY <2>5, <2>6
    <3> DEFINE new == FirstDrains(m, j)
    <3>2. new \in SUBSET Link /\ IsFiniteSet(new) /\ E \in add_edges(N, E1, new) /\ d \notin new
      BY <2>5, <2>8
    <3> HIDE DEF new, j
    <3>3. StoredEdge(N, E, d) \in add_edges(N, E1, new \cup {d})
      BY <2>7, <2>9, <3>1, <3>2, StoreOneMoreEdge DEF new
    <3>4. QED  BY <3>3 DEF new
  <2>11. StoredEdge(N, E, d) \in add_edges(N, E1, FirstDrains(m, (n+1)-2-L))
    BY <2>1, <2>5, <2>10
  <2>12. Merged(m, n+1, N0, E0, N, StoredEdge(N, E, d))
    BY <2>1, <2>4, <2>8, <2>11 DEF Merged, L, link
  <2>13. QED  BY <2>2, <2>12
<1>8. QED  BY <1>1, <1>4, <1>5, <1>6, <1>7

(* One sequence behind the other.                                           *)
LEMMA Behind ==
    ASSUME NEW X, NEW s \in Seq(X), NEW t \in Seq(X)
    PROVE  /\ s \o t \in Seq(X) /\ Len(s \o t) = Len(s) + Len(t)
           /\ \A k \in 1..Len(s)+Len(t) :
                 (s \o t)[k] = IF k <= Len(s) THEN s[k] ELSE t[k-Len(s)]
OBVIOUS

LEMMA CallsMade ==
    ASSUME NEW m \in Incoming, Receive(m)
    PROVE  /\ Len(todo') = Len(m.drains) + Len(m.drains) + 2
           /\ \A k \in 1..Len(todo') : todo'[k] = CallAt(m, k)
<1> DEFINE L == Len(m.drains)
           first == << [node |-> m.src], [edge |-> HeardLink(m)] >>
           nodes == [k \in 1..L |-> [node |-> m.drains[k].dst]]
           links == [k \in 1..L |-> [edge |-> m.drains[k]]]
           Some == {first[1], first[2]} \cup {nodes[k] : k \in 1..L} \cup {links[k] : k \in 1..L}
<1>1. L \in Nat /\ DOMAIN m.drains = 1..L
  BY PacketFacts
<1> HIDE DEF L
<1>2. todo' = first \o nodes \o links
  BY <1>1 DEF Receive, HeardLink
<1>3. first \in Seq(Some) /\ Len(first) = 2
  OBVIOUS
<1>4. nodes \in Seq(Some) /\ Len(nodes) = L /\ links \in Seq(Some) /\ Len(links) = L
  <2>1. nodes \in [1..L -> Some] /\ links \in [1..L -> Some]
    OBVIOUS
  <2> HIDE DEF nodes, links, Some
  <2>2. QED  BY <1>1, <2>1
<1>5. /\ \A k \in 1..L : nodes[k] = [node |-> m.drains[k].dst]
      /\ \A k \in 1..L : links[k] = [edge |-> m.drains[k]]
      /\ first[1] = [node |-> m.src] /\ first[2] = [edge |-> HeardLink(m)]
  OBVIOUS
<1> HIDE DEF first, nodes, links, Some
<1>6. /\ first \o nodes \in Seq(Some) /\ Len(first \o nodes) = L + 2
      /\ \A k \in 1..L+2 :
            (first \o nodes)[k] = IF k <= 2 THEN first[k] ELSE nodes[k-2]
  <2>1. /\ first \o nodes \in Seq(Some)
        /\ Len(first \o nodes) = Len(first) + Len(nodes)
        /\ \A k \in 1..Len(first)+Len(nodes) :
              (first \o nodes)[k] = IF k <= Len(first) THEN first[k] ELSE nodes[k-Len(first)]
    BY <1>3, <1>4, Behind
  <2>2. Len(first) + Len(nodes) = L + 2
    BY <1>1, <1>3, <1>4
  <2>3. QED  BY <1>3, <2>1, <2>2
<1> DEFINE head == first \o nodes
<1> HIDE DEF head
<1>7. /\ Len(head \o links) = L + L + 2
      /\ \A k \in 1..L+L+2 :
            (head \o links)[k] = IF k <= L+2 THEN head[k] ELSE links[k-2-L]
  <2>1. head \in Seq(Some) /\ Len(head) = L + 2
    BY <1>6 DEF head
  <2>2. /\ Len(head \o links) = Len(head) + Len(links)
        /\ \A k \in 1..Len(head)+Len(links) :
              (head \o links)[k] = IF k <= Len(head) THEN head[k] ELSE links[k-Len(head)]
    BY <1>4, <2>1, Behind
  <2>3. Len(head) + Len(links) = L+L+2 /\ \A k \in 1..L+L+2 : k - Len(head) = k-2-L
    BY <1>1, <1>4, <2>1
  <2>4. QED  BY <2>1, <2>2, <2>3
<1>8. ASSUME NEW k \in 1..L+L+2 PROVE (head \o links)[k] = CallAt(m, k)
  <2>1. /\ k <= 2 => k \in {1, 2}
        /\ k <= L+2 => k \in 1..L+2
        /\ k > 2 /\ k <= L+2 => k-2 \in 1..L
        /\ ~(k <= L+2) => k-2-L \in 1..L /\ k # 1 /\ k # 2
        /\ k <= 2 \/ (k > 2 /\ k <= L+2) \/ ~(k <= L+2)
    BY <1>1
  <2>2. CASE k <= 2
    BY <1>1, <1>5, <1>6, <1>7, <2>1, <2>2 DEF CallAt, L, head
  <2>3. CASE k > 2 /\ k <= L+2
    <3>1. (head \o links)[k] = nodes[k-2]
      BY <1>6, <1>7, <2>1, <2>3 DEF head
    <3>2. QED  BY <1>5, <2>1, <2>3, <3>1 DEF CallAt, L
  <2>4. CASE ~(k <= L+2)
    <3>1. (head \o links)[k] = links[k-2-L]
      BY <1>7, <2>4
    <3>2. QED  BY <1>5, <2>1, <2>4, <3>1 DEF CallAt, L
  <2>5. QED  BY <2>1, <2>2, <2>3, <2>4
<1>9. QED  BY <1>2, <1>7, <1>8 DEF head, L

-----------------------------------------------------------------------------
(* The operators of LocalView are those of this module.                     *)
LEMMA ViewCardinality == ASSUME NEW S PROVE View!Cardinality(S) = Cardinality(S)
BY DEF View!Cardinality, Cardinality, View!IsFiniteSet, IsFiniteSet

LEMMA ViewAdds ==
    ASSUME NEW N, NEW E, NEW new
    PROVE  /\ View!add_nodes(N, new) = add_nodes(N, new)
           /\ View!add_edges(N, E, new) = add_edges(N, E, new)
BY DEF View!add_nodes, add_nodes, View!add_edges, add_edges, View!Fitting, Fitting,
       View!find_edge, find_edge, View!SameEdge, SameEdge,
       View!Cardinality, Cardinality, View!IsFiniteSet, IsFiniteSet

LEMMA ViewPurges ==
    ASSUME NEW N, NEW E, NEW d
    PROVE  /\ View!purge_nodes(N, E, self, d) = purge_nodes(N, E, self, d)
           /\ View!purge_edges(E, d) = purge_edges(E, d)
BY DEF View!purge_nodes, purge_nodes, View!purge_edges, purge_edges, View!Expired, Expired,
       View!Endpoints, Endpoints

LEMMA ViewReports == ASSUME NEW E PROVE View!serialize(self, E) = serialize(self, E)
BY DEF View!serialize, serialize, View!Sources, Sources, View!Packings, Packings,
       View!Packable, Packable, View!AtHop, AtHop, View!WithinHops, WithinHops,
       View!Adjacent, Adjacent, View!get_outgoing_edges, get_outgoing_edges,
       View!Cardinality, Cardinality, View!IsFiniteSet, IsFiniteSet

-----------------------------------------------------------------------------
(* What a loop has made of the graph it found, for every loop.              *)

(* deserialize(): n calls are made, the others are to come.                 *)
MergeIInv ==
    \E m \in Incoming : \E n \in 0 .. Len(m.drains) + Len(m.drains) + 1 :
        /\ Len(todo) = Len(m.drains) + Len(m.drains) + 2 - n
        /\ \A k \in 1..Len(todo) : todo[k] = CallAt(m, n+k)
        /\ Merged(m, n, before.nodes, before.edges, Nodes, Edges)

(* purge(): the edges before place i have been looked at, those behind it   *)
(* are as they were.                                                        *)
Done == {Memory!At(edge_memory, k) : k \in {l \in Memory!Used(edge_memory) : l < i}}
Rest == {Memory!At(edge_memory, k) : k \in {l \in Memory!Used(edge_memory) : l >= i}}

AgeIInv ==
    /\ diff \in Delays
    /\ Rest \subseteq before.edges
    /\ Done = purge_edges(before.edges \ Rest, diff)
    /\ Nodes = before.nodes \
                  ((Endpoints(Expired(before.edges, diff) \ Rest) \ Endpoints(Edges)) \ {self})

(* serialize(): the sources of which everything is sent, ...                *)
Within == WithinHops(Edges, self, K-1)

Reported ==
    IF pc \in {"pack", "edges"} /\ i = 0 THEN {}
    ELSE {self} \cup {hops[k].addr : k \in {j \in DOMAIN hops :
                         /\ pc \in {"pack", "edges"} /\ j < i /\ hops[j].hop_count <= K-1
                         /\ get_outgoing_edges(Edges, hops[j].addr) # {}}}

(* ... what is sent of x in the packets S, ...                              *)
Of(S, x) == {p.drains : p \in {q \in S : q.src = x}}

(* ... and how far the edges of the next source are cut into packets.       *)
CutSoFar(full, packing, packable, outgoing, left) ==
    /\ (UNION full) \cup packing = packable \ left
    /\ (UNION full) \cap packing = {}
    /\ \A c, d \in full : c # d => c \cap d = {}
    /\ \A c \in full : Cardinality(c) = EdgesPerPacket
    /\ Cardinality(packing) <= EdgesPerPacket
    /\ left # {} => Cardinality(packing) < EdgesPerPacket
    /\ full # {} /\ packing = {} => left # {} \/ packable # outgoing

CutIInv ==
    LET x == Source.addr
        outgoing == get_outgoing_edges(Edges, x)
    IN  /\ i \in 0..Len(hops) /\ Source.hop_count <= K-1 /\ outgoing # {}
        /\ todo \in Seq(outgoing)
        /\ \A j, k \in DOMAIN todo : todo[j] = todo[k] => j = k
        /\ CutSoFar(Of(sent, x), buffer, Packable(self, Edges, Within, x), outgoing, Elements(todo))

ReportIInv ==
    /\ K >= 2
    /\ \E d \in Delays : /\ Nodes = purge_nodes(before.nodes, before.edges, self, d)
                         /\ Edges = purge_edges(before.edges, d)
    /\ sent \subseteq [src : Reported \cup (IF pc = "edges" THEN {Source.addr} ELSE {}),
                       drains : SUBSET Edges]
    /\ \A x \in Reported : Of(sent, x) \in Packings(Packable(self, Edges, Within, x),
                                                    get_outgoing_edges(Edges, x))
    /\ IF pc = "edges" THEN CutIInv ELSE buffer = {}

Reporting == {"pack", "edges", "count", "direct", "explore", "visit"}

ViewIInv ==
    /\ IF pc \in {"idle", "sent"} THEN before = NULL
       ELSE before \in Graph /\ Fits(before.nodes, before.edges)
    /\ pc # "purge" => last_time = clock
    /\ pc \in {"idle", "receive", "purge", "sent"} => buffer = {}
    /\ pc = "receive" => MergeIInv
    /\ pc = "purge" => AgeIInv
    /\ pc \in Reporting => ReportIInv
    /\ pc \in Reporting \cup {"idle", "receive", "purge", "sent"}

(* The graph that LocalView sees, and the report.                           *)
ViewNodes == IF before = NULL THEN Nodes ELSE before.nodes
ViewEdges == IF before = NULL THEN Edges ELSE before.edges
ViewSent  == IF pc = "sent" THEN sent ELSE {}

LEMMA NotNull ==
    ASSUME NEW g \in Graph
    PROVE  g # NULL
BY NullAssumption

(* A step that LocalView does not see.                                      *)
LEMMA Stutters ==
    ASSUME before # NULL, before' = before, pc # "sent", pc' # "sent"
    PROVE  UNCHANGED <<ViewNodes, ViewEdges, ViewSent>>
BY DEF ViewNodes, ViewEdges, ViewSent

LEMMA InitView == Init => ViewIInv /\ View!Init
<1> SUFFICES ASSUME Init PROVE ViewIInv /\ View!Init
  OBVIOUS
<1>1. ViewIInv
  BY DEF Init, ViewIInv, Reporting
<1>2. Nodes = {self} /\ Edges = {}
  <2>1. /\ Memory!init_graph(MAX_NODES) \in NodePool
        /\ Memory!Entries(Memory!init_graph(MAX_NODES)) = {}
        /\ Memory!init_graph(MAX_NODES).count = 0 /\ MAX_NODES > 0
        /\ Memory!Entries(Memory!init_graph(MAX_EDGES)) = {}
    BY CapacityAssumption, InitPool DEF NodePool, Memory!Used, Memory!Entries
  <2>2. self \in Address
    BY DEF Address
  <2>3. QED  BY <2>1, <2>2, StoreNode DEF Init, Nodes, Edges
<1>3. View!Init
  BY <1>2 DEF Init, View!Init
<1>4. QED  BY <1>1, <1>3

LEMMA ReceiveView ==
    ASSUME PoolIInv, ViewIInv, NEW m \in Incoming, Receive(m)
    PROVE  ViewIInv' /\ UNCHANGED <<ViewNodes, ViewEdges, ViewSent>>
<1>1. /\ pc = "idle" /\ pc' = "receive" /\ before = NULL /\ buffer = {} /\ buffer' = {}
      /\ UNCHANGED <<clock, last_time, sent>> /\ last_time = clock
      /\ before' = [nodes |-> Nodes, edges |-> Edges]
  BY DEF Receive, ViewIInv, time
<1>2. Nodes' = Nodes /\ Edges' = Edges
  BY SameGraph DEF Receive
<1>3. before' \in Graph /\ Fits(before'.nodes, before'.edges)
  BY <1>1, PoolsFit DEF Fits, Graph
<1>4. MergeIInv'
  <2>1. /\ Len(todo') = Len(m.drains) + Len(m.drains) + 2
        /\ \A k \in 1..Len(todo') : todo'[k] = CallAt(m, k)
    BY CallsMade
  <2>2. Len(m.drains) \in Nat
    BY PacketFacts
  <2>3. /\ 0 \in 0 .. Len(m.drains) + Len(m.drains) + 1
        /\ Len(todo') = Len(m.drains) + Len(m.drains) + 2 - 0
        /\ \A k \in 1..Len(todo') : todo'[k] = CallAt(m, 0+k)
    BY <2>1, <2>2
  <2>4. Merged(m, 0, before'.nodes, before'.edges, Nodes', Edges')
    BY <1>1, <1>2 DEF Merged
  <2>5. QED  BY <2>3, <2>4 DEF MergeIInv
<1>5. ViewIInv'
  BY <1>1, <1>3, <1>4 DEF ViewIInv, Reporting
<1>6. before' # NULL
  BY <1>3, NotNull
<1>7. QED  BY <1>1, <1>5, <1>6 DEF ViewNodes, ViewEdges, ViewSent

(* One call of add_node() or add_edge(), on the graph as a value.           *)
LEMMA AddStores ==
    ASSUME PoolIInv, Add
    PROVE  /\ "node" \in DOMAIN Head(todo) =>
                Nodes' = StoredNode(Nodes, Head(todo).node) /\ Edges' = Edges
           /\ "edge" \in DOMAIN Head(todo) =>
                Nodes' = Nodes /\ Edges' = StoredEdge(Nodes, Edges, Head(todo).edge)
           /\ "node" \in DOMAIN Head(todo) \/ "edge" \in DOMAIN Head(todo)
<1>1. todo \in Seq(Call) /\ todo # <<>> /\ Head(todo) \in Call
  BY DEF PoolIInv, Add
<1>2. /\ node_memory \in NodePool /\ Cardinality(Nodes) = node_memory.count
      /\ edge_memory \in EdgePool /\ Cardinality(Edges) = edge_memory.count
  BY NodePoolFacts, EdgePoolFacts DEF PoolIInv, Nodes, Edges
<1>3. CASE "node" \in DOMAIN Head(todo)
  <2>1. Head(todo).node \in Address /\ "edge" \notin DOMAIN Head(todo)
    BY <1>1, <1>3 DEF Call
  <2>2. node_memory' = Memory!add_node(node_memory, Head(todo).node) /\ UNCHANGED edge_memory
    BY <1>3, <2>1 DEF Add
  <2>3. Nodes' = StoredNode(Nodes, Head(todo).node)
    BY <1>2, <2>1, <2>2, StoreNode DEF Nodes, StoredNode
  <2>4. Edges' = Edges
    BY <2>2 DEF Edges, Memory!Entries, Memory!At, Memory!Used
  <2>5. QED  BY <1>3, <2>1, <2>3, <2>4
<1>4. CASE "edge" \in DOMAIN Head(todo)
  <2> DEFINE e == Head(todo).edge
  <2>1. e \in Link /\ "node" \notin DOMAIN Head(todo)
    BY <1>1, <1>4 DEF Call
  <2>2. edge_memory' = Memory!add_edge(node_memory, edge_memory, e) /\ UNCHANGED node_memory
    BY <1>4, <2>1 DEF Add
  <2> HIDE DEF e
  <2>3. Edges' = StoredEdge(Nodes, Edges, e)
    BY <1>2, <2>1, <2>2, StoreEdge DEF Nodes, Edges, StoredEdge
  <2>4. Nodes' = Nodes
    BY <2>2 DEF Nodes, Memory!Entries, Memory!At, Memory!Used
  <2>5. QED  BY <1>4, <2>1, <2>3, <2>4 DEF e
<1>5. QED  BY <1>3, <1>4 DEF Add

(* The last call completes what LocalView does in one step.                 *)
LEMMA AllMerged ==
    ASSUME NEW m \in Incoming, NEW N0, NEW E0, Fits(N0, E0), NEW N, NEW E,
           Merged(m, Len(m.drains) + Len(m.drains) + 2, N0, E0, N, E)
    PROVE  \E N1 \in add_nodes(N0, {m.src}) :
           \E E1 \in add_edges(N1, E0, {HeardLink(m)}) :
              /\ N \in add_nodes(N1, {e.dst : e \in View!Drains(m)})
              /\ E \in add_edges(N, E1, View!Drains(m))
<1> DEFINE L == Len(m.drains)
<1>1. L \in Nat /\ DOMAIN m.drains = 1..L
  BY PacketFacts
<1>2. View!Drains(m) = FirstDrains(m, L) /\ {e.dst : e \in View!Drains(m)} = FirstNodes(m, L)
  BY <1>1 DEF View!Drains, FirstDrains, FirstNodes
<1> HIDE DEF L
<1>3. /\ L + L + 2 # 0 /\ L + L + 2 # 1 /\ (L + L + 2)-2-L = L /\ (L + L + 2) - 2 = L + L
      /\ L + L + 2 <= L + 2 => L = 0 /\ L + L = L
  BY <1>1
<1>4. PICK N1 \in add_nodes(N0, {m.src}) :
           \E E1 \in add_edges(N1, E0, {HeardLink(m)}) :
              IF L + L + 2 <= L + 2
              THEN N \in add_nodes(N1, FirstNodes(m, L + L)) /\ E = E1
              ELSE N \in add_nodes(N1, FirstNodes(m, L)) /\ E \in add_edges(N, E1, FirstDrains(m, L))
  BY <1>3 DEF Merged, L
<1>5. PICK E1 \in add_edges(N1, E0, {HeardLink(m)}) :
              IF L + L + 2 <= L + 2
              THEN N \in add_nodes(N1, FirstNodes(m, L + L)) /\ E = E1
              ELSE N \in add_nodes(N1, FirstNodes(m, L)) /\ E \in add_edges(N, E1, FirstDrains(m, L))
  BY <1>4
<1>6. CASE L + L + 2 <= L + 2
  <2>1. N \in add_nodes(N1, FirstNodes(m, L)) /\ E = E1 /\ L = 0 /\ L + L = L
    BY <1>3, <1>5, <1>6
  <2>2. FirstNodes(m, L) = FirstNodes(m, L + L) /\ View!Drains(m) = {}
    BY <1>2, <2>1 DEF FirstDrains
  <2>3. Fits(N1, E1)
    BY <1>5, FirstCallsFit
  <2>4. E \in add_edges(N, E1, {})
    BY <2>1, <2>3, AddNoEdges DEF Fits
  <2>5. QED  BY <1>2, <1>5, <2>1, <2>2, <2>4
<1>7. CASE ~(L + L + 2 <= L + 2)
  BY <1>2, <1>5, <1>7
<1>8. QED  BY <1>6, <1>7

LEMMA ViewReceives ==
    ASSUME NEW m, ViewSent = {}, ViewSent' = {},
           \E N1 \in add_nodes(ViewNodes, {m.src}) :
           \E E1 \in add_edges(N1, ViewEdges, {HeardLink(m)}) :
              /\ ViewNodes' \in add_nodes(N1, {e.dst : e \in View!Drains(m)})
              /\ ViewEdges' \in add_edges(ViewNodes', E1, View!Drains(m))
    PROVE  View!Receive(m)
<1>1. PICK N1 \in add_nodes(ViewNodes, {m.src}) :
      \E E1 \in add_edges(N1, ViewEdges, {HeardLink(m)}) :
         /\ ViewNodes' \in add_nodes(N1, {e.dst : e \in View!Drains(m)})
         /\ ViewEdges' \in add_edges(ViewNodes', E1, View!Drains(m))
  OBVIOUS
<1>2. PICK E1 \in add_edges(N1, ViewEdges, {HeardLink(m)}) :
         /\ ViewNodes' \in add_nodes(N1, {e.dst : e \in View!Drains(m)})
         /\ ViewEdges' \in add_edges(ViewNodes', E1, View!Drains(m))
  BY <1>1
<1>3. /\ N1 \in View!add_nodes(ViewNodes, {m.src})
      /\ E1 \in View!add_edges(N1, ViewEdges, {HeardLink(m)})
      /\ ViewNodes' \in View!add_nodes(N1, {e.dst : e \in View!Drains(m)})
      /\ ViewEdges' \in View!add_edges(ViewNodes', E1, View!Drains(m))
  BY <1>2, ViewAdds
<1>4. \E N2 \in View!add_nodes(N1, {e.dst : e \in View!Drains(m)}) :
      \E E2 \in View!add_edges(N2, E1, View!Drains(m)) :
         ViewNodes' = N2 /\ ViewEdges' = E2
  BY <1>3
<1>5. QED  BY <1>3, <1>4 DEF View!Receive, HeardLink, ViewNodes, ViewEdges, ViewSent

LEMMA NoLength ==
    ASSUME NEW X, NEW s \in Seq(X)
    PROVE  s = <<>> <=> Len(s) = 0
OBVIOUS

LEMMA AddView ==
    ASSUME PoolIInv, ViewIInv, Add
    PROVE  ViewIInv' /\ [View!Next]_<<ViewNodes, ViewEdges, ViewSent>>
<1>1. /\ pc = "receive" /\ before \in Graph /\ before # NULL /\ Fits(before.nodes, before.edges)
      /\ buffer = {} /\ buffer' = {} /\ last_time' = last_time /\ clock' = clock
      /\ last_time = clock /\ MergeIInv
  BY NotNull DEF Add, ViewIInv, time
<1>2. PICK m \in Incoming : \E n \in 0 .. Len(m.drains) + Len(m.drains) + 1 :
        /\ Len(todo) = Len(m.drains) + Len(m.drains) + 2 - n
        /\ \A k \in 1..Len(todo) : todo[k] = CallAt(m, n+k)
        /\ Merged(m, n, before.nodes, before.edges, Nodes, Edges)
  BY <1>1 DEF MergeIInv
<1> DEFINE L == Len(m.drains)
<1>3. PICK n \in 0..L+L+1 :
        /\ Len(todo) = L + L + 2 - n
        /\ \A k \in 1..Len(todo) : todo[k] = CallAt(m, n+k)
        /\ Merged(m, n, before.nodes, before.edges, Nodes, Edges)
  BY <1>2
<1>4. L \in Nat
  BY PacketFacts
<1>5. /\ todo \in Seq(Call) /\ todo # <<>> /\ todo' = Tail(todo)
      /\ Head(todo) = todo[1] /\ Len(todo) \in Nat /\ Len(todo) >= 1
      /\ Len(todo') = Len(todo) - 1 /\ todo' \in Seq(Call)
      /\ \A k \in 1..Len(todo') : todo'[k] = todo[k+1]
  BY DEF PoolIInv, Add
<1>6. todo' = <<>> <=> Len(todo') = 0
  <2>1. todo' \in Seq(Call)
    BY <1>5
  <2>2. QED  BY <2>1, NoLength
<1>7. Head(todo) = CallAt(m, n+1)
  BY <1>3, <1>4, <1>5
<1>8. Merged(m, n+1, before.nodes, before.edges, Nodes', Edges')
  <2> DEFINE call == CallAt(m, n+1)
  <2>1. /\ "node" \in DOMAIN call =>
             Merged(m, n+1, before.nodes, before.edges, StoredNode(Nodes, call.node), Edges)
        /\ "edge" \in DOMAIN call =>
             Merged(m, n+1, before.nodes, before.edges, Nodes, StoredEdge(Nodes, Edges, call.edge))
    BY <1>1, <1>3, MergedNext
  <2> HIDE DEF call
  <2>2. QED  BY <1>7, <2>1, AddStores DEF call
<1>9. CASE todo' = <<>>
  <2>1. pc' = "idle" /\ before' = NULL
    BY <1>9 DEF Add
  <2>2. ViewIInv'
    BY <1>1, <2>1 DEF ViewIInv, Reporting
  <2>3. n + 1 = L + L + 2
    BY <1>3, <1>4, <1>5, <1>6, <1>9
  <2>4. /\ ViewNodes = before.nodes /\ ViewEdges = before.edges /\ ViewSent = {}
        /\ ViewNodes' = Nodes' /\ ViewEdges' = Edges' /\ ViewSent' = {}
    BY <1>1, <2>1 DEF ViewNodes, ViewEdges, ViewSent
  <2>5. \E N1 \in add_nodes(ViewNodes, {m.src}) :
        \E E1 \in add_edges(N1, ViewEdges, {HeardLink(m)}) :
           /\ ViewNodes' \in add_nodes(N1, {e.dst : e \in View!Drains(m)})
           /\ ViewEdges' \in add_edges(ViewNodes', E1, View!Drains(m))
    BY <1>1, <1>8, <2>3, <2>4, AllMerged
  <2>6. View!Receive(m)
    BY <2>4, <2>5, ViewReceives
  <2>7. QED  BY <2>2, <2>6 DEF View!Next
<1>10. CASE todo' # <<>>
  <2>1. pc' = pc /\ before' = before
    BY <1>10 DEF Add
  <2>2. /\ n + 1 \in 0..L+L+1 /\ Len(todo') = L + L + 2 - (n+1)
        /\ \A k \in 1..Len(todo') : todo'[k] = CallAt(m, (n+1)+k)
    <3>1. Len(todo') # 0 /\ Len(todo) = L + L + 2 - n /\ n \in 0..L+L+1
      BY <1>3, <1>6, <1>10
    <3> DEFINE now == Len(todo)
               next == Len(todo')
    <3> HIDE DEF L, now, next
    <3>2. \A k \in 1..Len(todo') : k+1 \in 1..Len(todo) /\ n+(k+1) = (n+1)+k
      BY <1>3, <1>4, <1>5
    <3>3. n + 1 \in 0..L+L+1 /\ Len(todo') = L + L + 2 - (n+1)
      <4>1. /\ next # 0 /\ now = L + L + 2 - n /\ n \in 0..L+L+1 /\ L \in Nat
            /\ now \in Nat /\ next = now - 1
        BY <1>4, <1>5, <3>1 DEF now, next
      <4>2. n + 1 \in 0..L+L+1 /\ next = L + L + 2 - (n+1)
        BY <4>1
      <4>3. QED  BY <4>2 DEF next
    <3>4. \A k \in 1..Len(todo') : todo'[k] = CallAt(m, n+(k+1))
      BY <1>3, <1>5, <3>2
    <3>5. QED  BY <3>2, <3>3, <3>4 DEF L
  <2>3. MergeIInv'
    <3> DEFINE n1 == n + 1
    <3>1. /\ n1 \in 0..L+L+1 /\ Len(todo') = L + L + 2 - n1
          /\ \A k \in 1..Len(todo') : todo'[k] = CallAt(m, n1+k)
          /\ Merged(m, n1, before'.nodes, before'.edges, Nodes', Edges')
      BY <1>8, <2>1, <2>2
    <3> HIDE DEF n1
    <3>2. QED  BY <3>1 DEF MergeIInv
  <2>4. ViewIInv'
    BY <1>1, <2>1, <2>3 DEF ViewIInv, Reporting
  <2>5. UNCHANGED <<ViewNodes, ViewEdges, ViewSent>>
    BY <1>1, <2>1, Stutters
  <2>6. QED  BY <2>4, <2>5
<1>11. QED  BY <1>9, <1>10

-----------------------------------------------------------------------------
(* purge().  Although the clock is cut to sixteen bits and its difference   *)
(* as well, the seconds that passed come out.                               *)
LEMMA Division ==
    ASSUME NEW a \in Int, NEW b \in Nat \ {0}
    PROVE  a \div b \in Int /\ a % b \in 0..b-1 /\ a = b * (a \div b) + (a % b)
OBVIOUS

LEMMA OneRemainder ==
    ASSUME NEW b \in Nat \ {0}, NEW q \in Int, NEW p \in Int,
           NEW r \in 0..b-1, NEW s \in 0..b-1, b * q + r = b * p + s
    PROVE  r = s
<1>1. ASSUME NEW x \in Int, NEW y \in Int, x < y PROVE b * x + b <= b * y
  <2>1. x + 1 <= y
    BY <1>1
  <2>2. b * (x + 1) <= b * y
    BY <2>1
  <2>3. b * (x + 1) = b * x + b
    OBVIOUS
  <2>4. QED  BY <2>2, <2>3
<1>2. CASE q < p
  <2>1. b * q + b <= b * p
    BY <1>1, <1>2
  <2>2. QED  BY <2>1
<1>3. CASE p < q
  <2>1. b * p + b <= b * q
    BY <1>1, <1>3
  <2>2. QED  BY <2>1
<1>4. CASE p = q
  BY <1>4
<1>5. QED  BY <1>2, <1>3, <1>4

LEMMA Elapsed ==
    ASSUME NEW c \in Nat, NEW d \in Nat, d < UINT16
    PROVE  ((((c + d) % ULONG) % UINT16) - c) % UINT16 = d
<1> DEFINE now == (c + d) % ULONG
           this_time == now % UINT16
           a == this_time - c
           q == (c + d) \div ULONG
           p == now \div UINT16
           r == ULONG \div UINT16
           s == a \div UINT16
<1>1. UINT16 \in Nat \ {0} /\ ULONG \in Nat \ {0} /\ ULONG % UINT16 = 0
  BY MoteAssumption
<1>2. q \in Int /\ now \in Int /\ c + d = ULONG * q + now
  <2>1. c + d \in Int
    OBVIOUS
  <2> DEFINE sum == c + d
  <2> HIDE DEF sum
  <2>2. sum \div ULONG \in Int /\ sum % ULONG \in 0..ULONG-1
        /\ sum = ULONG * (sum \div ULONG) + (sum % ULONG)
    BY <1>1, <2>1, Division DEF sum
  <2>3. QED  BY <1>1, <2>2 DEF sum
<1> HIDE DEF now, q
<1>3. p \in Int /\ this_time \in Int /\ now = UINT16 * p + this_time
  BY <1>1, <1>2, Division
<1>4. r \in Int /\ ULONG = UINT16 * r
  BY <1>1, Division
<1> HIDE DEF p, this_time, r
<1>5. s \in Int /\ a \in Int /\ a % UINT16 \in 0..UINT16-1 /\ a = UINT16 * s + (a % UINT16)
  <2>1. a \in Int
    BY <1>3
  <2> HIDE DEF a
  <2>2. QED  BY <1>1, <2>1, Division
<1>6. d = UINT16 * (r * q + p) + a
  <2>1. c + d = (UINT16 * r) * q + (UINT16 * p + this_time)
    BY <1>2, <1>3, <1>4
  <2>2. (UINT16 * r) * q = UINT16 * (r * q)
    BY <1>1, <1>2, <1>4
  <2>3. UINT16 * (r * q) + UINT16 * p = UINT16 * (r * q + p)
    BY <1>1, <1>2, <1>3, <1>4
  <2>4. UINT16 * (r * q) \in Int /\ UINT16 * p \in Int /\ UINT16 * (r * q + p) \in Int
    BY <1>1, <1>2, <1>3, <1>4
  <2>5. QED  BY <1>3, <2>1, <2>2, <2>3, <2>4
<1> DEFINE rest == a % UINT16
<1> HIDE DEF a, s
<1>7. r * q + p + s \in Int /\ d = UINT16 * (r * q + p + s) + rest
  <2>1. r * q + p \in Int /\ (r * q + p) + s \in Int
    BY <1>2, <1>3, <1>4, <1>5
  <2>2. UINT16 * (r * q + p) + UINT16 * s = UINT16 * ((r * q + p) + s)
    BY <1>1, <1>5, <2>1
  <2>3. UINT16 * (r * q + p) \in Int /\ UINT16 * s \in Int
    BY <1>1, <1>5, <2>1
  <2>4. QED  BY <1>5, <1>6, <2>1, <2>2, <2>3
<1>8. 0 \in Int /\ d \in 0..UINT16-1 /\ UINT16 * 0 + d = d /\ rest \in 0..UINT16-1
  BY <1>1, <1>5
<1>9. rest = d
  <2> DEFINE k == r * q + p + s
  <2>1. k \in Int /\ UINT16 * k + rest = UINT16 * 0 + d
    BY <1>7, <1>8
  <2> HIDE DEF k, rest
  <2>2. QED  BY <1>1, <1>8, <2>1, OneRemainder
<1>10. QED  BY <1>9 DEF rest, a, this_time, now

(* The edges that have been looked at and the others.                       *)
LEMMA PlacesSplit ==
    ASSUME PoolIInv, i \in Nat
    PROVE  /\ Done \cup Rest = Edges /\ Done \cap Rest = {}
           /\ i = 0 => Done = {} /\ Rest = Edges
           /\ i >= edge_memory.count => Rest = {}
<1>1. edge_memory \in EdgePool /\ edge_memory.count \in Nat
  BY EdgePoolFacts DEF PoolIInv
<1>2. Memory!Used(edge_memory) = 0..edge_memory.count-1
  BY DEF Memory!Used
<1>3. \A k, l \in Memory!Used(edge_memory) :
         Memory!At(edge_memory, k) = Memory!At(edge_memory, l) => k = l
  BY <1>1 DEF EdgePool, SameEdge
<1>4. Edges = {Memory!At(edge_memory, k) : k \in Memory!Used(edge_memory)}
  BY DEF Edges, Memory!Entries
<1>5. Done \cup Rest = Edges
  <2>1. \A k \in Memory!Used(edge_memory) : k < i \/ k >= i
    BY <1>1, <1>2
  <2>2. QED  BY <1>4, <2>1 DEF Done, Rest
<1>6. Done \cap Rest = {}
  BY <1>1, <1>2, <1>3 DEF Done, Rest
<1>7. i = 0 => Done = {} /\ Rest = Edges
  <2>1. i = 0 => \A k \in Memory!Used(edge_memory) : ~(k < i) /\ k >= i
    BY <1>1, <1>2
  <2>2. QED  BY <1>4, <2>1 DEF Done, Rest
<1>8. i >= edge_memory.count => Rest = {}
  <2>1. i >= edge_memory.count => \A k \in Memory!Used(edge_memory) : ~(k >= i)
    BY <1>1, <1>2
  <2>2. QED  BY <2>1 DEF Rest
<1>9. QED  BY <1>5, <1>6, <1>7, <1>8

LEMMA TimerView ==
    ASSUME PoolIInv, ViewIInv, NEW d \in Delays, d < UINT16, TimerExpires(d)
    PROVE  ViewIInv' /\ UNCHANGED <<ViewNodes, ViewEdges, ViewSent>>
<1>1. /\ pc = "idle" /\ pc' = "purge" /\ before = NULL /\ buffer = {} /\ buffer' = {}
      /\ last_time' = last_time /\ last_time = clock /\ clock \in Nat /\ i' = 0
      /\ clock' = (clock + d) % ULONG
      /\ before' = [nodes |-> Nodes, edges |-> Edges]
  BY DEF TimerExpires, ViewIInv, PoolIInv
<1>2. Nodes' = Nodes /\ Edges' = Edges
  BY SameGraph DEF TimerExpires
<1>3. before' \in Graph /\ Fits(before'.nodes, before'.edges)
  BY <1>1, PoolsFit DEF Fits, Graph
<1>4. diff' = d
  <2>1. d \in Nat
    BY MoteAssumption
  <2>2. diff' = (((clock' % UINT16) - last_time') % UINT16)
    BY DEF diff
  <2>3. QED  BY <1>1, <2>1, <2>2, Elapsed
<1>5. Done' = {} /\ Rest' = Edges
  <2>1. PoolIInv'
    BY TimerPools
  <2>2. (i \in Nat)'
    BY <1>1
  <2>3. (i = 0 => Done = {} /\ Rest = Edges)'
    BY <2>1, <2>2, PlacesSplit, PTL
  <2>4. QED  BY <1>1, <1>2, <2>3
<1>6. AgeIInv'
  <2>1. /\ Expired(Edges, d) \ Edges = {} /\ purge_edges(Edges \ Edges, d) = {}
        /\ Endpoints({}) = {}
    BY DEF Expired, purge_edges, Endpoints
  <2>2. QED  BY <1>1, <1>2, <1>4, <1>5, <2>1 DEF AgeIInv
<1>7. ViewIInv'
  BY <1>1, <1>3, <1>6 DEF ViewIInv, Reporting
<1>8. before' # NULL
  BY <1>3, NotNull
<1>9. QED  BY <1>1, <1>2, <1>7, <1>8 DEF ViewNodes, ViewEdges, ViewSent

LEMMA RemoveView ==
    ASSUME ~MallocMayFail, PoolIInv, HopIInv, ViewIInv, RemoveExpired
    PROVE  ViewIInv' /\ UNCHANGED <<ViewNodes, ViewEdges, ViewSent>>
<1> DEFINE e == Memory!At(edge_memory, i)
           N0 == before.nodes
           E0 == before.edges
           rest == Memory!RemoveAt(edge_memory, i)
           n == edge_memory.count
<1>1. /\ pc = "purge" /\ pc' = "purge" /\ before \in Graph /\ before' = before
      /\ Fits(N0, E0) /\ buffer = {} /\ buffer' = {} /\ clock' = clock /\ last_time' = last_time
      /\ i < bound /\ i' = i /\ e.ttl <= diff /\ AgeIInv
      /\ i \in Nat /\ bound = n /\ i < n
  BY DEF RemoveExpired, ViewIInv, PoolIInv, time
<1>2. /\ e \in Edges /\ i \in Memory!Used(edge_memory) /\ edge_memory' = rest
  BY <1>1, PurgedEdge DEF RemoveExpired
<1>3. /\ Edges' = Edges \ {e}
      /\ Nodes' = Nodes \ (({e.src, e.dst} \ {self}) \ Endpoints(Edges'))
  BY RemoveClosed
<1>4. diff' = diff
  BY <1>1 DEF diff
<1>5. Done' = Done
  <2>1. /\ rest.count = n - 1 /\ n \in Nat
        /\ \A l \in 0..n-2 : l < i => Memory!At(rest, l) = Memory!At(edge_memory, l)
    BY <1>2, DropEdge, EdgePoolFacts DEF PoolIInv
  <2> HIDE DEF rest, n
  <2>2. /\ Memory!Used(rest) = 0..n-2 /\ Memory!Used(edge_memory) = 0..n-1
    BY <2>1 DEF Memory!Used, n
  <2>3. {l \in 0..n-2 : l < i} = {l \in 0..n-1 : l < i}
    BY <1>1, <2>1
  <2>4. {Memory!At(rest, k) : k \in {l \in 0..n-2 : l < i}}
           = {Memory!At(edge_memory, k) : k \in {l \in 0..n-2 : l < i}}
    BY <2>1
  <2>5. QED  BY <1>1, <1>2, <2>2, <2>3, <2>4 DEF Done
<1>6. e \in Rest
  BY <1>1, <1>2 DEF Rest
<1>7. Done \cup Rest = Edges /\ Done \cap Rest = {}
  BY <1>1, PlacesSplit
<1>8. Rest' = Rest \ {e}
  <2>1. PoolIInv' /\ (i \in Nat)'
    BY <1>1, RemovePools
  <2>2. (Done \cup Rest = Edges /\ Done \cap Rest = {})'
    BY <2>1, PlacesSplit, PTL
  <2>3. QED  BY <1>3, <1>5, <1>6, <1>7, <2>2
<1> HIDE DEF e
<1>9. AgeIInv'
  <2> DEFINE X == Endpoints(Expired(E0, diff) \ Rest)
             Y == Endpoints(Expired(E0, diff) \ Rest')
  <2>1. e \in E0 /\ e \in Expired(E0, diff) /\ Rest \subseteq E0
    BY <1>1, <1>6 DEF AgeIInv, Expired
  <2>2. Y = X \cup {e.src, e.dst}
    BY <1>6, <1>8, <2>1 DEF Endpoints
  <2>3. purge_edges(E0 \ Rest', diff) = purge_edges(E0 \ Rest, diff)
    <3>1. (E0 \ Rest') \ Expired(E0 \ Rest', diff) = (E0 \ Rest) \ Expired(E0 \ Rest, diff)
      BY <1>1, <1>8, <2>1 DEF Expired
    <3>2. QED  BY <3>1 DEF purge_edges
  <2>4. Endpoints(Edges) = Endpoints(Edges') \cup {e.src, e.dst}
    BY <1>2, <1>3 DEF Endpoints
  <2>5. Nodes = N0 \ ((X \ Endpoints(Edges)) \ {self})
    BY <1>1 DEF AgeIInv
  <2> HIDE DEF X, Y
  <2>6. Nodes' = N0 \ ((Y \ Endpoints(Edges')) \ {self})
    BY <1>3, <2>2, <2>4, <2>5
  <2>7. QED  BY <1>1, <1>4, <1>5, <1>8, <2>1, <2>3, <2>6 DEF AgeIInv, Y
<1>10. ViewIInv'
  BY <1>1, <1>9 DEF ViewIInv, Reporting
<1>11. QED  BY <1>1, <1>10, NotNull, Stutters

LEMMA LowerView ==
    ASSUME PoolIInv, ViewIInv, Decrease
    PROVE  ViewIInv' /\ UNCHANGED <<ViewNodes, ViewEdges, ViewSent>>
<1> DEFINE e == Memory!At(edge_memory, i)
           f == [e EXCEPT !.ttl = @ - diff]
           N0 == before.nodes
           E0 == before.edges
           q == Memory!Overwrite(edge_memory, i, f)
           n == edge_memory.count
<1>1. /\ pc = "purge" /\ pc' = "purge" /\ before \in Graph /\ before' = before
      /\ Fits(N0, E0) /\ buffer = {} /\ buffer' = {} /\ clock' = clock /\ last_time' = last_time
      /\ i' = i + 1 /\ e.ttl > diff /\ AgeIInv /\ i \in Nat
      /\ UNCHANGED node_memory
  BY DEF Decrease, ViewIInv, PoolIInv, time
<1>2. /\ e \in Edges /\ e \in Link /\ f \in Link /\ SameEdge(f, e) /\ f.ttl = e.ttl - diff
      /\ i \in Memory!Used(edge_memory) /\ edge_memory' = q
  BY LoweredEdge
<1>3. /\ q.count = n /\ Edges' = (Edges \ {e}) \cup {f}
      /\ \A l \in Memory!Used(edge_memory) :
            Memory!At(q, l) = IF l = i THEN f ELSE Memory!At(edge_memory, l)
  <2> HIDE DEF f
  <2>1. QED  BY <1>2, ReplaceEdge DEF PoolIInv, Edges
<1>4. diff' = diff /\ Nodes' = Nodes
  BY <1>1 DEF diff, Nodes
<1>5. Done' = Done \cup {f} /\ Rest' = Rest \ {e} /\ e \in Rest
  <2>1. n \in Nat /\ Memory!Used(edge_memory) = 0..n-1 /\ Memory!Used(q) = 0..n-1
    BY <1>3, EdgePoolFacts DEF PoolIInv, Memory!Used
  <2>2. \A k, l \in 0..n-1 : Memory!At(edge_memory, k) = Memory!At(edge_memory, l) => k = l
    BY <2>1 DEF PoolIInv, EdgePool, SameEdge
  <2> HIDE DEF q, n, f
  <2>3. /\ {l \in 0..n-1 : l < i+1} = {l \in 0..n-1 : l < i} \cup {i}
        /\ {l \in 0..n-1 : l >= i+1} = {l \in 0..n-1 : l >= i} \ {i}
        /\ i \in 0..n-1 /\ i >= i
    BY <1>1, <1>2, <2>1
  <2>4. {Memory!At(q, k) : k \in {l \in 0..n-1 : l < i} \cup {i}} = Done \cup {f}
    BY <1>1, <1>3, <2>1, <2>3 DEF Done
  <2>5. {Memory!At(q, k) : k \in {l \in 0..n-1 : l >= i} \ {i}} = Rest \ {e}
    BY <1>1, <1>3, <2>1, <2>2, <2>3 DEF Rest
  <2>6. e \in Rest
    BY <2>1, <2>3 DEF Rest
  <2>7. Done' = {Memory!At(q, k) : k \in {l \in 0..n-1 : l < i+1}}
    BY <1>1, <1>2, <2>1 DEF Done
  <2>8. Rest' = {Memory!At(q, k) : k \in {l \in 0..n-1 : l >= i+1}}
    BY <1>1, <1>2, <2>1 DEF Rest
  <2>9. QED  BY <2>3, <2>4, <2>5, <2>6, <2>7, <2>8
<1>6. diff \in Nat
  BY DiffNat
<1>7. f = [src |-> e.src, dst |-> e.dst, ttl |-> e.ttl - diff]
  BY <1>2 DEF Link
<1> HIDE DEF e, f, q
<1>8. AgeIInv'
  <2>1. e \in E0 /\ e \notin Expired(E0, diff) /\ Rest \subseteq E0
    <3>1. e.ttl \in Nat /\ ~(e.ttl <= diff)
      BY <1>1, <1>2, <1>6 DEF Link
    <3>2. QED  BY <1>1, <1>5, <3>1 DEF AgeIInv, Expired
  <2>2. Expired(E0, diff) \ Rest' = Expired(E0, diff) \ Rest
    BY <1>5, <2>1
  <2>3. purge_edges(E0 \ Rest', diff) = purge_edges(E0 \ Rest, diff) \cup {f}
    <3>1. (E0 \ Rest') \ Expired(E0 \ Rest', diff)
             = ((E0 \ Rest) \ Expired(E0 \ Rest, diff)) \cup {e}
      BY <1>5, <2>1 DEF Expired
    <3>2. QED  BY <1>7, <3>1 DEF purge_edges
  <2>4. Endpoints(Edges') = Endpoints(Edges)
    BY <1>2, <1>3 DEF Endpoints, SameEdge
  <2>5. QED  BY <1>1, <1>4, <1>5, <2>1, <2>2, <2>3, <2>4 DEF AgeIInv
<1>9. ViewIInv'
  BY <1>1, <1>8 DEF ViewIInv, Reporting
<1>10. QED  BY <1>1, <1>9, NotNull, Stutters

(* When every edge has been looked at, the graph is what purge() promises.  *)
LEMMA PurgedGraph ==
    ASSUME PoolIInv, ViewIInv, Purged
    PROVE  /\ diff \in Delays
           /\ Nodes = purge_nodes(before.nodes, before.edges, self, diff)
           /\ Edges = purge_edges(before.edges, diff)
<1> DEFINE N0 == before.nodes
           E0 == before.edges
<1>1. pc = "purge" /\ i >= edge_memory.count /\ i \in Nat /\ AgeIInv
  BY DEF Purged, PoolIInv, ViewIInv
<1>2. Rest = {} /\ Edges = Done
  BY <1>1, PlacesSplit
<1>3. Edges = purge_edges(E0, diff)
  <2>1. E0 \ {} = E0
    OBVIOUS
  <2>2. QED  BY <1>1, <1>2, <2>1 DEF AgeIInv
<1>4. Endpoints(purge_edges(E0, diff)) = Endpoints(E0 \ Expired(E0, diff))
  <2>1. \A f \in purge_edges(E0, diff) : \E e \in E0 \ Expired(E0, diff) :
           f.src = e.src /\ f.dst = e.dst
    BY DEF purge_edges
  <2>2. \A e \in E0 \ Expired(E0, diff) : \E f \in purge_edges(E0, diff) :
           f.src = e.src /\ f.dst = e.dst
    <3>1. SUFFICES ASSUME NEW e \in E0 \ Expired(E0, diff)
                   PROVE  \E f \in purge_edges(E0, diff) : f.src = e.src /\ f.dst = e.dst
      OBVIOUS
    <3>2. [src |-> e.src, dst |-> e.dst, ttl |-> e.ttl - diff] \in purge_edges(E0, diff)
      BY DEF purge_edges
    <3>3. QED  BY <3>2
  <2>3. QED  BY <2>1, <2>2 DEF Endpoints
<1>5. Nodes = N0 \ ((Endpoints(Expired(E0, diff)) \ Endpoints(Edges)) \ {self})
  <2>1. Expired(E0, diff) \ {} = Expired(E0, diff)
    OBVIOUS
  <2>2. QED  BY <1>1, <1>2, <2>1 DEF AgeIInv
<1>6. QED  BY <1>1, <1>3, <1>4, <1>5 DEF AgeIInv, purge_nodes

LEMMA ViewWakes ==
    ASSUME NEW d \in Delays, ViewSent = {},
           ViewNodes' = purge_nodes(ViewNodes, ViewEdges, self, d),
           ViewEdges' = purge_edges(ViewEdges, d),
           ViewSent' \in serialize(self, ViewEdges')
    PROVE  View!Next
<1>1. /\ ViewNodes' = View!purge_nodes(ViewNodes, ViewEdges, self, d)
      /\ ViewEdges' = View!purge_edges(ViewEdges, d)
      /\ ViewSent' \in View!serialize(self, ViewEdges')
  BY ViewPurges, ViewReports
<1>2. View!Wake(d)
  BY <1>1 DEF View!Wake, ViewNodes, ViewEdges, ViewSent
<1>3. QED  BY <1>2 DEF View!Next

LEMMA PurgedView ==
    ASSUME ~MallocMayFail, PoolIInv, HopIInv, ViewIInv, Purged
    PROVE  ViewIInv' /\ [View!Next]_<<ViewNodes, ViewEdges, ViewSent>>
<1>1. /\ pc = "purge" /\ before \in Graph /\ before # NULL /\ Fits(before.nodes, before.edges)
      /\ buffer = {} /\ buffer' = {} /\ clock' = clock /\ last_time' = clock
      /\ i' = 0 /\ self \in Nodes
      /\ pc' = IF K > 0 /\ K >= 2 THEN "pack" ELSE "sent"
      /\ sent' = IF K > 0 /\ K = 1 THEN {[src |-> self, drains |-> {}]} ELSE {}
      /\ before' = IF pc' = "sent" THEN NULL ELSE before
  BY NotNull DEF Purged, StartReport, OrFail, ViewIInv, HopIInv
<1>2. Nodes' = Nodes /\ Edges' = Edges
  BY SameGraph DEF Purged
<1>3. /\ diff \in Delays
      /\ Nodes = purge_nodes(before.nodes, before.edges, self, diff)
      /\ Edges = purge_edges(before.edges, diff)
  BY PurgedGraph
<1>4. K \in Nat
  BY ReportAssumption
<1>5. CASE K >= 2
  <2>1. pc' = "pack" /\ sent' = {} /\ before' = before
    BY <1>1, <1>4, <1>5
  <2>2. Reported' = {}
    BY <1>1, <2>1 DEF Reported
  <2>3. ReportIInv'
    BY <1>1, <1>2, <1>3, <1>5, <2>1, <2>2 DEF ReportIInv
  <2>4. ViewIInv'
    BY <1>1, <2>1, <2>3 DEF ViewIInv, Reporting
  <2>5. QED  BY <1>1, <2>1, <2>4, Stutters
<1>6. CASE ~(K >= 2)
  <2>1. pc' = "sent" /\ before' = NULL
    BY <1>1, <1>6
  <2>2. ViewIInv'
    BY <1>1, <2>1 DEF ViewIInv, Reporting
  <2>3. /\ ViewNodes = before.nodes /\ ViewEdges = before.edges /\ ViewSent = {}
        /\ ViewNodes' = Nodes' /\ ViewEdges' = Edges' /\ ViewSent' = sent'
    BY <1>1, <2>1 DEF ViewNodes, ViewEdges, ViewSent
  <2>4. sent' \in serialize(self, Edges)
    <3>1. K = 0 \/ K = 1
      BY <1>4, <1>6
    <3>2. QED  BY <1>1, <3>1 DEF serialize
  <2>5. View!Next
    BY <1>2, <1>3, <2>3, <2>4, ViewWakes
  <2>6. QED  BY <2>2, <2>5
<1>7. QED  BY <1>5, <1>6

-----------------------------------------------------------------------------
(* serialize().  How far the hops are counted makes no difference.          *)
LEMMA WithinSame ==
    ASSUME NEW E, NEW k \in Nat, NEW m \in Nat, NEW d \in Nat, d <= k, d <= m
    PROVE  WithinHops(E, self, k)[d] = WithinHops(E, self, m)[d]
<1> DEFINE V == WithinHops(E, self, k)
           W == WithinHops(E, self, m)
           S == {h \in 0..d : V[h] = W[h]}
<1>1. V[0] = {self} /\ \A h \in 1..k : V[h] = V[h-1] \cup Adjacent(E, V[h-1])
  BY WithinHopsValues
<1>2. W[0] = {self} /\ \A h \in 1..m : W[h] = W[h-1] \cup Adjacent(E, W[h-1])
  BY WithinHopsValues
<1> HIDE DEF V, W
<1>3. 0 \in S
  BY <1>1, <1>2
<1>4. ASSUME NEW h \in 0..d-1, h \in S PROVE h + 1 \in S
  <2>1. h + 1 \in 1..k /\ h + 1 \in 1..m /\ (h + 1) - 1 = h /\ h + 1 \in 0..d
    OBVIOUS
  <2>2. V[h+1] = V[h] \cup Adjacent(E, V[h]) /\ W[h+1] = W[h] \cup Adjacent(E, W[h])
    BY <1>1, <1>2, <2>1
  <2>3. QED  BY <1>4, <2>1, <2>2
<1>5. 0..d \subseteq S
  <2> HIDE DEF S
  <2>1. QED  BY <1>3, <1>4, UpTo
<1>6. d \in 0..d
  OBVIOUS
<1>7. QED  BY <1>5, <1>6 DEF V, W

(* When all neighbours of the entries of the array are in it, nothing else  *)
(* can be reached.                                                          *)
LEMMA NothingElse ==
    ASSUME NEW E, NEW s, NEW k \in Nat, NEW d \in 0..k,
           \A x \in Listed(s) \cup {self} : Covered(s, E, x)
    PROVE  WithinHops(E, self, k)[d] \subseteq Listed(s) \cup {self}
<1> DEFINE V == WithinHops(E, self, k)
           S == {h \in 0..k : V[h] \subseteq Listed(s) \cup {self}}
<1>1. V[0] = {self} /\ \A h \in 1..k : V[h] = V[h-1] \cup Adjacent(E, V[h-1])
  BY WithinHopsValues
<1> HIDE DEF V
<1>2. 0 \in S
  BY <1>1
<1>3. ASSUME NEW h \in 0..k-1, h \in S PROVE h + 1 \in S
  <2>1. h + 1 \in 1..k /\ (h + 1) - 1 = h /\ h + 1 \in 0..k
    OBVIOUS
  <2>2. V[h+1] = V[h] \cup Adjacent(E, V[h])
    BY <1>1, <2>1
  <2>3. \A y \in Adjacent(E, V[h]) : \E x \in V[h] : y \in Adjacent(E, {x})
    BY DEF Adjacent
  <2>4. Adjacent(E, V[h]) \subseteq Listed(s) \cup {self}
    BY <1>3, <2>3 DEF Covered
  <2>5. QED  BY <1>3, <2>1, <2>2, <2>4
<1>4. 0..k \subseteq S
  <2> HIDE DEF S
  <2>1. QED  BY <1>2, <1>3, UpTo
<1>5. QED  BY <1>4 DEF V

(* The array tells which nodes are within K-1 hops, and how far they are.   *)
LEMMA ArrayTells ==
    ASSUME PoolIInv, HopIInv, pc \in {"pack", "edges"}, i # 0, K >= 2
    PROVE  /\ \A h \in 0..K-1 : self \in Within[h] /\ Within[h] \subseteq Listed(hops) \cup {self}
           /\ \A k \in DOMAIN hops : \A h \in 0..K-1 :
                 hops[k].addr \in Within[h] <=> hops[k].hop_count <= h
<1> DEFINE W == WithinHops(Edges, self, MAX_NODES)
<1>1. /\ self \in Nodes /\ Ranked(hops, Edges, Nodes)
      /\ \A x \in Listed(hops) \cup {self} : Covered(hops, Edges, x)
  BY DEF HopIInv
<1>2. /\ Len(hops) \in Nat /\ DOMAIN hops = 1..Len(hops) /\ Len(hops) < MAX_NODES
      /\ MAX_NODES \in Nat
  BY <1>1, RankedFits
<1>3. K-1 \in Nat
  BY ReportAssumption
<1>4. /\ Within[0] = {self}
      /\ \A g, h \in 0..K-1 : g <= h => Within[g] \subseteq Within[h]
  BY <1>3, HopCounts DEF Within
<1>5. \A h \in 0..K-1 : self \in Within[h] /\ Within[h] \subseteq Listed(hops) \cup {self}
  <2>1. SUFFICES ASSUME NEW h \in 0..K-1
                 PROVE  self \in Within[h] /\ Within[h] \subseteq Listed(hops) \cup {self}
    OBVIOUS
  <2>2. self \in Within[h]
    BY <1>3, <1>4
  <2>3. Within[h] \subseteq Listed(hops) \cup {self}
    BY <1>1, <1>3, NothingElse DEF Within
  <2>4. QED  BY <2>2, <2>3
<1>6. ASSUME NEW k \in DOMAIN hops, NEW h \in 0..K-1
      PROVE  hops[k].addr \in Within[h] <=> hops[k].hop_count <= h
  <2> DEFINE x == hops[k].addr
             g == hops[k].hop_count
  <2>1. g \in 1..MAX_NODES /\ x \in AtHop(W, g)
    <3>1. g \in 1..k /\ x \in AtHop(W, g)
      BY <1>1 DEF Ranked
    <3>2. QED  BY <1>2, <3>1
  <2> HIDE DEF x, g
  <2>2. /\ x \in W[g]
        /\ \A l \in 0..MAX_NODES : x \in W[l] <=> g <= l
    <3>1. x \in W[g]
      BY <1>2, <2>1, HopCounts
    <3>2. \A l \in 0..MAX_NODES : x \in W[l] => g <= l
      BY <1>2, <2>1, HopCounts
    <3>3. \A l \in 0..MAX_NODES : g <= l => W[g] \subseteq W[l]
      BY <1>2, <2>1, HopCounts
    <3>4. QED  BY <3>1, <3>2, <3>3
  <2> HIDE DEF W
  <2>3. CASE h <= MAX_NODES
    <3>1. Within[h] = W[h]
      BY <1>2, <1>3, <2>3, WithinSame DEF Within, W
    <3>2. QED  BY <1>3, <2>2, <2>3, <3>1 DEF x, g
  <2>4. CASE ~(h <= MAX_NODES)
    <3>1. g <= h /\ g \in 0..K-1
      BY <1>2, <1>3, <2>1, <2>4
    <3>2. Within[g] = W[g]
      BY <1>2, <1>3, <2>1, <3>1, WithinSame DEF Within, W
    <3>3. x \in Within[h]
      BY <1>4, <2>2, <3>1, <3>2
    <3>4. QED  BY <3>1, <3>3 DEF x, g
  <2>5. QED  BY <2>3, <2>4
<1>7. QED  BY <1>5, <1>6

(* The edges that the loop packs are those that are packable.               *)
LEMMA PacksPackable ==
    ASSUME PoolIInv, HopIInv, pc \in {"pack", "edges"}, K >= 2, i \in 0..Len(hops),
           NEW e \in get_outgoing_edges(Edges, Source.addr), Source.hop_count <= K-1
    PROVE  PacksTo(e.dst) <=> e \in Packable(self, Edges, Within, Source.addr)
<1>1. K \in Nat /\ K-1 \in 0..K-1 /\ K-2 \in 0..K-1 /\ (K-1)-1 = K-2 /\ K-1 # 0
  BY ReportAssumption
<1>2. \A x : x \in AtHop(Within, K-1) <=> x \in Within[K-1] /\ x \notin Within[K-2]
  BY <1>1 DEF AtHop
<1>3. CASE i = 0
  <2>1. Source.addr = self /\ Source.hop_count = 0
    BY <1>3 DEF Source
  <2>2. PacksTo(e.dst)
    BY <1>1, <2>1 DEF PacksTo
  <2>3. self \in Within[K-2]
    <3>1. /\ WithinHops(Edges, self, K-1)[0] = {self}
          /\ \A g, h \in 0..K-1 : g <= h =>
                WithinHops(Edges, self, K-1)[g] \subseteq WithinHops(Edges, self, K-1)[h]
      <4>1. K-1 \in Nat
        BY <1>1
      <4>2. QED  BY <4>1, HopCounts
    <3>2. 0 \in 0..K-1 /\ 0 <= K-2
      BY <1>1
    <3>3. QED  BY <1>1, <3>1, <3>2 DEF Within
  <2>4. e \in Packable(self, Edges, Within, Source.addr)
    BY <1>2, <2>1, <2>3 DEF Packable
  <2>5. QED  BY <2>2, <2>4
<1>4. CASE i # 0
  <2> DEFINE x == hops[i].addr
             g == hops[i].hop_count
             y == e.dst
  <2>1. Source.addr = x /\ Source.hop_count = g
    BY <1>4 DEF Source
  <2>2. /\ Len(hops) \in Nat /\ DOMAIN hops = 1..Len(hops)
        /\ \A k \in DOMAIN hops : hops[k].addr # self /\ hops[k].hop_count \in 1..k
    BY RankedFits DEF HopIInv
  <2>3. i \in DOMAIN hops
    BY <1>4, <2>2
  <2>4. /\ \A h \in 0..K-1 : self \in Within[h] /\ Within[h] \subseteq Listed(hops) \cup {self}
        /\ \A k \in DOMAIN hops : \A h \in 0..K-1 :
              hops[k].addr \in Within[h] <=> hops[k].hop_count <= h
    BY <1>4, ArrayTells
  <2>5. x \in AtHop(Within, K-1) <=> g = K-1
    BY <1>1, <1>2, <2>1, <2>2, <2>3, <2>4
  <2> HIDE DEF x, g
  <2>6. CASE g # K-1
    <3>1. PacksTo(y)
      BY <2>1, <2>6 DEF PacksTo
    <3>2. QED  BY <2>1, <2>5, <2>6, <3>1 DEF Packable
  <2>7. CASE g = K-1
    <3>1. PacksTo(y) <=> \/ y = self
                         \/ \E k \in DOMAIN hops : hops[k].addr = y /\ hops[k].hop_count = K-2
      BY <2>1, <2>7 DEF PacksTo
    <3>2. e \in Packable(self, Edges, Within, Source.addr) <=>
             y = self \/ y \in AtHop(Within, K-2)
      BY <2>1, <2>5, <2>7 DEF Packable
    <3> HIDE DEF y
    <3>3. CASE K-2 = 0
      <4>1. AtHop(Within, K-2) \subseteq {self}
        <5>1. AtHop(Within, K-2) = Within[0]
          BY <3>3 DEF AtHop
        <5>2. WithinHops(Edges, self, K-1)[0] = {self}
          BY <1>1, WithinHopsValues
        <5>3. QED  BY <5>1, <5>2 DEF Within
      <4>2. \A k \in DOMAIN hops : hops[k].hop_count # K-2
        BY <2>2, <3>3
      <4>3. QED  BY <3>1, <3>2, <4>1, <4>2 DEF y
    <3>4. CASE K-2 # 0
      <4>1. (K-2)-1 \in 0..K-1
        BY <1>1, <3>4
      <4>2. AtHop(Within, K-2) = Within[K-2] \ Within[(K-2)-1]
        BY <3>4 DEF AtHop
      <4>3. ASSUME y \in AtHop(Within, K-2)
            PROVE  \E k \in DOMAIN hops : hops[k].addr = y /\ hops[k].hop_count = K-2
        <5>1. y \in Within[K-2] /\ y \notin Within[(K-2)-1] /\ y # self
          BY <2>4, <4>1, <4>2, <4>3
        <5>2. PICK k \in DOMAIN hops : hops[k].addr = y
          BY <1>1, <2>4, <5>1 DEF Listed
        <5>3. hops[k].hop_count <= K-2 /\ ~(hops[k].hop_count <= (K-2)-1)
          BY <1>1, <2>4, <4>1, <5>1, <5>2
        <5>4. hops[k].hop_count \in Nat
          BY <2>2
        <5>5. hops[k].hop_count = K-2
          BY <1>1, <5>3, <5>4
        <5>6. QED  BY <5>2, <5>5
      <4>4. ASSUME NEW k \in DOMAIN hops, hops[k].addr = y, hops[k].hop_count = K-2
            PROVE  y \in AtHop(Within, K-2)
        <5>1. hops[k].hop_count <= K-2 /\ ~(hops[k].hop_count <= (K-2)-1)
          BY <1>1, <4>4
        <5>2. QED  BY <1>1, <2>4, <4>1, <4>2, <4>4, <5>1
      <4>5. QED  BY <3>1, <3>2, <4>3, <4>4 DEF y
    <3>5. QED  BY <3>3, <3>4 DEF y
  <2>8. QED  BY <2>6, <2>7
<1>5. QED  BY <1>3, <1>4

(* At the end everything is sent of every source.                           *)
LEMMA AllSources ==
    ASSUME PoolIInv, HopIInv, pc = "pack", K >= 2, i \notin 0..Len(hops)
    PROVE  Reported = Sources(self, Edges, Within)
<1>1. /\ Len(hops) \in Nat /\ DOMAIN hops = 1..Len(hops)
      /\ \A k \in DOMAIN hops : hops[k].hop_count \in 1..k
      /\ i \in Nat /\ K-1 \in 0..K-1
  BY RankedFits, ReportAssumption DEF HopIInv
<1>2. i # 0 /\ \A k \in DOMAIN hops : k < i
  BY <1>1
<1>3. /\ Within[K-1] \subseteq Listed(hops) \cup {self}
      /\ \A k \in DOMAIN hops : hops[k].addr \in Within[K-1] <=> hops[k].hop_count <= K-1
  BY <1>1, <1>2, ArrayTells
<1>4. Reported = {self} \cup {hops[k].addr : k \in {j \in DOMAIN hops :
                    hops[j].hop_count <= K-1 /\ get_outgoing_edges(Edges, hops[j].addr) # {}}}
  BY <1>2 DEF Reported
<1>5. QED  BY <1>3, <1>4 DEF Sources, Listed

-----------------------------------------------------------------------------
(* The edges P of a source, those that are packable, cut into packets: one  *)
(* edge after the other is looked at.                                       *)
LEMMA CutStart ==
    ASSUME NEW P, NEW out, NEW left, P \subseteq left
    PROVE  CutSoFar({}, {}, P, out, left)
<1>1. Cardinality({}) = 0 /\ EdgesPerPacket \in Nat \ {0}
  BY FS_EmptySet, ReportAssumption
<1>2. QED  BY <1>1 DEF CutSoFar

LEMMA CutSkip ==
    ASSUME NEW P, NEW out, NEW full, NEW packing, NEW left, CutSoFar(full, packing, P, out, left),
           NEW e \in out, e \notin P, NEW next, left = {e} \cup next
    PROVE  CutSoFar(full, packing, P, out, next)
<1>1. P \ left = P \ next /\ left # {} /\ P # out
  OBVIOUS
<1>2. QED  BY <1>1 DEF CutSoFar

LEMMA CutTake ==
    ASSUME NEW P, NEW out, NEW full, NEW packing, NEW e, NEW next,
           CutSoFar(full, packing, P, out, {e} \cup next), IsFiniteSet(packing),
           e \in P, e \notin next
    PROVE  /\ Cardinality(packing \cup {e}) \in Nat
           /\ Cardinality(packing \cup {e}) < EdgesPerPacket \/ next = {} =>
                 CutSoFar(full, packing \cup {e}, P, out, next)
           /\ Cardinality(packing \cup {e}) >= EdgesPerPacket /\ next # {} =>
                 CutSoFar(full \cup {packing \cup {e}}, {}, P, out, next)
<1> DEFINE packed == packing \cup {e}
           left == {e} \cup next
<1>1. /\ (UNION full) \cup packing = P \ left /\ (UNION full) \cap packing = {}
      /\ \A c, d \in full : c # d => c \cap d = {}
      /\ \A c \in full : Cardinality(c) = EdgesPerPacket
      /\ Cardinality(packing) < EdgesPerPacket
      /\ EdgesPerPacket \in Nat \ {0}
  BY ReportAssumption DEF CutSoFar
<1>2. e \notin packing /\ e \notin UNION full /\ P \ next = (P \ left) \cup {e}
  BY <1>1
<1>3. /\ Cardinality(packed) \in Nat /\ IsFiniteSet(packed)
      /\ Cardinality(packed) = Cardinality(packing) + 1 /\ Cardinality(packing) \in Nat
  BY <1>2, FS_AddElement, FS_CardinalityType
<1>4. (UNION full) \cup packed = P \ next /\ (UNION full) \cap packed = {} /\ packed # {}
  BY <1>1, <1>2
<1>5. Cardinality(packed) <= EdgesPerPacket
  BY <1>1, <1>3
<1> HIDE DEF packed
<1>6. ASSUME Cardinality(packed) < EdgesPerPacket \/ next = {}
      PROVE  CutSoFar(full, packed, P, out, next)
  BY <1>1, <1>4, <1>5, <1>6 DEF CutSoFar
<1>7. ASSUME Cardinality(packed) >= EdgesPerPacket, next # {}
      PROVE  CutSoFar(full \cup {packed}, {}, P, out, next)
  <2>1. Cardinality(packed) = EdgesPerPacket
    BY <1>1, <1>3, <1>5, <1>7
  <2>2. \A c \in full : c \cap packed = {}
    BY <1>4
  <2>3. \A c, d \in full \cup {packed} : c # d => c \cap d = {}
    BY <1>1, <2>2
  <2>4. (UNION (full \cup {packed})) \cup {} = P \ next
    BY <1>4
  <2>5. Cardinality({}) = 0 /\ 0 <= EdgesPerPacket /\ 0 < EdgesPerPacket
    BY <1>1, FS_EmptySet
  <2>6. QED  BY <1>1, <1>7, <2>1, <2>3, <2>4, <2>5 DEF CutSoFar
<1>8. QED  BY <1>3, <1>4, <1>5, <1>6, <1>7 DEF packed

LEMMA CutEnd ==
    ASSUME NEW P, NEW out, NEW full, NEW packing, CutSoFar(full, packing, P, out, {})
    PROVE  full \cup {packing} \in Packings(P, out)
<1> DEFINE C == full \cup {packing}
<1>1. /\ (UNION full) \cup packing = P /\ (UNION full) \cap packing = {}
      /\ \A c, d \in full : c # d => c \cap d = {}
      /\ \A c \in full : Cardinality(c) = EdgesPerPacket
      /\ Cardinality(packing) <= EdgesPerPacket
      /\ full # {} /\ packing = {} => P # out
      /\ EdgesPerPacket \in Nat \ {0}
  BY ReportAssumption DEF CutSoFar
<1>2. UNION C = P /\ C # {} /\ C \in SUBSET SUBSET P
  BY <1>1
<1>3. \A c \in C : Cardinality(c) <= EdgesPerPacket
  BY <1>1
<1>4. \A c \in full : c \cap packing = {}
  BY <1>1
<1>5. \A c, d \in C : c # d =>
         c \cap d = {} /\ EdgesPerPacket \in {Cardinality(c), Cardinality(d)}
  BY <1>1, <1>4
<1>6. ASSUME {} \in C PROVE P = {} \/ P # out
  <2>1. {} \notin full
    BY <1>1, FS_EmptySet
  <2>2. packing = {}
    BY <1>6, <2>1
  <2>3. full = {} => P = {}
    BY <1>1, <2>2
  <2>4. QED  BY <1>1, <2>2, <2>3
<1>7. QED  BY <1>2, <1>3, <1>5, <1>6 DEF Packings

(* One packet more.                                                         *)
LEMMA OneMorePacket ==
    ASSUME NEW S, NEW p
    PROVE  /\ Of(S \cup {p}, p.src) = Of(S, p.src) \cup {p.drains}
           /\ \A y : y # p.src => Of(S \cup {p}, y) = Of(S, y)
<1>1. {q \in S \cup {p} : q.src = p.src} = {q \in S : q.src = p.src} \cup {p}
  OBVIOUS
<1>2. ASSUME NEW y, y # p.src PROVE {q \in S \cup {p} : q.src = y} = {q \in S : q.src = y}
  BY <1>2
<1>3. Of(S \cup {p}, p.src) = Of(S, p.src) \cup {p.drains}
  BY <1>1 DEF Of
<1>4. \A y : y # p.src => Of(S \cup {p}, y) = Of(S, y)
  BY <1>2 DEF Of
<1>5. QED  BY <1>3, <1>4

(* The packets, source by source, are what serialize() promises.            *)
LEMMA WholeReport ==
    ASSUME NEW E, NEW S, K >= 2,
           S \subseteq [src : Sources(self, E, WithinHops(E, self, K-1)), drains : SUBSET E],
           \A x \in Sources(self, E, WithinHops(E, self, K-1)) :
              Of(S, x) \in Packings(Packable(self, E, WithinHops(E, self, K-1), x),
                                    get_outgoing_edges(E, x))
    PROVE  S \in serialize(self, E)
<1> DEFINE W == WithinHops(E, self, K-1)
           sources == Sources(self, E, W)
           pack == [x \in sources |-> Packings(Packable(self, E, W, x), get_outgoing_edges(E, x))]
           f == [x \in sources |-> Of(S, x)]
           all == UNION {{[src |-> x, drains |-> c] : c \in f[x]} : x \in sources}
<1>1. /\ \A x \in sources : Of(S, x) \in pack[x]
      /\ S \subseteq [src : sources, drains : SUBSET E]
  OBVIOUS
<1> HIDE DEF pack, sources
<1>2. f \in [sources -> UNION {pack[x] : x \in sources}] /\ \A x \in sources : f[x] \in pack[x]
  BY <1>1
<1>3. S = all
  <2>1. ASSUME NEW p \in S PROVE p \in all
    <3>1. p = [src |-> p.src, drains |-> p.drains] /\ p.src \in sources
      BY <1>1, <2>1
    <3>2. p.drains \in f[p.src]
      BY <2>1, <3>1 DEF Of
    <3>3. QED  BY <3>1, <3>2
  <2>2. ASSUME NEW x \in sources, NEW c \in f[x] PROVE [src |-> x, drains |-> c] \in S
    <3>1. PICK p \in S : p.src = x /\ p.drains = c
      BY <2>2 DEF Of
    <3>2. p = [src |-> p.src, drains |-> p.drains]
      BY <1>1, <3>1
    <3>3. QED  BY <3>1, <3>2
  <2>3. QED  BY <2>1, <2>2
<1>4. K # 0 /\ K # 1
  BY ReportAssumption
<1>5. serialize(self, E) =
         {UNION {{[src |-> x, drains |-> c] : c \in h[x]} : x \in sources} :
            h \in {g \in [sources -> UNION {pack[x] : x \in sources}] :
                     \A x \in sources : g[x] \in pack[x]}}
  BY <1>4 DEF serialize, pack, sources
<1> HIDE DEF f
<1>6. QED  BY <1>2, <1>3, <1>5

-----------------------------------------------------------------------------
(* The steps of serialize().                                                *)
LEMMA ReportStep ==
    ASSUME ViewIInv, pc \in Reporting, pc' \in Reporting, UNCHANGED <<time, before>>, ReportIInv'
    PROVE  ViewIInv' /\ UNCHANGED <<ViewNodes, ViewEdges, ViewSent>>
<1>1. /\ pc \notin {"idle", "receive", "purge", "sent"} /\ pc' \notin {"idle", "receive", "purge", "sent"}
      /\ before' = before /\ clock' = clock /\ last_time' = last_time
  BY DEF Reporting, time
<1>2. before \in Graph /\ Fits(before.nodes, before.edges) /\ last_time = clock
  BY <1>1 DEF ViewIInv
<1>3. ViewIInv'
  BY <1>1, <1>2 DEF ViewIInv
<1>4. QED  BY <1>1, <1>2, <1>3, NotNull, Stutters

(* No source comes twice.                                                   *)
LEMMA NewSource ==
    ASSUME PoolIInv, HopIInv, pc \in {"pack", "edges"}, i \in 0..Len(hops)
    PROVE  /\ Source.addr \notin Reported /\ Source.addr \in Nodes
           /\ i = 0 => Source = [addr |-> self, hop_count |-> 0] /\ Reported = {}
<1>1. /\ self \in Nodes /\ Len(hops) \in Nat /\ DOMAIN hops = 1..Len(hops)
      /\ \A k \in DOMAIN hops : hops[k].addr \in Nodes \ {self}
      /\ \A j, k \in DOMAIN hops : hops[j].addr = hops[k].addr => j = k
  BY RankedFits DEF HopIInv, Ranked
<1>2. CASE i = 0
  BY <1>1, <1>2 DEF Source, Reported
<1>3. CASE i # 0
  <2>1. i \in DOMAIN hops /\ Source = hops[i] /\ ~(i < i)
    BY <1>1, <1>3 DEF Source
  <2>2. \A k \in DOMAIN hops : k < i => hops[k].addr # Source.addr
    BY <1>1, <2>1
  <2>3. QED  BY <1>1, <1>3, <2>1, <2>2 DEF Reported
<1>4. QED  BY <1>2, <1>3

LEMMA SourceDone ==
    ASSUME PoolIInv, HopIInv, pc \in {"pack", "edges"}, i \in 0..Len(hops), NextSource,
           hops' = hops, Edges' = Edges
    PROVE  /\ pc' \in {"pack", "count"}
           /\ Reported' = IF \/ i = 0
                             \/ /\ Source.hop_count <= K-1
                                /\ get_outgoing_edges(Edges, Source.addr) # {}
                          THEN Reported \cup {Source.addr} ELSE Reported
<1>1. Len(hops) \in Nat /\ DOMAIN hops = 1..Len(hops)
  BY RankedFits DEF HopIInv
<1>2. CASE i = 0
  <2>1. pc' = "count" /\ Source.addr = self
    BY <1>2 DEF NextSource, Source
  <2>2. Reported' = {self}
    BY <2>1 DEF Reported
  <2>3. Reported = {}
    BY <1>2 DEF Reported
  <2>4. QED  BY <1>2, <2>1, <2>2, <2>3
<1>3. CASE i # 0
  <2> DEFINE Sent(j) == hops[j].hop_count <= K-1 /\ get_outgoing_edges(Edges, hops[j].addr) # {}
  <2>1. pc' = "pack" /\ i' = i + 1 /\ i' # 0 /\ i \in DOMAIN hops /\ Source = hops[i]
    BY <1>1, <1>3 DEF NextSource, Source
  <2>2. Reported = {self} \cup {hops[k].addr : k \in {j \in DOMAIN hops : j < i /\ Sent(j)}}
    BY <1>3 DEF Reported
  <2>3. Reported' = {self} \cup {hops[k].addr : k \in {j \in DOMAIN hops : j < i + 1 /\ Sent(j)}}
    BY <2>1 DEF Reported
  <2>4. \A j \in DOMAIN hops : j < i + 1 <=> j < i \/ j = i
    BY <1>1, <2>1
  <2>5. Sent(i) <=> Source.hop_count <= K-1 /\ get_outgoing_edges(Edges, Source.addr) # {}
    BY <2>1
  <2> HIDE DEF Sent
  <2>6. {hops[k].addr : k \in {j \in DOMAIN hops : j < i + 1 /\ Sent(j)}}
           = {hops[k].addr : k \in {j \in DOMAIN hops : j < i /\ Sent(j)}}
             \cup (IF Sent(i) THEN {Source.addr} ELSE {})
    BY <2>1, <2>4
  <2>7. QED  BY <1>3, <2>1, <2>2, <2>3, <2>5, <2>6
<1>4. QED  BY <1>2, <1>3

(* The last packet of a source.                                             *)
AllPacked(S, R) ==
    /\ S \subseteq [src : R, drains : SUBSET Edges]
    /\ \A y \in R : Of(S, y) \in Packings(Packable(self, Edges, Within, y),
                                          get_outgoing_edges(Edges, y))

LEMMA LastPacket ==
    ASSUME NEW x, x \notin Reported, NEW drains \in SUBSET Edges,
           sent \subseteq [src : Reported \cup {x}, drains : SUBSET Edges],
           \A y \in Reported : Of(sent, y) \in Packings(Packable(self, Edges, Within, y),
                                                        get_outgoing_edges(Edges, y)),
           Of(sent, x) \cup {drains} \in Packings(Packable(self, Edges, Within, x),
                                                  get_outgoing_edges(Edges, x))
    PROVE  AllPacked(sent \cup {[src |-> x, drains |-> drains]}, Reported \cup {x})
<1> DEFINE T == sent \cup {[src |-> x, drains |-> drains]}
<1>1. Of(T, x) = Of(sent, x) \cup {drains} /\ \A y : y # x => Of(T, y) = Of(sent, y)
  <2> DEFINE p == [src |-> x, drains |-> drains]
  <2>1. p.src = x /\ p.drains = drains /\ T = sent \cup {p}
    OBVIOUS
  <2> HIDE DEF p
  <2>2. /\ Of(sent \cup {p}, p.src) = Of(sent, p.src) \cup {p.drains}
        /\ \A y : y # p.src => Of(sent \cup {p}, y) = Of(sent, y)
    BY OneMorePacket
  <2>3. QED  BY <2>1, <2>2
<1>2. T \subseteq [src : Reported \cup {x}, drains : SUBSET Edges]
  OBVIOUS
<1> HIDE DEF T
<1>3. \A y \in Reported \cup {x} :
         Of(T, y) \in Packings(Packable(self, Edges, Within, y), get_outgoing_edges(Edges, y))
  BY <1>1
<1>4. AllPacked(T, Reported \cup {x})
  BY <1>2, <1>3 DEF AllPacked
<1>5. QED  BY <1>4 DEF T

LEMMA ListedEdges ==
    ASSUME ~MallocMayFail, PoolIInv, NEW x, NEW out \in Outgoing(edge_memory, x)
    PROVE  LET G == get_outgoing_edges(Edges, x)
           IN  /\ out \in Seq(G) /\ Elements(out) = G /\ (out = <<>> <=> G = {})
               /\ \A j, k \in DOMAIN out : out[j] = out[k] => j = k
<1> DEFINE G == get_outgoing_edges(Edges, x)
<1>1. out = Memory!get_outgoing_edges(edge_memory, x)
  BY DEF Outgoing, OrFail
<1>2. Lists(out, G)
  BY <1>1, Listings DEF PoolIInv, Edges, get_outgoing_edges
<1> HIDE DEF G
<1>3. out \in Seq(G) /\ DOMAIN out = 1..Len(out)
  BY <1>2 DEF Lists
<1>4. \A j, k \in DOMAIN out : out[j] = out[k] => j = k
  BY <1>2, <1>3 DEF Lists, SameEdge
<1>5. QED  BY <1>2, <1>3, <1>4, ElementsOf, EmptyListing DEF G

LEMMA SkipSourceView ==
    ASSUME ~MallocMayFail, PoolIInv, HopIInv, ViewIInv, SkipSource
    PROVE  ViewIInv' /\ UNCHANGED <<ViewNodes, ViewEdges, ViewSent>>
<1> DEFINE x == Source.addr
           outgoing == get_outgoing_edges(Edges, x)
<1>1. /\ pc = "pack" /\ i \in 0..Len(hops) /\ NextSource /\ hops' = hops /\ buffer' = buffer
      /\ UNCHANGED <<time, before>> /\ pc \in Reporting /\ ReportIInv
      /\ K \in Nat /\ K >= 2 /\ buffer = {}
  BY ReportAssumption DEF SkipSource, ViewIInv, Reporting, ReportIInv
<1>2. Nodes' = Nodes /\ Edges' = Edges /\ Within' = Within
  BY SameGraph DEF SkipSource, Within
<1>3. /\ x \notin Reported /\ (i = 0 => Source.hop_count = 0 /\ Reported = {} /\ x = self)
  BY <1>1, NewSource
<1>4. /\ pc' \in {"pack", "count"}
      /\ Reported' = IF i = 0 \/ (Source.hop_count <= K-1 /\ outgoing # {})
                     THEN Reported \cup {x} ELSE Reported
  BY <1>1, <1>2, SourceDone
<1>5. /\ sent \subseteq [src : Reported, drains : SUBSET Edges]
      /\ \A y \in Reported : Of(sent, y) \in Packings(Packable(self, Edges, Within, y),
                                                      get_outgoing_edges(Edges, y))
      /\ \E d \in Delays : /\ Nodes = purge_nodes(before.nodes, before.edges, self, d)
                           /\ Edges = purge_edges(before.edges, d)
  BY <1>1 DEF ReportIInv
<1>6. /\ sent' \subseteq [src : Reported', drains : SUBSET Edges]
      /\ \A y \in Reported' : Of(sent', y) \in Packings(Packable(self, Edges, Within, y),
                                                        get_outgoing_edges(Edges, y))
  <2>1. CASE i = 0
    <3>1. outgoing = {} /\ sent' = sent \cup {[src |-> x, drains |-> {}]}
      <4>1. ~(Source.hop_count > K-1)
        BY <1>1, <1>3, <2>1
      <4>2. <<>> \in Outgoing(edge_memory, x) /\ sent' = sent \cup {Packet({})}
        BY <2>1, <4>1 DEF SkipSource
      <4>3. QED  BY <4>2, ListedEdges DEF Packet
    <3>2. Packable(self, Edges, Within, x) = {}
      BY <3>1 DEF Packable
    <3>3. Of(sent, x) = {} /\ sent = {}
      BY <1>3, <1>5, <2>1 DEF Of
    <3>4. {} \cup {{}} \in Packings({}, outgoing)
      BY CutStart, CutEnd
    <3>5. Of(sent, x) \cup {{}} \in Packings(Packable(self, Edges, Within, x), outgoing)
      BY <3>2, <3>3, <3>4
    <3>6. sent \subseteq [src : Reported \cup {x}, drains : SUBSET Edges]
      BY <3>3
    <3>7. \A y \in Reported : Of(sent, y) \in Packings(Packable(self, Edges, Within, y),
                                                       get_outgoing_edges(Edges, y))
      BY <1>5
    <3>8. {} \in SUBSET Edges
      OBVIOUS
    <3> HIDE DEF x
    <3>9. AllPacked(sent \cup {[src |-> x, drains |-> {}]}, Reported \cup {x})
      BY <1>3, <3>5, <3>6, <3>7, <3>8, LastPacket
    <3>10. sent' = sent \cup {[src |-> x, drains |-> {}]} /\ Reported' = Reported \cup {x}
      BY <1>4, <2>1, <3>1
    <3>11. QED  BY <3>9, <3>10 DEF AllPacked
  <2>2. CASE i # 0
    <3>1. sent' = sent
      BY <2>2 DEF SkipSource
    <3>2. ~(Source.hop_count <= K-1 /\ outgoing # {})
      <4>1. CASE Source.hop_count > K-1
        <5>1. Source.hop_count \in Int
          BY <1>1, <2>2, RankedFits DEF Source, HopIInv
        <5>2. QED  BY <1>1, <4>1, <5>1
      <4>2. CASE <<>> \in Outgoing(edge_memory, x)
        BY <4>2, ListedEdges
      <4>3. QED  BY <4>1, <4>2 DEF SkipSource
    <3>3. QED  BY <1>4, <1>5, <2>2, <3>1, <3>2
  <2>3. QED  BY <2>1, <2>2
<1>7. ReportIInv'
  <2>1. pc' # "edges" /\ K >= 2 /\ buffer' = {} /\ before' = before
    BY <1>1, <1>4
  <2>2. QED  BY <1>2, <1>5, <1>6, <2>1 DEF ReportIInv
<1>8. pc' \in Reporting
  BY <1>4 DEF Reporting
<1>9. QED  BY <1>1, <1>7, <1>8, ReportStep

(* Nothing is sent of a source before its turn comes.                       *)
LEMMA NothingYet ==
    ASSUME NEW R, NEW S, NEW D, S \subseteq [src : R, drains : D], NEW x, x \notin R
    PROVE  Of(S, x) = {}
BY DEF Of

LEMMA SameSource ==
    ASSUME pc \in {"pack", "edges"}, pc' \in {"pack", "edges"}, i' = i, hops' = hops,
           Edges' = Edges
    PROVE  Reported' = Reported /\ Source' = Source
BY DEF Reported, Source

LEMMA PackSourceView ==
    ASSUME ~MallocMayFail, PoolIInv, HopIInv, ViewIInv, PackSource
    PROVE  ViewIInv' /\ UNCHANGED <<ViewNodes, ViewEdges, ViewSent>>
<1> DEFINE x == Source.addr
           outgoing == get_outgoing_edges(Edges, x)
<1>1. /\ pc = "pack" /\ pc' = "edges" /\ i \in 0..Len(hops) /\ i' = i /\ hops' = hops
      /\ buffer' = buffer /\ sent' = sent /\ before' = before
      /\ UNCHANGED <<time, before>> /\ pc \in Reporting /\ pc' \in Reporting /\ ReportIInv
      /\ todo' \in Outgoing(edge_memory, x) /\ todo' # <<>> /\ Source.hop_count <= K-1
      /\ K \in Nat /\ K >= 2 /\ buffer = {}
  BY ReportAssumption DEF PackSource, ViewIInv, Reporting, ReportIInv
<1>2. Nodes' = Nodes /\ Edges' = Edges /\ Within' = Within
  BY SameGraph DEF PackSource, Within
<1>3. x \notin Reported
  BY <1>1, NewSource
<1>4. Reported' = Reported /\ Source' = Source
  BY <1>1, <1>2, SameSource
<1>5. /\ sent \subseteq [src : Reported, drains : SUBSET Edges]
      /\ \A y \in Reported : Of(sent, y) \in Packings(Packable(self, Edges, Within, y),
                                                      get_outgoing_edges(Edges, y))
      /\ \E d \in Delays : /\ Nodes = purge_nodes(before.nodes, before.edges, self, d)
                           /\ Edges = purge_edges(before.edges, d)
  BY <1>1 DEF ReportIInv
<1>6. Of(sent, x) = {}
  BY <1>3, <1>5, NothingYet
<1>7. /\ todo' \in Seq(outgoing) /\ Elements(todo') = outgoing /\ outgoing # {}
      /\ \A j, k \in DOMAIN todo' : todo'[j] = todo'[k] => j = k
  BY <1>1, ListedEdges
<1>8. CutSoFar({}, {}, Packable(self, Edges, Within, x), outgoing, outgoing)
  <2>1. Packable(self, Edges, Within, x) \subseteq outgoing
    BY DEF Packable
  <2> HIDE DEF outgoing
  <2>2. QED  BY <2>1, CutStart
<1>9. CutIInv'
  <2>1. CutSoFar(Of(sent', x), buffer', Packable(self, Edges, Within, x), outgoing, Elements(todo'))
    BY <1>1, <1>6, <1>7, <1>8
  <2>2. i' \in 0..Len(hops') /\ Source.hop_count <= K-1
    BY <1>1
  <2>3. QED  BY <1>2, <1>4, <1>7, <2>1, <2>2 DEF CutIInv
<1>10. ReportIInv'
  <2>1. sent' \subseteq [src : Reported' \cup {Source'.addr}, drains : SUBSET Edges']
    BY <1>1, <1>2, <1>4, <1>5
  <2>2. \A y \in Reported' : Of(sent', y) \in Packings(Packable(self, Edges', Within', y),
                                                      get_outgoing_edges(Edges', y))
    BY <1>1, <1>2, <1>4, <1>5
  <2>3. \E d \in Delays : /\ Nodes' = purge_nodes(before'.nodes, before'.edges, self, d)
                          /\ Edges' = purge_edges(before'.edges, d)
    BY <1>1, <1>2, <1>5
  <2>4. QED  BY <1>1, <1>9, <2>1, <2>2, <2>3 DEF ReportIInv
<1>11. QED  BY <1>1, <1>10, ReportStep

(* The edges of one source, one after the other.                            *)
LEMMA NextEdge ==
    ASSUME NEW X, NEW s \in Seq(X), s # <<>>, \A j, k \in DOMAIN s : s[j] = s[k] => j = k
    PROVE  /\ Head(s) \in X /\ Tail(s) \in Seq(X) /\ Head(s) \notin Elements(Tail(s))
           /\ Elements(s) = {Head(s)} \cup Elements(Tail(s))
           /\ \A j, k \in DOMAIN Tail(s) : Tail(s)[j] = Tail(s)[k] => j = k
           /\ Len(s) > 1 <=> Elements(Tail(s)) # {}
<1> DEFINE t == Tail(s)
           L == Len(s)
<1>1. /\ t \in Seq(X) /\ L \in Nat /\ L >= 1
      /\ DOMAIN s = 1..L /\ Head(s) = s[1] /\ Head(s) \in X
      /\ Len(t) = L - 1 /\ DOMAIN t = 1..L-1
      /\ \A k \in 1..L-1 : t[k] = s[k+1]
  OBVIOUS
<1>2. Elements(s) = {Head(s)} \cup Elements(t)
  BY HeadAndTail
<1> HIDE DEF t, L
<1>3. \A j, k \in DOMAIN t : t[j] = t[k] => j = k
  <2> SUFFICES ASSUME NEW j \in DOMAIN t, NEW k \in DOMAIN t, t[j] = t[k] PROVE j = k
    OBVIOUS
  <2>1. /\ j \in 1..L-1 /\ k \in 1..L-1 /\ j+1 \in DOMAIN s /\ k+1 \in DOMAIN s
        /\ s[j+1] = s[k+1]
    BY <1>1
  <2>2. j+1 = k+1
    BY <2>1
  <2>3. QED  BY <2>1, <2>2
<1>4. Head(s) \notin Elements(t)
  <2> SUFFICES ASSUME NEW k \in DOMAIN t, t[k] = Head(s) PROVE FALSE
    BY DEF Elements
  <2>1. k \in 1..L-1 /\ k+1 \in DOMAIN s /\ 1 \in DOMAIN s /\ s[k+1] = s[1]
    BY <1>1
  <2>2. k+1 = 1
    BY <2>1
  <2>3. QED  BY <2>1, <2>2
<1>5. L > 1 <=> Elements(t) # {}
  <2>1. L > 1 <=> DOMAIN t # {}
    <3>1. L > 1 <=> 1 \in 1..L-1
      BY <1>1
    <3>2. \A k \in 1..L-1 : L > 1
      BY <1>1
    <3>3. QED  BY <1>1, <3>1, <3>2
  <2>2. QED  BY <2>1 DEF Elements
<1>6. QED  BY <1>1, <1>2, <1>3, <1>4, <1>5 DEF t, L

LEMMA EdgesStep ==
    ASSUME PoolIInv, HopIInv, ViewIInv, pc = "edges", pc' = "edges",
           UNCHANGED <<memory, time, i, hops, before>>,
           sent' \subseteq [src : Reported \cup {Source.addr}, drains : SUBSET Edges],
           \A y \in Reported : Of(sent', y) = Of(sent, y),
           todo' \in Seq(get_outgoing_edges(Edges, Source.addr)),
           \A j, k \in DOMAIN todo' : todo'[j] = todo'[k] => j = k,
           CutSoFar(Of(sent', Source.addr), buffer', Packable(self, Edges, Within, Source.addr),
                    get_outgoing_edges(Edges, Source.addr), Elements(todo'))
    PROVE  ViewIInv' /\ UNCHANGED <<ViewNodes, ViewEdges, ViewSent>>
<1>1. /\ i' = i /\ hops' = hops /\ before' = before /\ ReportIInv
      /\ pc \in Reporting /\ pc' \in Reporting /\ UNCHANGED <<time, before>>
  BY DEF ViewIInv, Reporting
<1>2. Nodes' = Nodes /\ Edges' = Edges /\ Within' = Within
  BY SameGraph DEF Within
<1>3. Reported' = Reported /\ Source' = Source
  BY <1>1, <1>2, SameSource
<1>4. /\ K >= 2 /\ CutIInv
      /\ \A y \in Reported : Of(sent, y) \in Packings(Packable(self, Edges, Within, y),
                                                      get_outgoing_edges(Edges, y))
      /\ \E d \in Delays : /\ Nodes = purge_nodes(before.nodes, before.edges, self, d)
                           /\ Edges = purge_edges(before.edges, d)
  BY <1>1 DEF ReportIInv
<1>5. CutIInv'
  <2>1. /\ i' \in 0..Len(hops') /\ Source.hop_count <= K-1
        /\ get_outgoing_edges(Edges, Source.addr) # {}
    BY <1>1, <1>4 DEF CutIInv
  <2>2. QED  BY <1>2, <1>3, <2>1 DEF CutIInv
<1>6. ReportIInv'
  <2>1. sent' \subseteq [src : Reported' \cup {Source'.addr}, drains : SUBSET Edges']
    BY <1>2, <1>3
  <2>2. \A y \in Reported' : Of(sent', y) \in Packings(Packable(self, Edges', Within', y),
                                                      get_outgoing_edges(Edges', y))
    BY <1>2, <1>3, <1>4
  <2>3. \E d \in Delays : /\ Nodes' = purge_nodes(before'.nodes, before'.edges, self, d)
                          /\ Edges' = purge_edges(before'.edges, d)
    BY <1>1, <1>2, <1>4
  <2>4. QED  BY <1>4, <1>5, <2>1, <2>2, <2>3 DEF ReportIInv
<1>7. QED  BY <1>1, <1>6, ReportStep

(* What is known before an edge is looked at.                               *)
LEMMA Cutting ==
    ASSUME PoolIInv, HopIInv, ViewIInv, pc = "edges"
    PROVE  /\ K \in Nat /\ K >= 2 /\ i \in 0..Len(hops) /\ Source.hop_count <= K-1
           /\ Source.addr \notin Reported /\ Source.addr \in Nodes
           /\ todo \in Seq(get_outgoing_edges(Edges, Source.addr))
           /\ \A j, k \in DOMAIN todo : todo[j] = todo[k] => j = k
           /\ get_outgoing_edges(Edges, Source.addr) # {}
           /\ CutSoFar(Of(sent, Source.addr), buffer, Packable(self, Edges, Within, Source.addr),
                       get_outgoing_edges(Edges, Source.addr), Elements(todo))
           /\ sent \subseteq [src : Reported \cup {Source.addr}, drains : SUBSET Edges]
           /\ \A y \in Reported : Of(sent, y) \in Packings(Packable(self, Edges, Within, y),
                                                           get_outgoing_edges(Edges, y))
           /\ Packable(self, Edges, Within, Source.addr) \subseteq Edges
           /\ buffer \subseteq Edges /\ IsFiniteSet(buffer)
<1>1. ReportIInv
  BY DEF ViewIInv, Reporting
<1>2. CutIInv /\ K \in Nat /\ K >= 2
  BY <1>1, ReportAssumption DEF ReportIInv
<1>3. Packable(self, Edges, Within, Source.addr) \subseteq Edges
  BY DEF Packable, get_outgoing_edges
<1>4. CutSoFar(Of(sent, Source.addr), buffer, Packable(self, Edges, Within, Source.addr),
               get_outgoing_edges(Edges, Source.addr), Elements(todo))
  BY <1>2 DEF CutIInv
<1>5. buffer \subseteq Edges
  BY <1>3, <1>4 DEF CutSoFar
<1>6. IsFiniteSet(buffer)
  BY <1>5, PoolsFit, FS_Subset DEF Fits
<1>7. Source.addr \notin Reported /\ Source.addr \in Nodes
  BY <1>2, NewSource DEF CutIInv
<1>8. QED  BY <1>1, <1>2, <1>3, <1>4, <1>5, <1>6, <1>7 DEF ReportIInv, CutIInv

LEMMA SkipEdgeView ==
    ASSUME PoolIInv, HopIInv, ViewIInv, SkipEdge
    PROVE  ViewIInv' /\ UNCHANGED <<ViewNodes, ViewEdges, ViewSent>>
<1> DEFINE x == Source.addr
           out == get_outgoing_edges(Edges, x)
           P == Packable(self, Edges, Within, x)
           e == Head(todo)
           next == Elements(Tail(todo))
<1>1. /\ pc = "edges" /\ pc' = "edges" /\ todo # <<>> /\ ~PacksTo(e.dst) /\ todo' = Tail(todo)
      /\ UNCHANGED <<memory, time, i, hops, before>> /\ sent' = sent /\ buffer' = buffer
  BY DEF SkipEdge
<1>2. /\ K >= 2 /\ i \in 0..Len(hops) /\ Source.hop_count <= K-1
      /\ todo \in Seq(out) /\ \A j, k \in DOMAIN todo : todo[j] = todo[k] => j = k
      /\ CutSoFar(Of(sent, x), buffer, P, out, Elements(todo))
      /\ sent \subseteq [src : Reported \cup {x}, drains : SUBSET Edges]
  BY <1>1, Cutting
<1>3. /\ e \in out /\ Tail(todo) \in Seq(out) /\ Elements(todo) = {e} \cup next
      /\ \A j, k \in DOMAIN Tail(todo) : Tail(todo)[j] = Tail(todo)[k] => j = k
  <2> HIDE DEF out
  <2>1. QED  BY <1>1, <1>2, NextEdge
<1>4. e \notin P
  BY <1>1, <1>2, <1>3, PacksPackable
<1>5. CutSoFar(Of(sent, x), buffer, P, out, next)
  <2> HIDE DEF P, out, e, next, x
  <2>1. QED  BY <1>2, <1>3, <1>4, CutSkip
<1>6. QED  BY <1>1, <1>2, <1>3, <1>5, EdgesStep

LEMMA PackEdgeView ==
    ASSUME PoolIInv, HopIInv, ViewIInv, PackEdge
    PROVE  ViewIInv' /\ UNCHANGED <<ViewNodes, ViewEdges, ViewSent>>
<1> DEFINE x == Source.addr
           out == get_outgoing_edges(Edges, x)
           P == Packable(self, Edges, Within, x)
           e == Head(todo)
           next == Elements(Tail(todo))
           packed == buffer \cup {e}
           full == Cardinality(packed) >= EdgesPerPacket /\ Len(todo) > 1
<1>1. /\ pc = "edges" /\ pc' = "edges" /\ todo # <<>> /\ PacksTo(e.dst) /\ todo' = Tail(todo)
      /\ UNCHANGED <<memory, time, i, hops, before>>
      /\ IF full THEN sent' = sent \cup {Packet(packed)} /\ buffer' = {}
                 ELSE buffer' = packed /\ sent' = sent
  BY DEF PackEdge
<1>2. /\ K >= 2 /\ i \in 0..Len(hops) /\ Source.hop_count <= K-1 /\ x \notin Reported
      /\ todo \in Seq(out) /\ \A j, k \in DOMAIN todo : todo[j] = todo[k] => j = k
      /\ CutSoFar(Of(sent, x), buffer, P, out, Elements(todo))
      /\ sent \subseteq [src : Reported \cup {x}, drains : SUBSET Edges]
      /\ P \subseteq Edges /\ buffer \subseteq Edges /\ IsFiniteSet(buffer)
  BY <1>1, Cutting
<1>3. /\ e \in out /\ Tail(todo) \in Seq(out) /\ Elements(todo) = {e} \cup next
      /\ \A j, k \in DOMAIN Tail(todo) : Tail(todo)[j] = Tail(todo)[k] => j = k
      /\ e \notin next /\ (Len(todo) > 1 <=> next # {})
  <2> HIDE DEF out
  <2>1. QED  BY <1>1, <1>2, NextEdge
<1>4. e \in P
  BY <1>1, <1>2, <1>3, PacksPackable
<1>5. /\ Cardinality(packed) \in Nat /\ EdgesPerPacket \in Nat
      /\ Cardinality(packed) < EdgesPerPacket \/ next = {} =>
            CutSoFar(Of(sent, x), packed, P, out, next)
      /\ Cardinality(packed) >= EdgesPerPacket /\ next # {} =>
            CutSoFar(Of(sent, x) \cup {packed}, {}, P, out, next)
  <2> DEFINE S == Of(sent, x)
  <2>1. CutSoFar(S, buffer, P, out, {e} \cup next) /\ IsFiniteSet(buffer) /\ e \in P /\ e \notin next
    BY <1>2, <1>3, <1>4
  <2> HIDE DEF P, out, e, next, x, S
  <2>2. /\ Cardinality(packed) \in Nat
        /\ Cardinality(packed) < EdgesPerPacket \/ next = {} => CutSoFar(S, packed, P, out, next)
        /\ Cardinality(packed) >= EdgesPerPacket /\ next # {} =>
              CutSoFar(S \cup {packed}, {}, P, out, next)
    BY <2>1, CutTake
  <2>3. QED  BY <2>2, ReportAssumption DEF S
<1>6. CASE full
  <2>1. sent' = sent \cup {[src |-> x, drains |-> packed]} /\ buffer' = {}
    BY <1>1, <1>6 DEF Packet
  <2>2. Of(sent', x) = Of(sent, x) \cup {packed} /\ \A y \in Reported : Of(sent', y) = Of(sent, y)
    <3> DEFINE p == [src |-> x, drains |-> packed]
    <3>1. p.src = x /\ p.drains = packed /\ sent' = sent \cup {p}
      BY <2>1
    <3> HIDE DEF p, x, packed
    <3>2. Of(sent \cup {p}, p.src) = Of(sent, p.src) \cup {p.drains}
      BY OneMorePacket
    <3>3. \A y : y # p.src => Of(sent \cup {p}, y) = Of(sent, y)
      BY OneMorePacket
    <3>4. QED  BY <1>2, <3>1, <3>2, <3>3
  <2>3. sent' \subseteq [src : Reported \cup {x}, drains : SUBSET Edges]
    BY <1>2, <1>4, <2>1
  <2>4. CutSoFar(Of(sent', x), buffer', P, out, next)
    BY <1>3, <1>5, <1>6, <2>1, <2>2
  <2>5. QED  BY <1>1, <1>3, <2>2, <2>3, <2>4, EdgesStep
<1>7. CASE ~full
  <2>1. sent' = sent /\ buffer' = packed
    BY <1>1, <1>7
  <2>2. Cardinality(packed) < EdgesPerPacket \/ next = {}
    BY <1>3, <1>5, <1>7
  <2>3. CutSoFar(Of(sent', x), buffer', P, out, next)
    BY <1>5, <2>1, <2>2
  <2>4. QED  BY <1>1, <1>2, <1>3, <2>1, <2>3, EdgesStep
<1>8. QED  BY <1>6, <1>7

LEMMA EndSourceView ==
    ASSUME PoolIInv, HopIInv, ViewIInv, EndSource
    PROVE  ViewIInv' /\ UNCHANGED <<ViewNodes, ViewEdges, ViewSent>>
<1> DEFINE x == Source.addr
           out == get_outgoing_edges(Edges, x)
           P == Packable(self, Edges, Within, x)
<1>1. /\ pc = "edges" /\ NextSource /\ buffer' = {} /\ hops' = hops /\ UNCHANGED <<time, before>>
      /\ IF todo = <<>> THEN sent' = sent \cup {[src |-> x, drains |-> buffer]}
         ELSE Head(todo).dst \notin Nodes
  BY DEF EndSource, Packet
<1>2. /\ K >= 2 /\ i \in 0..Len(hops) /\ Source.hop_count <= K-1 /\ x \notin Reported
      /\ todo \in Seq(out) /\ out # {}
      /\ CutSoFar(Of(sent, x), buffer, P, out, Elements(todo))
      /\ sent \subseteq [src : Reported \cup {x}, drains : SUBSET Edges]
      /\ \A y \in Reported : Of(sent, y) \in Packings(Packable(self, Edges, Within, y),
                                                      get_outgoing_edges(Edges, y))
      /\ buffer \in SUBSET Edges
  BY <1>1, Cutting
<1>3. Nodes' = Nodes /\ Edges' = Edges /\ Within' = Within
  BY SameGraph DEF EndSource, Within
<1>4. todo = <<>>
  <2> SUFFICES ASSUME todo # <<>> PROVE FALSE
    OBVIOUS
  <2>1. Head(todo) \in out
    <3> HIDE DEF out
    <3>1. QED  BY <1>2, HeadAndTail
  <2>2. Head(todo).dst \in Endpoints(Edges)
    BY <2>1 DEF get_outgoing_edges, Endpoints
  <2>3. QED  BY <1>1, <2>2 DEF HopIInv
<1>5. Of(sent, x) \cup {buffer} \in Packings(P, out)
  <2>1. Elements(todo) = {}
    BY <1>4 DEF Elements
  <2>2. CutSoFar(Of(sent, x), buffer, P, out, {})
    BY <1>2, <2>1
  <2> HIDE DEF P, out, x
  <2>3. QED  BY <2>2, CutEnd
<1>6. AllPacked(sent', Reported \cup {x})
  <2>1. sent' = sent \cup {[src |-> x, drains |-> buffer]}
    BY <1>1, <1>4
  <2>2. Of(sent, x) \cup {buffer} \in Packings(Packable(self, Edges, Within, x),
                                               get_outgoing_edges(Edges, x))
    BY <1>5
  <2> HIDE DEF x
  <2>3. QED  BY <1>2, <2>1, <2>2, LastPacket
<1>7. pc' \in {"pack", "count"} /\ Reported' = Reported \cup {x}
  BY <1>1, <1>2, <1>3, SourceDone
<1>8. ReportIInv /\ pc \in Reporting /\ pc' \in Reporting
  BY <1>1, <1>7 DEF ViewIInv, Reporting
<1>9. ReportIInv'
  <2>1. /\ sent' \subseteq [src : Reported', drains : SUBSET Edges']
        /\ \A y \in Reported' : Of(sent', y) \in Packings(Packable(self, Edges', Within', y),
                                                          get_outgoing_edges(Edges', y))
    BY <1>3, <1>6, <1>7 DEF AllPacked
  <2>2. \E d \in Delays : /\ Nodes' = purge_nodes(before'.nodes, before'.edges, self, d)
                          /\ Edges' = purge_edges(before'.edges, d)
    BY <1>1, <1>3, <1>8 DEF ReportIInv
  <2>3. QED  BY <1>1, <1>2, <1>7, <2>1, <2>2 DEF ReportIInv
<1>10. QED  BY <1>1, <1>8, <1>9, ReportStep

LEMMA SerializedView ==
    ASSUME PoolIInv, HopIInv, ViewIInv, Serialized
    PROVE  ViewIInv' /\ [View!Next]_<<ViewNodes, ViewEdges, ViewSent>>
<1>1. /\ pc = "pack" /\ pc' = "sent" /\ before' = NULL /\ sent' = sent /\ buffer' = buffer
      /\ UNCHANGED time
      /\ i \in 0..Len(hops) => Source.addr \notin Nodes
  BY DEF Serialized
<1>2. /\ before \in Graph /\ before # NULL /\ last_time = clock /\ ReportIInv
  BY <1>1, NotNull DEF ViewIInv, Reporting
<1>3. /\ K >= 2 /\ buffer = {}
      /\ sent \subseteq [src : Reported, drains : SUBSET Edges]
      /\ \A y \in Reported : Of(sent, y) \in Packings(Packable(self, Edges, Within, y),
                                                      get_outgoing_edges(Edges, y))
  BY <1>1, <1>2 DEF ReportIInv
<1>4. PICK d \in Delays : /\ Nodes = purge_nodes(before.nodes, before.edges, self, d)
                          /\ Edges = purge_edges(before.edges, d)
  BY <1>2 DEF ReportIInv
<1>5. Nodes' = Nodes /\ Edges' = Edges
  BY SameGraph DEF Serialized
<1>6. i \notin 0..Len(hops)
  BY <1>1, NewSource
<1>7. Reported = Sources(self, Edges, Within)
  BY <1>1, <1>3, <1>6, AllSources
<1>8. sent \in serialize(self, Edges)
  <2> DEFINE E == Edges
  <2>1. /\ sent \subseteq [src : Sources(self, E, WithinHops(E, self, K-1)), drains : SUBSET E]
        /\ \A y \in Sources(self, E, WithinHops(E, self, K-1)) :
              Of(sent, y) \in Packings(Packable(self, E, WithinHops(E, self, K-1), y),
                                       get_outgoing_edges(E, y))
    BY <1>3, <1>7 DEF Within
  <2> HIDE DEF E
  <2>2. sent \in serialize(self, E)
    BY <1>3, <2>1, WholeReport
  <2>3. QED  BY <2>2 DEF E
<1>9. /\ ViewNodes = before.nodes /\ ViewEdges = before.edges /\ ViewSent = {}
      /\ ViewNodes' = Nodes' /\ ViewEdges' = Edges' /\ ViewSent' = sent'
  BY <1>1, <1>2 DEF ViewNodes, ViewEdges, ViewSent
<1>10. View!Next
  BY <1>1, <1>4, <1>5, <1>8, <1>9, ViewWakes
<1>11. ViewIInv'
  BY <1>1, <1>2, <1>3 DEF ViewIInv, Reporting, time
<1>12. QED  BY <1>10, <1>11

-----------------------------------------------------------------------------
(* get_hop_counts() comes between the first source and the others.          *)
LEMMA CountingView ==
    ASSUME ViewIInv, HopIInv, PoolIInv, pc \in {"count", "direct", "explore", "visit"},
           pc' \in {"direct", "explore", "visit", "pack"},
           pc' = "pack" => i' = 1 /\ hops' = hops,
           UNCHANGED <<memory, time, buffer, sent, before>>
    PROVE  ViewIInv' /\ UNCHANGED <<ViewNodes, ViewEdges, ViewSent>>
<1>1. pc \in Reporting /\ pc' \in Reporting /\ ReportIInv /\ pc # "edges" /\ pc' # "edges"
  BY DEF Reporting, ViewIInv
<1>2. Nodes' = Nodes /\ Edges' = Edges /\ Within' = Within
  BY SameGraph DEF Within
<1>3. Reported = {self}
  BY DEF Reported
<1>4. Reported' = {self}
  <2>1. CASE pc' = "pack"
    <3>1. DOMAIN hops = 1..Len(hops) /\ Len(hops) \in Nat
      BY RankedFits DEF HopIInv
    <3>2. \A j \in DOMAIN hops : ~(j < 1)
      BY <3>1
    <3>3. QED  BY <2>1, <3>2 DEF Reported
  <2>2. CASE pc' # "pack"
    BY <1>1, <2>2 DEF Reported
  <2>3. QED  BY <2>1, <2>2
<1>5. ReportIInv'
  <2>1. /\ sent' \subseteq [src : Reported', drains : SUBSET Edges']
        /\ \A y \in Reported' : Of(sent', y) \in Packings(Packable(self, Edges', Within', y),
                                                          get_outgoing_edges(Edges', y))
    BY <1>1, <1>2, <1>3, <1>4 DEF ReportIInv
  <2>2. \E d \in Delays : /\ Nodes' = purge_nodes(before'.nodes, before'.edges, self, d)
                          /\ Edges' = purge_edges(before'.edges, d)
    BY <1>1, <1>2 DEF ReportIInv
  <2>3. QED  BY <1>1, <2>1, <2>2 DEF ReportIInv
<1>6. QED  BY <1>1, <1>5, ReportStep

LEMMA TransmitView ==
    ASSUME PoolIInv, ViewIInv, Transmit
    PROVE  ViewIInv' /\ [View!Next]_<<ViewNodes, ViewEdges, ViewSent>>
<1>1. /\ pc = "sent" /\ pc' = "idle" /\ before = NULL /\ before' = NULL
      /\ buffer = {} /\ buffer' = {} /\ last_time = clock /\ last_time' = clock'
      /\ sent' = {}
  BY DEF Transmit, ViewIInv, time
<1>2. Nodes' = Nodes /\ Edges' = Edges
  BY SameGraph DEF Transmit
<1>3. ViewIInv'
  BY <1>1 DEF ViewIInv, Reporting
<1>4. /\ ViewNodes' = ViewNodes /\ ViewEdges' = ViewEdges
      /\ ViewSent = sent /\ ViewSent' = {}
  BY <1>1, <1>2 DEF ViewNodes, ViewEdges, ViewSent
<1>5. sent # {} => View!Transmit
  BY <1>4 DEF View!Transmit, ViewNodes, ViewEdges, ViewSent
<1>6. QED  BY <1>3, <1>4, <1>5 DEF View!Next

-----------------------------------------------------------------------------
(* Without a step nothing changes.                                          *)
LEMMA StillView ==
    ASSUME ViewIInv, UNCHANGED vars
    PROVE  ViewIInv' /\ UNCHANGED <<ViewNodes, ViewEdges, ViewSent>>
<1>1. /\ pc' = pc /\ todo' = todo /\ i' = i /\ hops' = hops /\ buffer' = buffer /\ sent' = sent
      /\ before' = before /\ clock' = clock /\ last_time' = last_time
      /\ node_memory' = node_memory /\ edge_memory' = edge_memory
  BY DEF vars
<1>2. Nodes' = Nodes /\ Edges' = Edges
  BY <1>1, SameGraph DEF memory
<1>3. Done' = Done /\ Rest' = Rest /\ diff' = diff
  BY <1>1 DEF Done, Rest, diff
<1>4. Within' = Within /\ Reported' = Reported /\ Source' = Source
  BY <1>1, <1>2 DEF Within, Reported, Source
<1>5. MergeIInv' = MergeIInv /\ AgeIInv' = AgeIInv
  BY <1>1, <1>2, <1>3 DEF MergeIInv, AgeIInv
<1>6. CutIInv' = CutIInv
  BY <1>1, <1>2, <1>4 DEF CutIInv
<1>7. ReportIInv' = ReportIInv
  BY <1>1, <1>2, <1>4, <1>6 DEF ReportIInv
<1>8. ViewIInv'
  BY <1>1, <1>5, <1>7 DEF ViewIInv, Reporting
<1>9. QED  BY <1>1, <1>2, <1>8 DEF ViewNodes, ViewEdges, ViewSent

LEMMA CountingSteps ==
    ASSUME ~MallocMayFail, PoolIInv, HopIInv, ViewIInv,
           CountHops \/ Direct \/ DirectDone \/ Explore \/ ExploreEdge \/ HopsCounted
    PROVE  ViewIInv' /\ UNCHANGED <<ViewNodes, ViewEdges, ViewSent>>
<1> DEFINE Counts == /\ pc \in {"count", "direct", "explore", "visit"}
                     /\ pc' \in {"direct", "explore", "visit", "pack"}
                     /\ pc' = "pack" => i' = 1 /\ hops' = hops
                     /\ UNCHANGED <<memory, time, buffer, sent, before>>
<1>1. CountHops => Counts
  BY DEF CountHops, OrFail
<1>2. Direct => Counts
  BY DEF Direct
<1>3. DirectDone => Counts
  BY DEF DirectDone
<1>4. Explore => Counts
  BY DEF Explore
<1>5. ExploreEdge => Counts
  BY DEF ExploreEdge
<1>6. HopsCounted => Counts
  BY DEF HopsCounted
<1>7. Counts
  BY <1>1, <1>2, <1>3, <1>4, <1>5, <1>6
<1>8. QED  BY <1>7, CountingView

(* Every step of the loops is a step of LocalView, or none.                 *)
LEMMA NextView ==
    ASSUME ~MallocMayFail, \A d \in Delays : d < UINT16,
           PoolIInv, HopIInv, ViewIInv, [Next]_vars
    PROVE  ViewIInv' /\ [View!Next]_<<ViewNodes, ViewEdges, ViewSent>>
<1>1. CASE UNCHANGED vars
  BY <1>1, StillView
<1>2. CASE \E m \in Incoming : Receive(m)
  BY <1>2, ReceiveView
<1>3. CASE \E d \in Delays : TimerExpires(d)
  BY <1>3, TimerView
<1>4. CASE Add
  BY <1>4, AddView
<1>5. CASE RemoveExpired \/ Decrease
  BY <1>5, RemoveView, LowerView
<1>6. CASE Purged
  BY <1>6, PurgedView
<1>7. CASE SkipSource \/ PackSource \/ SkipEdge \/ PackEdge \/ EndSource
  BY <1>7, SkipSourceView, PackSourceView, SkipEdgeView, PackEdgeView, EndSourceView
<1>8. CASE Serialized
  BY <1>8, SerializedView
<1>9. CASE CountHops \/ Direct \/ DirectDone \/ Explore \/ ExploreEdge \/ HopsCounted
  BY <1>9, CountingSteps
<1>10. CASE Transmit
  BY <1>10, TransmitView
<1>11. QED
  BY <1>1, <1>2, <1>3, <1>4, <1>5, <1>6, <1>7, <1>8, <1>9, <1>10 DEF Next, Step

(* What happens between two waits of the process is one step of LocalView:  *)
(* deserialize() merges the packet completely, purge() ages every edge by   *)
(* the seconds that passed and drops the orphans, and serialize() reports   *)
(* the graph within K-1 hops cut into packets, each edge once.  It takes    *)
(* that no allocation fails, and that fewer seconds pass between two purges *)
(* than the 16 bits of their difference hold.                               *)
THEOREM LoopsImplementView ==
    ASSUME ~MallocMayFail, \A d \in Delays : d < UINT16
    PROVE  Spec => Implements
<1>1. Init => PoolIInv /\ HopIInv /\ ViewIInv /\ View!Init
  BY InitPools, InitHops, InitView
<1>2. PoolIInv /\ HopIInv /\ ViewIInv /\ [Next]_vars =>
         /\ (PoolIInv /\ HopIInv /\ ViewIInv)'
         /\ [View!Next]_<<ViewNodes, ViewEdges, ViewSent>>
  BY NextPools, NextHops, NextView
<1>3. View!Spec <=> View!Init /\ [][View!Next]_<<ViewNodes, ViewEdges, ViewSent>>
  BY DEF View!Spec, ViewNodes, ViewEdges, ViewSent
<1>4. QED  BY <1>1, <1>2, <1>3, PTL DEF Spec, Implements
=============================================================================
