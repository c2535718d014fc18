----------------------------- MODULE MoteProofs -----------------------------
(***************************************************************************)
(* What the loops of a mote leave of its pools.                             *)
(***************************************************************************)
EXTENDS MemoryProofs, LocalGraphProofs

HIDE DEF Memory!Used, Memory!At

(* The calls of add_node() and add_edge() that deserialize() makes.         *)
Call == [node : Address] \cup [edge : {e \in Link : e.src # e.dst}]

(* The pools are in order, the entries are those that were told of, and the *)
(* loop of purge() ends where the array does.                               *)
PoolIInv ==
    /\ node_memory \in NodePool /\ edge_memory \in EdgePool
    /\ clock \in Nat /\ last_time \in Nat
    /\ \A e \in Edges : e.src # e.dst
    /\ pc = "receive" => todo \in Seq(Call) /\ todo # <<>>
    /\ pc = "purge" => i \in 0..bound /\ bound = edge_memory.count

-----------------------------------------------------------------------------
LEMMA InitPools == Init => PoolIInv
<1> SUFFICES ASSUME Init PROVE PoolIInv
  OBVIOUS
<1>1. MAX_NODES \in Nat /\ MAX_EDGES \in Nat /\ self \in Address
  BY CapacityAssumption DEF Address
<1>2. /\ Memory!init_graph(MAX_NODES) \in NodePool
      /\ Memory!init_graph(MAX_EDGES) \in EdgePool
      /\ Memory!Entries(Memory!init_graph(MAX_EDGES)) = {}
  BY <1>1, InitPool DEF NodePool, EdgePool, Memory!Used, Memory!Entries
<1>3. node_memory \in NodePool
  BY <1>1, <1>2, StoreNode DEF Init
<1>4. QED  BY <1>2, <1>3 DEF Init, PoolIInv, Edges

LEMMA DiffNat == ASSUME PoolIInv PROVE diff \in Nat
<1>1. UINT16 \in Nat \ {0} /\ clock \in Nat /\ last_time \in Nat
  BY MoteAssumption DEF PoolIInv
<1>2. clock % UINT16 \in Int
  BY <1>1
<1>3. (clock % UINT16) - last_time \in Int
  BY <1>1, <1>2
<1>4. QED  BY <1>1, <1>3 DEF diff

(* A step that leaves the pools alone leaves them in order.                 *)
LEMMA PoolsQuiet ==
    ASSUME PoolIInv, UNCHANGED memory, clock' \in Nat, last_time' \in Nat,
           pc' = "receive" => todo' \in Seq(Call) /\ todo' # <<>>,
           pc' = "purge" => i' \in 0..bound' /\ bound' = edge_memory.count
    PROVE  PoolIInv'
BY DEF PoolIInv, memory, Edges, Memory!Entries, Memory!At, Memory!Used

LEMMA ReceivePools == ASSUME PoolIInv, NEW m \in Incoming, Receive(m) PROVE PoolIInv'
<1> DEFINE add == [node |-> m.src]
           link == [edge |-> [src |-> m.from, dst |-> self, ttl |-> TTL]]
           nodes == [k \in DOMAIN m.drains |-> [node |-> m.drains[k].dst]]
           links == [k \in DOMAIN m.drains |-> [edge |-> m.drains[k]]]
<1>1. /\ m.from \in Address /\ m.src \in Address /\ self \in Address
      /\ \A k \in DOMAIN m.drains : m.drains[k].dst \in Address
  BY DEF Address
<1>2. /\ m.from # self /\ m.drains \in Seq(Link)
      /\ \A k \in DOMAIN m.drains : m.drains[k].src # m.drains[k].dst
  BY IncomingAssumption
<1>3. add \in Call
  BY <1>1 DEF Call
<1>4. link \in Call
  BY <1>1, <1>2, MoteAssumption DEF Call, Link
<1>5. DOMAIN m.drains = 1..Len(m.drains) /\ Len(m.drains) \in Nat
  BY <1>2
<1>6. nodes \in Seq(Call)
  BY <1>1, <1>5 DEF Call
<1>7. links \in Seq(Call)
  BY <1>2, <1>5 DEF Call
<1> HIDE DEF add, link, nodes, links
<1>8. << add, link >> \o nodes \o links \in Seq(Call)
  BY <1>3, <1>4, <1>6, <1>7
<1>9. << add, link >> \o nodes \o links # <<>>
  <2>1. Len(<< add, link >> \o nodes) = 2 + Len(nodes) /\ << add, link >> \o nodes \in Seq(Call)
    BY <1>3, <1>4, <1>6
  <2>2. Len(<< add, link >> \o nodes \o links) = 2 + Len(nodes) + Len(links)
    BY <1>7, <2>1
  <2>3. Len(nodes) \in Nat /\ Len(links) \in Nat
    BY <1>6, <1>7
  <2>4. QED  BY <2>2, <2>3
<1>10. todo' = << add, link >> \o nodes \o links
  BY DEF Receive, add, link, nodes, links
<1>11. /\ UNCHANGED <<memory, clock, last_time>> /\ pc' = "receive"
       /\ clock \in Nat /\ last_time \in Nat
  BY DEF Receive, time, PoolIInv
<1>12. QED  BY <1>8, <1>9, <1>10, <1>11, PoolsQuiet

LEMMA AddPools == ASSUME PoolIInv, Add PROVE PoolIInv'
<1>1. /\ todo \in Seq(Call) /\ todo # <<>> /\ Head(todo) \in Call
      /\ Tail(todo) \in Seq(Call)
  BY DEF PoolIInv, Add
<1>2. pc' = "receive" => todo' \in Seq(Call) /\ todo' # <<>>
  BY <1>1 DEF Add
<1>3. pc' # "purge" /\ UNCHANGED <<clock, last_time>>
  BY <1>1 DEF Add, time
<1>4. CASE /\ "node" \in DOMAIN Head(todo)
           /\ node_memory' = Memory!add_node(node_memory, Head(todo).node)
           /\ UNCHANGED edge_memory
  <2>1. Head(todo).node \in Address
    BY <1>1, <1>4 DEF Call
  <2>2. node_memory' \in NodePool
    BY <1>4, <2>1, StoreNode DEF PoolIInv
  <2>3. Edges' = Edges
    BY <1>4 DEF Edges, Memory!Entries, Memory!At, Memory!Used
  <2>4. QED  BY <1>2, <1>3, <1>4, <2>2, <2>3 DEF PoolIInv
<1>5. CASE /\ "edge" \in DOMAIN Head(todo)
           /\ edge_memory' = Memory!add_edge(node_memory, edge_memory, Head(todo).edge)
           /\ UNCHANGED node_memory
  <2> DEFINE e == Head(todo).edge
  <2>1. e \in Link /\ e.src # e.dst
    BY <1>1, <1>5 DEF Call
  <2>2. edge_memory' \in EdgePool /\ Edges' \subseteq Edges \cup {e}
    BY <1>5, <2>1, StoreEdge DEF PoolIInv, Edges
  <2>3. QED  BY <1>2, <1>3, <1>5, <2>1, <2>2 DEF PoolIInv
<1>6. QED  BY <1>4, <1>5 DEF Add

(* Without an edge a node goes, and the mote itself never does; without     *)
(* memory for the listings any other node may.                              *)
LEMMA DropOrphanPool ==
    ASSUME NEW p \in NodePool, NEW q, NEW x, NEW r \in DropOrphan(p, q, x)
    PROVE  /\ r \in NodePool
           /\ \/ Memory!Entries(r) = Memory!Entries(p)
              \/ x # self /\ Memory!Entries(r) = Memory!Entries(p) \ {x}
BY DropNode DEF DropOrphan

LEMMA EmptyListing ==
    ASSUME NEW s, NEW E, Lists(s, E)
    PROVE  s = <<>> <=> E = {}
<1>1. s \in Seq(E) /\ Len(s) \in Nat
  BY DEF Lists
<1>2. s = <<>> => E = {}
  <2>1. s = <<>> => 1..Len(s) = {}
    OBVIOUS
  <2>2. QED  BY <2>1 DEF Lists
<1>3. s # <<>> => 1 \in 1..Len(s) /\ s[1] \in E
  BY <1>1
<1>4. QED  BY <1>2, <1>3

LEMMA DropOrphanExact ==
    ASSUME ~MallocMayFail, NEW p \in NodePool, NEW q \in EdgePool, NEW x,
           NEW r \in DropOrphan(p, q, x)
    PROVE  Memory!Entries(r) =
              IF x # self /\ x \notin Endpoints(Memory!Entries(q))
              THEN Memory!Entries(p) \ {x} ELSE Memory!Entries(p)
<1> DEFINE out == Memory!get_outgoing_edges(q, x)
           in == Memory!get_ingoing_edges(q, x)
<1>1. r = IF x = self THEN p
          ELSE IF out = <<>> /\ in = <<>> THEN Memory!remove_node(p, x) ELSE p
  BY DEF DropOrphan, Outgoing, Ingoing, OrFail
<1>2. /\ out = <<>> <=> {e \in Memory!Entries(q) : e.src = x} = {}
      /\ in = <<>> <=> {e \in Memory!Entries(q) : e.dst = x} = {}
  BY Listings, EmptyListing
<1> HIDE DEF out, in
<1>3. out = <<>> /\ in = <<>> <=> x \notin Endpoints(Memory!Entries(q))
  BY <1>2 DEF Endpoints
<1>4. QED  BY <1>1, <1>3, DropNode

(* The record that purge() looks at, and what is left without it.           *)
LEMMA PurgedEdge ==
    ASSUME PoolIInv, pc = "purge", i < bound
    PROVE  LET e    == Memory!At(edge_memory, i)
               rest == Memory!remove_edge(edge_memory, e.src, e.dst)
           IN  /\ i \in Memory!Used(edge_memory) /\ e \in Edges /\ e \in Link
               /\ rest = Memory!RemoveAt(edge_memory, i)
               /\ rest \in EdgePool /\ rest.count = bound - 1
               /\ Memory!Entries(rest) = Edges \ {e}
<1>1. i \in Memory!Used(edge_memory) /\ bound = edge_memory.count
  <2>1. edge_memory.count \in Nat
    BY EdgePoolFacts DEF PoolIInv
  <2>2. QED  BY <2>1 DEF PoolIInv, Memory!Used
<1>2. QED  BY <1>1, PlaceOfEdge, DropEdge DEF PoolIInv, Edges

LEMMA RemovePools == ASSUME PoolIInv, RemoveExpired PROVE PoolIInv'
<1> DEFINE e == Memory!At(edge_memory, i)
           rest == Memory!remove_edge(edge_memory, e.src, e.dst)
<1>1. /\ rest \in EdgePool /\ rest.count = bound - 1
      /\ Memory!Entries(rest) \subseteq Edges
  BY PurgedEdge DEF RemoveExpired
<1>2. /\ edge_memory' = rest
      /\ \E p \in DropOrphan(node_memory, rest, e.src) :
            node_memory' \in DropOrphan(p, rest, e.dst)
  BY DEF RemoveExpired
<1> HIDE DEF rest, e
<1>3. node_memory' \in NodePool
  BY <1>2, DropOrphanPool DEF PoolIInv
<1>4. Edges' \subseteq Edges
  BY <1>1, <1>2 DEF Edges
<1>5. /\ bound' = bound - 1 /\ UNCHANGED <<pc, clock, last_time, i>>
      /\ pc = "purge" /\ i < bound
  BY DEF RemoveExpired, time
<1>6. edge_memory.count \in Nat
  BY EdgePoolFacts DEF PoolIInv
<1>7. i' \in 0..bound' /\ bound' = edge_memory'.count
  BY <1>1, <1>2, <1>5, <1>6 DEF PoolIInv
<1>8. QED  BY <1>1, <1>2, <1>3, <1>4, <1>5, <1>7 DEF PoolIInv

LEMMA LoweredEdge ==
    ASSUME PoolIInv, Decrease
    PROVE  LET e == Memory!At(edge_memory, i)
               f == [e EXCEPT !.ttl = @ - diff]
           IN  /\ e \in Edges /\ e \in Link /\ f \in Link /\ SameEdge(f, e)
               /\ f.ttl = e.ttl - diff /\ i \in Memory!Used(edge_memory)
               /\ edge_memory' = Memory!Overwrite(edge_memory, i, f)
<1> DEFINE e == Memory!At(edge_memory, i)
<1>1. e \in Edges /\ e \in Link /\ i \in Memory!Used(edge_memory)
  BY PurgedEdge DEF Decrease
<1>2. e.ttl > diff /\ edge_memory' = Memory!Overwrite(edge_memory, i, [e EXCEPT !.ttl = @ - diff])
  BY DEF Decrease
<1>3. diff \in Nat
  BY DiffNat
<1> HIDE DEF e
<1>4. e.ttl \in Nat /\ e.ttl - diff \in Nat
  BY <1>1, <1>2, <1>3 DEF Link
<1>5. QED  BY <1>1, <1>2, <1>4 DEF e, Link, SameEdge

LEMMA DecreasePools == ASSUME PoolIInv, Decrease PROVE PoolIInv'
<1> DEFINE e == Memory!At(edge_memory, i)
           f == [e EXCEPT !.ttl = @ - diff]
<1>1. /\ e \in Edges /\ f \in Link /\ SameEdge(f, e) /\ i \in Memory!Used(edge_memory)
      /\ edge_memory' = Memory!Overwrite(edge_memory, i, f)
  BY LoweredEdge
<1> HIDE DEF f
<1>2. /\ edge_memory' \in EdgePool /\ edge_memory'.count = edge_memory.count
      /\ Edges' = (Edges \ {e}) \cup {f}
  BY <1>1, ReplaceEdge DEF PoolIInv, Edges
<1>3. /\ i' = i + 1 /\ UNCHANGED <<pc, node_memory, clock, last_time, bound>>
      /\ pc = "purge" /\ i < bound
  BY DEF Decrease, time
<1>4. edge_memory.count \in Nat
  BY EdgePoolFacts DEF PoolIInv
<1>5. i' \in 0..bound' /\ bound' = edge_memory'.count
  BY <1>2, <1>3, <1>4 DEF PoolIInv
<1>6. \A g \in Edges' : g.src # g.dst
  BY <1>1, <1>2 DEF PoolIInv, SameEdge
<1>7. QED  BY <1>2, <1>3, <1>5, <1>6 DEF PoolIInv

LEMMA TimerPools == ASSUME PoolIInv, NEW d \in Delays, TimerExpires(d) PROVE PoolIInv'
<1>1. edge_memory.count \in Nat
  BY EdgePoolFacts DEF PoolIInv
<1>2. clock' \in Nat
  <2>1. clock + d \in Nat /\ ULONG \in Nat \ {0}
    BY MoteAssumption DEF PoolIInv
  <2>2. QED  BY <2>1 DEF TimerExpires
<1>3. QED  BY <1>1, <1>2, PoolsQuiet DEF TimerExpires, PoolIInv

(* The steps that only read the graph.                                      *)
Reading ==
    \/ Purged \/ SkipSource \/ PackSource \/ SkipEdge \/ PackEdge \/ EndSource \/ Serialized
    \/ CountHops \/ Direct \/ DirectDone \/ Explore \/ ExploreEdge \/ HopsCounted \/ Transmit

LEMMA ReadingQuiet ==
    ASSUME Reading
    PROVE  /\ UNCHANGED <<memory, clock>> /\ last_time' \in {last_time, clock}
           /\ pc \notin {"receive", "idle"} /\ pc' \notin {"receive", "purge"}
<1>1. CASE Purged
  BY <1>1 DEF Purged, StartReport
<1>2. CASE SkipSource
  BY <1>2 DEF SkipSource, NextSource, time
<1>3. CASE PackSource
  BY <1>3 DEF PackSource, time
<1>4. CASE SkipEdge \/ PackEdge
  BY <1>4 DEF SkipEdge, PackEdge, time
<1>5. CASE EndSource
  BY <1>5 DEF EndSource, NextSource, time
<1>6. CASE Serialized \/ Transmit
  BY <1>6 DEF Serialized, Transmit, time
<1>7. CASE CountHops
  BY <1>7 DEF CountHops, OrFail, time
<1>8. CASE Direct \/ DirectDone
  BY <1>8 DEF Direct, DirectDone, time
<1>9. CASE Explore \/ HopsCounted
  BY <1>9 DEF Explore, HopsCounted, time
<1>10. CASE ExploreEdge
  BY <1>10 DEF ExploreEdge, time
<1>11. QED
  BY <1>1, <1>2, <1>3, <1>4, <1>5, <1>6, <1>7, <1>8, <1>9, <1>10 DEF Reading

LEMMA NextPools == ASSUME PoolIInv, [Next]_vars PROVE PoolIInv'
<1>1. CASE Reading
  BY <1>1, ReadingQuiet, PoolsQuiet DEF PoolIInv
<1>2. CASE UNCHANGED vars
  BY <1>2, PoolsQuiet DEF vars, memory, PoolIInv
<1>3. QED
  BY <1>1, <1>2, ReceivePools, AddPools, RemovePools, DecreasePools, TimerPools
  DEF Next, Step, Reading

THEOREM PoolsHold == Spec => []PoolIInv
BY InitPools, NextPools, PTL DEF Spec

(* However many nodes and edges come and go and whichever allocation fails, *)
(* the pointers of a pool stay in order: no entry is lost or pointed to     *)
(* twice, and none of the places that the loops visit is NULL.              *)
THEOREM PointersInOrder == Spec => []PoolsConsistent
<1>1. PoolIInv => PoolsConsistent
  BY DEF PoolIInv, PoolsConsistent, NodePool, EdgePool, Pool
<1>2. QED  BY <1>1, PoolsHold, PTL

-----------------------------------------------------------------------------
(* The array of hop counts, as long as every allocation succeeds: nodes of  *)
(* the graph other than the mote, each once, each with its distance, the    *)
(* nearer ones first.                                                       *)
Ranked(s, E, N) ==
    /\ s \in Seq([addr : N \ {self}, hop_count : Nat])
    /\ \A j, k \in DOMAIN s : s[j].addr = s[k].addr => j = k
    /\ \A k \in DOMAIN s :
          /\ s[k].hop_count \in 1..k
          /\ s[k].addr \in AtHop(WithinHops(E, self, MAX_NODES), s[k].hop_count)
    /\ \A j, k \in DOMAIN s : j <= k => s[j].hop_count <= s[k].hop_count

Listed(s) == {s[k].addr : k \in DOMAIN s}

(* All neighbours of x are in the array.                                    *)
Covered(s, E, x) == Adjacent(E, {x}) \subseteq Listed(s) \cup {self}

(* Different nodes other than the mote: there are fewer than in the pool.   *)
LEMMA FewerThanNodes ==
    ASSUME NEW p \in NodePool, self \in Memory!Entries(p), NEW s,
           s \in Seq([addr : Memory!Entries(p) \ {self}, hop_count : Nat]),
           \A j, k \in DOMAIN s : s[j].addr = s[k].addr => j = k
    PROVE  Len(s) < p.count /\ p.count <= MAX_NODES
<1> DEFINE N == Memory!Entries(p)
           f == [k \in 1..Len(s) |-> s[k].addr]
<1>1. IsFiniteSet(N) /\ Cardinality(N) = p.count /\ p.count \in 0..MAX_NODES
  BY NodePoolFacts
<1>2. Len(s) \in Nat /\ DOMAIN s = 1..Len(s) /\ \A k \in 1..Len(s) : s[k].addr \in N \ {self}
  <2> DEFINE Entry == [addr : N \ {self}, hop_count : Nat]
  <2>1. s \in Seq(Entry)
    OBVIOUS
  <2> HIDE DEF Entry
  <2>2. Len(s) \in Nat /\ DOMAIN s = 1..Len(s) /\ \A k \in 1..Len(s) : s[k] \in Entry
    BY <2>1
  <2>3. QED  BY <2>2 DEF Entry
<1> HIDE DEF N
<1>3. IsFiniteSet(N \ {self}) /\ Cardinality(N \ {self}) = p.count - 1
  BY <1>1, FS_RemoveElement DEF N
<1>4. f \in Injection(1..Len(s), N \ {self})
  BY <1>2 DEF Injection, IsInjective
<1> HIDE DEF f
<1>5. Cardinality(1..Len(s)) <= p.count - 1
  BY <1>3, <1>4, FS_Injection
<1>6. Cardinality(1..Len(s)) = Len(s)
  <2>1. 1 \in Int /\ Len(s) \in Int
    BY <1>2
  <2>2. Cardinality(1..Len(s)) = IF 1 > Len(s) THEN 0 ELSE Len(s)-1+1
    BY ONLY <2>1, FS_Interval
  <2>3. QED  BY <1>2, <2>2
<1>7. MAX_NODES \in Nat
  BY CapacityAssumption
<1>8. QED  BY <1>1, <1>2, <1>5, <1>6, <1>7

(* Distances: what is within h hops is within more, and no node has two.    *)
LEMMA HopCounts ==
    ASSUME NEW E, NEW max \in Nat
    PROVE  LET W == WithinHops(E, self, max)
           IN  /\ W[0] = {self}
               /\ \A h \in 1..max : W[h] = W[h-1] \cup Adjacent(E, W[h-1])
               /\ \A g, h \in 0..max : g <= h => W[g] \subseteq W[h]
               /\ \A h \in 1..max : \A x : x \in AtHop(W, h) =>
                     x \in W[h] /\ x \notin W[h-1] /\ x # self
               /\ \A g \in 1..max, h \in 0..max : \A x : x \in AtHop(W, g) /\ x \in W[h] => g <= h
<1> DEFINE W == WithinHops(E, self, max)
<1>1. W[0] = {self} /\ \A h \in 1..max : W[h] = W[h-1] \cup Adjacent(E, W[h-1])
  BY WithinHopsValues
<1>2. \A g, h \in 0..max : g <= h => W[g] \subseteq W[h]
  BY HopsGrow
<1> HIDE DEF W
<1>3. ASSUME NEW h \in 1..max, NEW x, x \in AtHop(W, h)
      PROVE  x \in W[h] /\ x \notin W[h-1] /\ x # self
  <2>1. x \in W[h] /\ x \notin W[h-1]
    BY <1>3 DEF AtHop
  <2>2. self \in W[h-1]
    BY <1>1, <1>2
  <2>3. QED  BY <2>1, <2>2
<1>4. ASSUME NEW g \in 1..max, NEW h \in 0..max, NEW x, x \in AtHop(W, g), x \in W[h]
      PROVE  g <= h
  <2>1. x \notin W[g-1] /\ g-1 \in 0..max
    BY <1>3, <1>4
  <2>2. ~(h <= g-1)
    BY <1>2, <1>4, <2>1
  <2>3. QED  BY <2>2
<1>5. QED  BY <1>1, <1>2, <1>3, <1>4 DEF W

(* When the neighbours of the mote and of the entries before place i are in *)
(* the array, so are all nodes no farther away than the entry at i.         *)
LEMMA Frontier ==
    ASSUME NEW E, NEW N, NEW s, Ranked(s, E, N), Len(s) <= MAX_NODES,
           NEW d \in 0..MAX_NODES, Covered(s, E, self),
           \A k \in DOMAIN s : s[k].hop_count < d => Covered(s, E, s[k].addr)
    PROVE  WithinHops(E, self, MAX_NODES)[d] \subseteq Listed(s) \cup {self}
<1> DEFINE W == WithinHops(E, self, MAX_NODES)
           S == {h \in 0..d : W[h] \subseteq Listed(s) \cup {self}}
<1>1. MAX_NODES \in Nat
  BY CapacityAssumption
<1>2. /\ W[0] = {self}
      /\ \A h \in 1..MAX_NODES : W[h] = W[h-1] \cup Adjacent(E, W[h-1])
      /\ \A g \in 1..MAX_NODES, h \in 0..MAX_NODES : \A x :
            x \in AtHop(W, g) /\ x \in W[h] => g <= h
  BY <1>1, HopCounts
<1>3. \A k \in DOMAIN s : s[k].hop_count \in 1..MAX_NODES /\ s[k].addr \in AtHop(W, s[k].hop_count)
  BY <1>1 DEF Ranked
<1> HIDE DEF W
<1>4. 0 \in S
  BY <1>2
<1>5. ASSUME NEW h \in 0..d-1, h \in S PROVE h + 1 \in S
  <2>1. /\ h+1 \in 1..MAX_NODES /\ (h+1)-1 = h /\ h+1 \in 0..d /\ h \in 0..MAX_NODES
        /\ W[h] \subseteq Listed(s) \cup {self}
    BY <1>1, <1>5
  <2>2. W[h+1] = W[h] \cup Adjacent(E, W[h])
    BY <1>2, <2>1
  <2>3. ASSUME NEW x \in W[h] PROVE Covered(s, E, x)
    <3>1. CASE x # self
      <4>1. PICK k \in DOMAIN s : s[k].addr = x
        BY <2>1, <2>3, <3>1 DEF Listed
      <4>2. s[k].hop_count <= h
        BY <1>2, <1>3, <2>1, <4>1
      <4>3. s[k].hop_count < d
        BY <1>3, <4>2
      <4>4. QED  BY <4>1, <4>3
    <3>2. QED  BY <3>1
  <2>4. \A y \in Adjacent(E, W[h]) : \E x \in W[h] : y \in Adjacent(E, {x})
    BY DEF Adjacent
  <2>5. Adjacent(E, W[h]) \subseteq Listed(s) \cup {self}
    BY <2>3, <2>4 DEF Covered
  <2>6. QED  BY <2>1, <2>2, <2>5
<1>6. 0..d \subseteq S
  <2> HIDE DEF S
  <2>1. d \in Nat
    BY <1>1
  <2>2. QED  BY <1>4, <1>5, <2>1, UpTo
<1>7. QED  BY <1>6 DEF W

(* A new entry at the end keeps the order if it is a neighbour of an entry  *)
(* (or of the mote), is not in the array yet, and all nearer nodes are.     *)
LEMMA AppendRanked ==
    ASSUME NEW E, NEW N, NEW s, Ranked(s, E, N), NEW h \in Nat,
           NEW x \in N, x # self, x \notin Listed(s),
           h + 1 <= Len(s) + 1, Len(s) < MAX_NODES,
           x \in Adjacent(E, WithinHops(E, self, MAX_NODES)[h]),
           WithinHops(E, self, MAX_NODES)[h] \subseteq Listed(s) \cup {self},
           \A k \in DOMAIN s : s[k].hop_count <= h + 1
    PROVE  LET t == Append(s, [addr |-> x, hop_count |-> h + 1])
           IN  /\ Ranked(t, E, N) /\ Listed(t) = Listed(s) \cup {x} /\ Len(t) = Len(s) + 1
               /\ \A k \in DOMAIN s : k \in DOMAIN t /\ t[k] = s[k]
               /\ \A k \in DOMAIN t : k \in DOMAIN s \/ t[k].hop_count = h + 1
<1> DEFINE new == [addr |-> x, hop_count |-> h + 1]
           t == Append(s, new)
           L == Len(s)
           W == WithinHops(E, self, MAX_NODES)
           Entry == [addr : N \ {self}, hop_count : Nat]
<1>1. MAX_NODES \in Nat
  BY CapacityAssumption
<1>2. /\ s \in Seq(Entry) /\ L \in Nat /\ DOMAIN s = 1..L
      /\ \A k \in 1..L : s[k].hop_count \in 1..k
      /\ \A k \in 1..L : s[k].addr \in AtHop(W, s[k].hop_count)
      /\ \A j, k \in 1..L : s[j].addr = s[k].addr => j = k
      /\ \A j, k \in 1..L : j <= k => s[j].hop_count <= s[k].hop_count
  <2>1. /\ s \in Seq(Entry) /\ \A k \in DOMAIN s : s[k].hop_count \in 1..k
        /\ \A k \in DOMAIN s : s[k].addr \in AtHop(W, s[k].hop_count)
        /\ \A j, k \in DOMAIN s : s[j].addr = s[k].addr => j = k
        /\ \A j, k \in DOMAIN s : j <= k => s[j].hop_count <= s[k].hop_count
    BY DEF Ranked
  <2>2. L \in Nat /\ DOMAIN s = 1..L
    BY <2>1
  <2> HIDE DEF L, W, Entry
  <2>3. QED  BY <2>1, <2>2
<1>3. new \in Entry /\ new.addr = x /\ new.hop_count = h + 1
  OBVIOUS
<1> HIDE DEF Entry, new, L, W
<1>4. /\ t \in Seq(Entry) /\ Len(t) = L + 1 /\ DOMAIN t = 1..L+1
      /\ t[L+1] = new /\ \A k \in 1..L : t[k] = s[k]
  BY <1>2, <1>3 DEF L
<1> HIDE DEF t
<1>5. /\ L + 1 \in 1..L+1 /\ \A k \in 1..L : k \in 1..L+1 /\ k # L + 1 /\ k <= L
      /\ \A k \in 1..L+1 : k \in 1..L \/ k = L + 1
  BY <1>2
<1>6. Listed(t) = Listed(s) \cup {x}
  BY <1>2, <1>3, <1>4, <1>5 DEF Listed
<1>7. x \in AtHop(W, h + 1)
  <2>1. h + 1 \in 1..MAX_NODES /\ (h + 1) - 1 = h /\ h + 1 # 0
    BY <1>1, <1>2 DEF L
  <2>2. W[h+1] = W[h] \cup Adjacent(E, W[h])
    BY <1>1, <2>1, HopCounts DEF W
  <2>3. x \in W[h+1] /\ x \notin W[h]
    BY <2>2 DEF W
  <2>4. QED  BY <2>1, <2>3 DEF AtHop
<1>8. \A j, k \in 1..L+1 : t[j].addr = t[k].addr => j = k
  <2>1. \A k \in 1..L : t[k].addr # x
    BY <1>2, <1>4 DEF Listed
  <2>2. QED  BY <1>2, <1>3, <1>4, <1>5, <2>1
<1>9. ASSUME NEW k \in 1..L+1
      PROVE  t[k].hop_count \in 1..k /\ t[k].addr \in AtHop(W, t[k].hop_count)
  <2>1. CASE k \in 1..L
    BY <1>2, <1>4, <2>1
  <2>2. CASE k = L + 1
    <3>1. h + 1 \in 1..L+1
      BY <1>2 DEF L
    <3>2. QED  BY <1>3, <1>4, <1>7, <2>2, <3>1
  <2>3. QED  BY <1>5, <2>1, <2>2
<1>10. ASSUME NEW j \in 1..L+1, NEW k \in 1..L+1, j <= k
       PROVE  t[j].hop_count <= t[k].hop_count
  <2>1. CASE k \in 1..L
    <3>1. j \in 1..L
      BY <1>2, <1>10, <2>1
    <3>2. QED  BY <1>2, <1>4, <1>10, <2>1, <3>1
  <2>2. CASE k = L + 1
    BY <1>2, <1>3, <1>4, <1>5, <2>2
  <2>3. QED  BY <1>5, <2>1, <2>2
<1>11. Ranked(t, E, N)
  BY <1>4, <1>8, <1>9, <1>10 DEF Ranked, Entry, W
<1>12. QED  BY <1>2, <1>3, <1>4, <1>5, <1>6, <1>11 DEF t, new, L

(* A sequence and its head and tail.                                        *)
Elements(s) == {s[k] : k \in DOMAIN s}

LEMMA HeadAndTail ==
    ASSUME NEW X, NEW s \in Seq(X), s # <<>>
    PROVE  /\ Head(s) \in X /\ Tail(s) \in Seq(X) /\ Len(Tail(s)) = Len(s) - 1
           /\ Head(s) \in Elements(s)
           /\ Elements(s) = {Head(s)} \cup Elements(Tail(s))
<1> DEFINE t == Tail(s)
           L == Len(s)
<1>1. /\ Head(s) \in X /\ t \in Seq(X) /\ L \in Nat /\ L >= 1
      /\ DOMAIN s = 1..L /\ Head(s) = s[1]
      /\ Len(t) = L - 1 /\ DOMAIN t = 1..L-1
      /\ \A k \in 1..L-1 : t[k] = s[k+1]
  OBVIOUS
<1> HIDE DEF t, L
<1>2. /\ 1 \in 1..L
      /\ \A k \in 1..L-1 : k+1 \in 1..L
      /\ \A k \in 1..L : k = 1 \/ (k-1 \in 1..L-1 /\ (k-1)+1 = k)
  BY <1>1
<1>3. Elements(t) = {s[k+1] : k \in 1..L-1}
  BY <1>1 DEF Elements
<1>4. \A k \in 1..L : s[k] \in {s[1]} \cup Elements(t)
  BY <1>2, <1>3
<1>5. /\ Elements(s) = {s[k] : k \in 1..L}
      /\ \A k \in 1..L-1 : s[k+1] \in {s[j] : j \in 1..L}
  BY <1>1, <1>2 DEF Elements
<1>6. Elements(s) = {s[1]} \cup Elements(t)
  BY <1>2, <1>3, <1>4, <1>5
<1>7. QED  BY <1>1, <1>6 DEF t, L

LEMMA ElementsOf ==
    ASSUME NEW E, NEW s, Lists(s, E)
    PROVE  s \in Seq(E) /\ Elements(s) = E
<1>1. s \in Seq(E) /\ DOMAIN s = 1..Len(s) /\ \A k \in 1..Len(s) : s[k] \in E
  BY DEF Lists
<1>2. QED  BY <1>1 DEF Lists, Elements

(* Every edge looked at has its other end in the array.                     *)
DirectIInv ==
    /\ todo \in Seq(Edges)
    /\ \A k \in DOMAIN hops : hops[k].hop_count = 1
    /\ \A e \in Edges \ Elements(todo) :
          /\ e.src = self => e.dst \in Listed(hops)
          /\ e.dst = self => e.src \in Listed(hops)

(* The neighbours of the entries before place i are in the array, and what  *)
(* follows is at most one hop farther away than the entry at i.             *)
ExploreIInv ==
    /\ i \in 1..Len(hops)+1
    /\ Covered(hops, Edges, self)
    /\ \A k \in 1..i-1 : Covered(hops, Edges, hops[k].addr)
    /\ i <= Len(hops) => \A k \in DOMAIN hops : hops[k].hop_count <= hops[i].hop_count + 1

(* The neighbours of the entry at i are in the array or still to come.      *)
VisitIInv ==
    /\ i <= Len(hops)
    /\ todo \in Seq(Nodes) /\ todo # <<>>
    /\ Elements(todo) \subseteq Adjacent(Edges, {hops[i].addr})
    /\ Adjacent(Edges, {hops[i].addr}) \subseteq Listed(hops) \cup {self} \cup Elements(todo)

(* The graph has both ends of every edge, and in every loop the array is    *)
(* right as far as it has got.                                              *)
HopIInv ==
    /\ self \in Nodes /\ Endpoints(Edges) \subseteq Nodes
    /\ Ranked(hops, Edges, Nodes)
    /\ pc \in {"idle", "receive", "purge", "count", "sent"} => hops = <<>>
    /\ pc \in {"pack", "edges"} =>
          /\ i \in Nat
          /\ IF i = 0 THEN hops = <<>>
             ELSE \A x \in Listed(hops) \cup {self} : Covered(hops, Edges, x)
    /\ pc = "direct" => DirectIInv
    /\ pc \in {"explore", "visit"} => ExploreIInv
    /\ pc = "visit" => VisitIInv

-----------------------------------------------------------------------------
LEMMA NothingRanked ==
    ASSUME NEW E, NEW N
    PROVE  Ranked(<<>>, E, N) /\ Listed(<<>>) = {}
BY DEF Ranked, Listed

(* The pool holds more nodes than the array entries.                        *)
LEMMA RankedFits ==
    ASSUME PoolIInv, self \in Nodes, NEW E, NEW s, Ranked(s, E, Nodes)
    PROVE  /\ Len(s) \in Nat /\ DOMAIN s = 1..Len(s)
           /\ Len(s) < node_memory.count /\ node_memory.count <= MAX_NODES
           /\ node_memory.count \in Nat /\ MAX_NODES \in Nat
           /\ Len(s) < MAX_NODES
           /\ \A k \in DOMAIN s : s[k].addr \in Nodes \ {self} /\ s[k].hop_count \in 1..k
<1>1. node_memory \in NodePool /\ Nodes = Memory!Entries(node_memory)
  BY DEF PoolIInv, Nodes
<1>2. /\ s \in Seq([addr : Nodes \ {self}, hop_count : Nat])
      /\ \A j, k \in DOMAIN s : s[j].addr = s[k].addr => j = k
      /\ \A k \in DOMAIN s : s[k].hop_count \in 1..k
  BY DEF Ranked
<1>3. Len(s) < node_memory.count /\ node_memory.count <= MAX_NODES
  BY <1>1, <1>2, FewerThanNodes
<1>4. node_memory.count \in Nat /\ MAX_NODES \in Nat
  BY <1>1, NodePoolFacts
<1> DEFINE Entry == [addr : Nodes \ {self}, hop_count : Nat]
<1>5. s \in Seq(Entry)
  BY <1>2
<1> HIDE DEF Entry
<1>6. Len(s) \in Nat /\ DOMAIN s = 1..Len(s) /\ \A k \in DOMAIN s : s[k] \in Entry
  BY <1>5
<1>7. \A k \in DOMAIN s : s[k].addr \in Nodes \ {self}
  BY <1>6 DEF Entry
<1>8. QED  BY <1>2, <1>3, <1>4, <1>6, <1>7

LEMMA SameGraph ==
    ASSUME UNCHANGED memory
    PROVE  Nodes' = Nodes /\ Edges' = Edges
BY DEF memory, Nodes, Edges, Memory!Entries, Memory!At, Memory!Used

LEMMA InitHops == Init => HopIInv
<1> SUFFICES ASSUME Init PROVE HopIInv
  OBVIOUS
<1>1. MAX_NODES \in Nat /\ MAX_EDGES \in Nat /\ self \in Address
  BY CapacityAssumption DEF Address
<1>2. /\ Memory!init_graph(MAX_NODES) \in NodePool
      /\ Memory!init_graph(MAX_NODES).count = 0 /\ MAX_NODES > 0
      /\ Memory!Entries(Memory!init_graph(MAX_EDGES)) = {}
  BY <1>1, CapacityAssumption, InitPool DEF NodePool, EdgePool, Memory!Used, Memory!Entries
<1>3. self \in Nodes
  BY <1>1, <1>2, StoreNode DEF Init, Nodes
<1>4. Edges = {}
  BY <1>2 DEF Init, Edges
<1>5. QED  BY <1>3, <1>4, NothingRanked DEF Init, HopIInv, Endpoints

(* The steps that change the graph: an edge comes only with both its ends,  *)
(* and a node goes only with its last edge.                                 *)
LEMMA GrowClosed ==
    ASSUME PoolIInv, HopIInv, Add
    PROVE  self \in Nodes' /\ Endpoints(Edges)' \subseteq Nodes'
<1>1. self \in Nodes /\ Endpoints(Edges) \subseteq Nodes
  BY DEF HopIInv
<1>2. todo \in Seq(Call) /\ todo # <<>> /\ Head(todo) \in Call
  BY DEF PoolIInv, Add
<1>3. CASE /\ "node" \in DOMAIN Head(todo)
           /\ node_memory' = Memory!add_node(node_memory, Head(todo).node)
           /\ UNCHANGED edge_memory
  <2>1. Head(todo).node \in Address
    BY <1>2, <1>3 DEF Call
  <2>2. Nodes \subseteq Nodes'
    BY <1>3, <2>1, StoreNode DEF PoolIInv, Nodes
  <2>3. Edges' = Edges
    BY <1>3 DEF Edges, Memory!Entries, Memory!At, Memory!Used
  <2>4. QED  BY <1>1, <2>2, <2>3
<1>4. CASE /\ "edge" \in DOMAIN Head(todo)
           /\ edge_memory' = Memory!add_edge(node_memory, edge_memory, Head(todo).edge)
           /\ UNCHANGED node_memory
  <2> DEFINE e == Head(todo).edge
  <2>1. e \in Link
    BY <1>2, <1>4 DEF Call
  <2> HIDE DEF e
  <2>2. \/ Edges' = Edges
        \/ find_edge(Edges, e) # {} /\ Edges' \subseteq Edges \cup {e}
        \/ e.src \in Nodes /\ e.dst \in Nodes /\ Edges' = Edges \cup {e}
    BY <1>4, <2>1, StoreEdge DEF PoolIInv, Edges, Nodes, e
  <2>3. find_edge(Edges, e) # {} => e.src \in Endpoints(Edges) /\ e.dst \in Endpoints(Edges)
    BY DEF find_edge, SameEdge, Endpoints
  <2>4. Endpoints(Edges)' \subseteq Nodes
    BY <1>1, <2>2, <2>3 DEF Endpoints
  <2>5. Nodes' = Nodes
    BY <1>4 DEF Nodes, Memory!Entries, Memory!At, Memory!Used
  <2>6. QED  BY <1>1, <2>4, <2>5
<1>5. QED  BY <1>3, <1>4 DEF Add

LEMMA RemoveClosed ==
    ASSUME ~MallocMayFail, PoolIInv, HopIInv, RemoveExpired
    PROVE  LET e == Memory!At(edge_memory, i)
           IN  /\ Edges' = Edges \ {e}
               /\ Nodes' = Nodes \ (({e.src, e.dst} \ {self}) \ Endpoints(Edges'))
               /\ self \in Nodes' /\ Endpoints(Edges)' \subseteq Nodes'
<1> DEFINE e == Memory!At(edge_memory, i)
           rest == Memory!remove_edge(edge_memory, e.src, e.dst)
<1>1. rest \in EdgePool /\ Memory!Entries(rest) = Edges \ {e} /\ e \in Edges
  BY PurgedEdge DEF RemoveExpired
<1>2. /\ edge_memory' = rest
      /\ \E p \in DropOrphan(node_memory, rest, e.src) :
            node_memory' \in DropOrphan(p, rest, e.dst)
  BY DEF RemoveExpired
<1>3. self \in Nodes /\ Endpoints(Edges) \subseteq Nodes
  BY DEF HopIInv
<1> HIDE DEF rest, e
<1>4. Edges' = Edges \ {e}
  BY <1>1, <1>2 DEF Edges
<1>5. PICK p \in DropOrphan(node_memory, rest, e.src) :
             node_memory' \in DropOrphan(p, rest, e.dst)
  BY <1>2
<1>6. /\ p \in NodePool
      /\ Memory!Entries(p) = IF e.src # self /\ e.src \notin Endpoints(Edges')
                             THEN Nodes \ {e.src} ELSE Nodes
  <2>1. node_memory \in NodePool /\ Memory!Entries(rest) = Edges'
    BY <1>1, <1>4 DEF PoolIInv
  <2>2. p \in NodePool
    BY <2>1, DropOrphanPool
  <2>3. Memory!Entries(p) =
           IF e.src # self /\ e.src \notin Endpoints(Memory!Entries(rest))
           THEN Memory!Entries(node_memory) \ {e.src} ELSE Memory!Entries(node_memory)
    BY <1>1, <2>1, DropOrphanExact
  <2>4. QED  BY <2>1, <2>2, <2>3 DEF Nodes
<1>7. Nodes' = IF e.dst # self /\ e.dst \notin Endpoints(Edges')
               THEN Memory!Entries(p) \ {e.dst} ELSE Memory!Entries(p)
  <2>1. Memory!Entries(rest) = Edges' /\ rest \in EdgePool /\ p \in NodePool
    BY <1>1, <1>4, <1>6
  <2>2. node_memory' \in DropOrphan(p, rest, e.dst)
    BY <1>5
  <2>3. Memory!Entries(node_memory') =
           IF e.dst # self /\ e.dst \notin Endpoints(Memory!Entries(rest))
           THEN Memory!Entries(p) \ {e.dst} ELSE Memory!Entries(p)
    BY <2>1, <2>2, DropOrphanExact
  <2>4. QED  BY <2>1, <2>3 DEF Nodes
<1>8. Nodes' = Nodes \ (({e.src, e.dst} \ {self}) \ Endpoints(Edges'))
  BY <1>6, <1>7
<1>9. Endpoints(Edges') \subseteq Endpoints(Edges)
  BY <1>4 DEF Endpoints
<1>10. QED  BY <1>3, <1>4, <1>8, <1>9 DEF e

LEMMA LowerClosed ==
    ASSUME PoolIInv, HopIInv, Decrease
    PROVE  self \in Nodes' /\ Endpoints(Edges)' \subseteq Nodes'
<1> DEFINE e == Memory!At(edge_memory, i)
           f == [e EXCEPT !.ttl = @ - diff]
<1>1. /\ e \in Edges /\ f \in Link /\ SameEdge(f, e) /\ i \in Memory!Used(edge_memory)
      /\ edge_memory' = Memory!Overwrite(edge_memory, i, f)
  BY LoweredEdge
<1> HIDE DEF f
<1>2. Edges' = (Edges \ {e}) \cup {f}
  BY <1>1, ReplaceEdge DEF PoolIInv, Edges
<1>3. Nodes' = Nodes
  BY DEF Decrease, Nodes, Memory!Entries, Memory!At, Memory!Used
<1>4. Endpoints(Edges)' \subseteq Endpoints(Edges)
  BY <1>1, <1>2 DEF Endpoints, SameEdge
<1>5. QED  BY <1>3, <1>4 DEF HopIInv

(* While the graph changes there is no array.                               *)
LEMMA ChangingHops ==
    ASSUME ~MallocMayFail, PoolIInv, HopIInv,
           \/ \E m \in Incoming : Receive(m)
           \/ \E d \in Delays : TimerExpires(d)
           \/ Add \/ RemoveExpired \/ Decrease
    PROVE  HopIInv'
<1>1. /\ pc \in {"idle", "receive", "purge"} /\ pc' \in {"idle", "receive", "purge"}
      /\ hops' = hops
  BY DEF Receive, TimerExpires, Add, RemoveExpired, Decrease, PoolIInv
<1>2. hops' = <<>>
  BY <1>1 DEF HopIInv
<1>3. self \in Nodes' /\ Endpoints(Edges)' \subseteq Nodes'
  <2>1. CASE (\E m \in Incoming : Receive(m)) \/ (\E d \in Delays : TimerExpires(d))
    BY <2>1, SameGraph DEF Receive, TimerExpires, HopIInv
  <2>2. QED  BY <2>1, GrowClosed, RemoveClosed, LowerClosed
<1>4. QED  BY <1>1, <1>2, <1>3, NothingRanked DEF HopIInv

(* Once the array is complete it stays until the report is.                 *)
LEMMA PackingHops ==
    ASSUME PoolIInv, HopIInv,
           \/ Purged \/ SkipSource \/ PackSource \/ SkipEdge \/ PackEdge
           \/ EndSource \/ Serialized \/ Transmit
    PROVE  HopIInv'
<1>1. UNCHANGED memory /\ Nodes' = Nodes /\ Edges' = Edges
  <2>1. UNCHANGED memory
    BY ReadingQuiet DEF Reading
  <2>2. QED  BY <2>1, SameGraph
<1>2. CASE Purged \/ Serialized \/ Transmit
  <2>1. hops' = <<>> \/ (hops' = hops /\ (hops = <<>>))
    BY <1>2 DEF Purged, StartReport, Serialized, Transmit, HopIInv
  <2>2. pc' \in {"sent", "idle"} \/ (pc' = "pack" /\ i' = 0)
    BY <1>2 DEF Purged, StartReport, Serialized, Transmit
  <2>3. QED  BY <1>1, <2>1, <2>2, NothingRanked DEF HopIInv
<1>3. CASE SkipSource \/ PackSource \/ SkipEdge \/ PackEdge \/ EndSource
  <2>1. /\ pc \in {"pack", "edges"} /\ hops' = hops
        /\ \/ pc' \in {"pack", "edges"} /\ i' = i
           \/ pc' = "count" /\ i = 0
           \/ pc' \in {"pack", "edges"} /\ i' = i + 1 /\ i # 0
    BY <1>3 DEF SkipSource, PackSource, SkipEdge, PackEdge, EndSource, NextSource
  <2>2. i \in Nat /\ IF i = 0 THEN hops = <<>>
                     ELSE \A x \in Listed(hops) \cup {self} : Covered(hops, Edges, x)
    BY <2>1 DEF HopIInv
  <2>3. QED  BY <1>1, <2>1, <2>2 DEF HopIInv
<1>4. QED  BY <1>2, <1>3

(* The start of get_hop_counts().                                           *)
LEMMA CountHopsHops == ASSUME ~MallocMayFail, PoolIInv, HopIInv, CountHops PROVE HopIInv'
<1>1. UNCHANGED memory /\ Nodes' = Nodes /\ Edges' = Edges
  BY SameGraph DEF CountHops
<1>2. hops = <<>> /\ hops' = <<>> /\ self \in Nodes /\ Endpoints(Edges) \subseteq Nodes
  BY DEF CountHops, HopIInv
<1>3. Lists(Memory!Listing(edge_memory), Edges)
  BY Listings DEF PoolIInv, Edges
<1>4. CASE node_memory.count <= 1 \/ edge_memory.count = 0
  <2>1. pc' = "pack" /\ i' = 1
    BY <1>4 DEF CountHops
  <2>2. Covered(<<>>, Edges, self)
    <3>1. CASE node_memory.count <= 1
      <4>1. ASSUME NEW x \in Nodes, x # self PROVE FALSE
        <5> DEFINE s == << [addr |-> x, hop_count |-> 1] >>
        <5>1. [addr |-> x, hop_count |-> 1] \in [addr : Nodes \ {self}, hop_count : Nat]
          BY <4>1
        <5>2. s \in Seq([addr : Nodes \ {self}, hop_count : Nat]) /\ Len(s) = 1 /\ DOMAIN s = {1}
          BY <5>1
        <5> HIDE DEF s
        <5>3. Len(s) < node_memory.count
          BY <1>2, <5>2, FewerThanNodes DEF PoolIInv, Nodes
        <5>4. node_memory.count \in Nat
          BY NodePoolFacts DEF PoolIInv
        <5>5. QED  BY <3>1, <5>2, <5>3, <5>4
      <4>2. Adjacent(Edges, {self}) \subseteq Endpoints(Edges)
        BY DEF Adjacent, Endpoints
      <4>3. QED  BY <1>2, <4>1, <4>2 DEF Covered
    <3>2. CASE edge_memory.count = 0
      <4>1. Edges = {}
        BY <3>2 DEF Edges, Memory!Entries, Memory!Used
      <4>2. QED  BY <4>1 DEF Covered, Adjacent
    <3>3. QED  BY <1>4, <3>1, <3>2
  <2>3. QED  BY <1>1, <1>2, <2>1, <2>2, NothingRanked DEF HopIInv
<1>5. CASE ~(node_memory.count <= 1 \/ edge_memory.count = 0)
  <2>1. pc' = "direct" /\ todo' = Memory!Listing(edge_memory)
    BY <1>5 DEF CountHops, OrFail
  <2>2. todo' \in Seq(Edges) /\ Elements(todo') = Edges
    BY <1>3, <2>1, ElementsOf
  <2>3. DirectIInv'
    BY <1>1, <1>2, <2>2 DEF DirectIInv
  <2>4. QED  BY <1>1, <1>2, <2>1, <2>3, NothingRanked DEF HopIInv
<1>6. QED  BY <1>4, <1>5

(* A neighbour of a node h hops away is visited.                            *)
LEMMA VisitHops ==
    ASSUME PoolIInv, self \in Nodes, Ranked(hops, Edges, Nodes),
           NEW x \in Nodes, x # self, NEW h \in Nat, h <= Len(hops),
           x \in Adjacent(Edges, WithinHops(Edges, self, MAX_NODES)[h]),
           WithinHops(Edges, self, MAX_NODES)[h] \subseteq Listed(hops) \cup {self},
           \A k \in DOMAIN hops : hops[k].hop_count <= h + 1,
           Visit(x, h + 1)
    PROVE  /\ Ranked(hops', Edges, Nodes) /\ Listed(hops') = Listed(hops) \cup {x}
           /\ Len(hops) <= Len(hops')
           /\ \A k \in DOMAIN hops : k \in DOMAIN hops' /\ hops'[k] = hops[k]
           /\ \A k \in DOMAIN hops' : k \in DOMAIN hops \/ hops'[k].hop_count = h + 1
<1>1. Len(hops) < MAX_NODES /\ Len(hops) \in Nat
  BY RankedFits
<1>2. (\E k \in DOMAIN hops : hops[k].addr = x) <=> x \in Listed(hops)
  BY DEF Listed
<1>3. CASE x \in Listed(hops)
  <2>1. hops' = hops
    BY <1>2, <1>3 DEF Visit
  <2>2. QED  BY <1>1, <1>3, <2>1
<1>4. CASE x \notin Listed(hops)
  <2> DEFINE t == Append(hops, [addr |-> x, hop_count |-> h + 1])
  <2>1. hops' = t
    BY <1>2, <1>4 DEF Visit
  <2> HIDE DEF t
  <2>2. h + 1 <= Len(hops) + 1
    BY <1>1
  <2>3. /\ Ranked(t, Edges, Nodes) /\ Listed(t) = Listed(hops) \cup {x}
        /\ Len(t) = Len(hops) + 1
        /\ \A k \in DOMAIN hops : k \in DOMAIN t /\ t[k] = hops[k]
        /\ \A k \in DOMAIN t : k \in DOMAIN hops \/ t[k].hop_count = h + 1
    BY <1>1, <1>4, <2>2, AppendRanked, SMTT(30) DEF t
  <2>4. QED  BY <1>1, <2>1, <2>3
<1>5. QED  BY <1>3, <1>4

LEMMA DirectHops == ASSUME PoolIInv, HopIInv, Direct PROVE HopIInv'
<1> DEFINE e == Head(todo)
           W == WithinHops(Edges, self, MAX_NODES)
<1>1. Nodes' = Nodes /\ Edges' = Edges
  BY SameGraph DEF Direct
<1>2. /\ self \in Nodes /\ Endpoints(Edges) \subseteq Nodes /\ Ranked(hops, Edges, Nodes)
      /\ DirectIInv /\ pc' = "direct" /\ todo # <<>> /\ todo' = Tail(todo)
  BY DEF Direct, HopIInv
<1>3. /\ e \in Edges /\ todo' \in Seq(Edges)
      /\ Elements(todo) = {e} \cup Elements(todo')
  BY <1>2, HeadAndTail DEF DirectIInv
<1>4. e.src # e.dst /\ e.src \in Nodes /\ e.dst \in Nodes
  BY <1>2, <1>3 DEF PoolIInv, Endpoints
<1>5. /\ Len(hops) \in Nat /\ 0 <= Len(hops) /\ W[0] = {self}
      /\ \A k \in DOMAIN hops : hops[k].hop_count = 1
  <2>1. MAX_NODES \in Nat
    BY CapacityAssumption
  <2>2. QED  BY <1>2, <2>1, RankedFits, HopCounts DEF DirectIInv
<1> HIDE DEF e, W
<1>6. ASSUME NEW x \in {e.src, e.dst}, x # self, self \in {e.src, e.dst}, Visit(x, 1)
      PROVE  /\ Ranked(hops', Edges, Nodes) /\ Listed(hops') = Listed(hops) \cup {x}
             /\ \A k \in DOMAIN hops' : hops'[k].hop_count = 1
  <2>1. x \in Adjacent(Edges, W[0])
    BY <1>3, <1>5, <1>6 DEF Adjacent
  <2>2. W[0] \subseteq Listed(hops) \cup {self}
    BY <1>5
  <2>3. Visit(x, 0 + 1) /\ 0 \in Nat /\ \A k \in DOMAIN hops : hops[k].hop_count <= 0 + 1
    BY <1>5, <1>6
  <2>4. x \in Nodes
    BY <1>4, <1>6
  <2>5. /\ Ranked(hops', Edges, Nodes) /\ Listed(hops') = Listed(hops) \cup {x}
        /\ \A k \in DOMAIN hops : k \in DOMAIN hops' /\ hops'[k] = hops[k]
        /\ \A k \in DOMAIN hops' : k \in DOMAIN hops \/ hops'[k].hop_count = 0 + 1
    BY <1>2, <1>5, <1>6, <2>1, <2>2, <2>3, <2>4, VisitHops DEF W
  <2>6. QED  BY <1>5, <2>5
<1>7. CASE self \notin {e.src, e.dst} /\ hops' = hops
  <2>1. \A f \in Edges \ Elements(todo') : f = e \/ f \in Edges \ Elements(todo)
    BY <1>3
  <2>2. DirectIInv'
    BY <1>1, <1>2, <1>3, <1>7, <2>1 DEF DirectIInv
  <2>3. QED  BY <1>1, <1>2, <1>7, <2>2 DEF HopIInv
<1>8. CASE self \in {e.src, e.dst}
  <2>1. PICK x \in {e.src, e.dst} : x # self /\ Visit(x, 1)
    BY <1>4, <1>8 DEF Direct, e
  <2>2. /\ Ranked(hops', Edges, Nodes) /\ Listed(hops') = Listed(hops) \cup {x}
        /\ \A k \in DOMAIN hops' : hops'[k].hop_count = 1
    BY <1>6, <1>8, <2>1
  <2>3. /\ e.src = self => e.dst \in Listed(hops')
        /\ e.dst = self => e.src \in Listed(hops')
    BY <1>4, <2>1, <2>2
  <2>4. \A f \in Edges \ Elements(todo') : f = e \/ f \in Edges \ Elements(todo)
    BY <1>3
  <2>5. DirectIInv'
    BY <1>1, <1>2, <1>3, <2>2, <2>3, <2>4 DEF DirectIInv
  <2>6. QED  BY <1>1, <1>2, <2>2, <2>5 DEF HopIInv
<1>9. QED  BY <1>7, <1>8 DEF Direct, e

LEMMA DirectDoneHops == ASSUME PoolIInv, HopIInv, DirectDone PROVE HopIInv'
<1>1. Nodes' = Nodes /\ Edges' = Edges /\ hops' = hops /\ i' = 1
  BY SameGraph DEF DirectDone
<1>2. /\ self \in Nodes /\ Endpoints(Edges) \subseteq Nodes /\ Ranked(hops, Edges, Nodes)
      /\ DirectIInv /\ Elements(todo) = {}
  BY DEF DirectDone, HopIInv, Elements
<1>3. Covered(hops, Edges, self)
  BY <1>2 DEF DirectIInv, Covered, Adjacent
<1>4. CASE hops = <<>>
  <2>1. pc' = "pack"
    BY <1>4 DEF DirectDone
  <2>2. \A x \in Listed(hops) \cup {self} : Covered(hops, Edges, x)
    BY <1>3, <1>4, NothingRanked
  <2>3. QED  BY <1>1, <1>2, <2>1, <2>2 DEF HopIInv
<1>5. CASE hops # <<>>
  <2>1. pc' = "explore"
    BY <1>5 DEF DirectDone
  <2>2. Len(hops) \in Nat /\ DOMAIN hops = 1..Len(hops)
    BY <1>2, RankedFits
  <2>3. \A k \in DOMAIN hops : hops[k].hop_count = 1
    BY <1>2 DEF DirectIInv
  <2>4. 1 \in 1..Len(hops)+1 /\ 1..1-1 = {}
    BY <2>2
  <2>5. 1 <= Len(hops) => \A k \in DOMAIN hops : hops[k].hop_count <= hops[1].hop_count + 1
    BY <2>2, <2>3
  <2>6. ExploreIInv'
    BY <1>1, <1>3, <2>4, <2>5 DEF ExploreIInv
  <2>7. QED  BY <1>1, <1>2, <2>1, <2>6 DEF HopIInv
<1>6. QED  BY <1>4, <1>5

LEMMA BothEnds ==
    ASSUME NEW X, NEW s \in Seq(X), NEW t \in Seq(X)
    PROVE  /\ s \o t \in Seq(X) /\ Elements(s \o t) = Elements(s) \cup Elements(t)
           /\ s \o t = <<>> => s = <<>> /\ t = <<>>
<1> DEFINE st == s \o t
           L == Len(s)
           M == Len(t)
<1>1. /\ L \in Nat /\ M \in Nat /\ DOMAIN s = 1..L /\ DOMAIN t = 1..M
      /\ st \in Seq(X) /\ Len(st) = L + M /\ DOMAIN st = 1..L+M
      /\ \A k \in 1..L : st[k] = s[k]
      /\ \A k \in L+1..L+M : st[k] = t[k-L]
  OBVIOUS
<1> HIDE DEF st, L, M
<1>2. /\ \A k \in 1..L : k \in 1..L+M
      /\ \A k \in 1..M : k+L \in 1..L+M /\ k+L \in L+1..L+M /\ (k+L)-L = k
      /\ \A k \in 1..L+M : k \in 1..L \/ (k \in L+1..L+M /\ k-L \in 1..M)
  BY <1>1
<1>3. Elements(st) \subseteq Elements(s) \cup Elements(t)
  <2>1. \A k \in 1..L+M : st[k] \in Elements(s) \cup Elements(t)
    <3> SUFFICES ASSUME NEW k \in 1..L+M PROVE st[k] \in Elements(s) \cup Elements(t)
      OBVIOUS
    <3>1. CASE k \in 1..L
      BY <1>1, <3>1 DEF Elements
    <3>2. CASE k \in L+1..L+M /\ k-L \in 1..M
      BY <1>1, <3>2 DEF Elements
    <3>3. QED  BY <1>2, <3>1, <3>2
  <2>2. QED  BY <1>1, <2>1 DEF Elements
<1>4. Elements(s) \subseteq Elements(st)
  <2>1. \A k \in 1..L : s[k] \in Elements(st)
    <3> SUFFICES ASSUME NEW k \in 1..L PROVE s[k] \in Elements(st)
      OBVIOUS
    <3>1. k \in DOMAIN st /\ st[k] = s[k]
      BY <1>1, <1>2
    <3>2. QED  BY <3>1 DEF Elements
  <2>2. QED  BY <1>1, <2>1 DEF Elements
<1>5. Elements(t) \subseteq Elements(st)
  <2>1. \A k \in 1..M : t[k] = st[k+L] /\ k+L \in DOMAIN st
    BY <1>1, <1>2
  <2>2. QED  BY <1>1, <2>1 DEF Elements
<1>6. st = <<>> => s = <<>> /\ t = <<>>
  <2>1. st = <<>> => L + M = 0
    BY <1>1
  <2>2. st = <<>> => L = 0 /\ M = 0
    BY <1>1, <2>1
  <2>3. QED  BY <1>1, <2>2 DEF L, M
<1>7. QED  BY <1>1, <1>3, <1>4, <1>5, <1>6 DEF st

(* The neighbours of x, from the listings of its edges.                     *)
LEMMA NeighboursListed ==
    ASSUME PoolIInv, Endpoints(Edges) \subseteq Nodes, NEW x,
           NEW out, out = Memory!get_outgoing_edges(edge_memory, x),
           NEW in, in = Memory!get_ingoing_edges(edge_memory, x)
    PROVE  /\ LET s == [k \in DOMAIN out |-> out[k].dst] \o [k \in DOMAIN in |-> in[k].src]
              IN  /\ s \in Seq(Nodes) /\ Elements(s) = Adjacent(Edges, {x})
                  /\ out # <<>> \/ in # <<>> => s # <<>>
           /\ out = <<>> /\ in = <<>> => Adjacent(Edges, {x}) = {}
<1> DEFINE from == {e \in Edges : e.src = x}
           to == {e \in Edges : e.dst = x}
           dsts == [k \in DOMAIN out |-> out[k].dst]
           srcs == [k \in DOMAIN in |-> in[k].src]
<1>1. Lists(out, from) /\ Lists(in, to)
  BY Listings DEF PoolIInv, Edges
<1>2. /\ out \in Seq(from) /\ Elements(out) = from
      /\ in \in Seq(to) /\ Elements(in) = to
  BY <1>1, ElementsOf
<1>3. Adjacent(Edges, {x}) = {e.dst : e \in from} \cup {e.src : e \in to}
  BY DEF Adjacent
<1>4. \A e \in Edges : e.src \in Nodes /\ e.dst \in Nodes
  BY DEF Endpoints
<1>5. dsts \in Seq(Nodes) /\ Len(dsts) = Len(out) /\ DOMAIN dsts = DOMAIN out
  <2>1. Len(out) \in Nat /\ DOMAIN out = 1..Len(out) /\ \A k \in DOMAIN out : out[k] \in from
    BY <1>2
  <2>2. \A k \in DOMAIN out : out[k].dst \in Nodes
    BY <1>4, <2>1
  <2>3. QED  BY <2>1, <2>2
<1>6. srcs \in Seq(Nodes) /\ Len(srcs) = Len(in) /\ DOMAIN srcs = DOMAIN in
  <2>1. Len(in) \in Nat /\ DOMAIN in = 1..Len(in) /\ \A k \in DOMAIN in : in[k] \in to
    BY <1>2
  <2>2. \A k \in DOMAIN in : in[k].src \in Nodes
    BY <1>4, <2>1
  <2>3. QED  BY <2>1, <2>2
<1>7. Elements(dsts) = {e.dst : e \in from}
  BY <1>2, <1>5 DEF Elements
<1>8. Elements(srcs) = {e.src : e \in to}
  BY <1>2, <1>6 DEF Elements
<1>9. (out # <<>> => dsts # <<>>) /\ (in # <<>> => srcs # <<>>)
  <2>1. Len(out) # 0 <=> out # <<>>
    BY <1>2
  <2>2. Len(in) # 0 <=> in # <<>>
    BY <1>2
  <2>3. QED  BY <1>5, <1>6, <2>1, <2>2
<1>10. out = <<>> /\ in = <<>> => Adjacent(Edges, {x}) = {}
  <2>1. out = <<>> /\ in = <<>> => from = {} /\ to = {}
    BY <1>1, EmptyListing
  <2>2. QED  BY <1>3, <2>1
<1> HIDE DEF dsts, srcs, from, to
<1>11. dsts \o srcs \in Seq(Nodes) /\ Elements(dsts \o srcs) = Elements(dsts) \cup Elements(srcs)
       /\ (dsts \o srcs = <<>> => dsts = <<>> /\ srcs = <<>>)
  BY <1>5, <1>6, BothEnds
<1>12. QED  BY <1>3, <1>7, <1>8, <1>9, <1>10, <1>11 DEF dsts, srcs

LEMMA ExploreHops == ASSUME ~MallocMayFail, PoolIInv, HopIInv, Explore PROVE HopIInv'
<1>1. Nodes' = Nodes /\ Edges' = Edges /\ hops' = hops /\ i' = i /\ pc' = "visit"
  BY SameGraph DEF Explore
<1>2. /\ self \in Nodes /\ Endpoints(Edges) \subseteq Nodes /\ Ranked(hops, Edges, Nodes)
      /\ ExploreIInv /\ i <= Len(hops)
  BY DEF Explore, HopIInv, Found
<1> DEFINE x == hops[i].addr
           out == Memory!get_outgoing_edges(edge_memory, x)
           in == Memory!get_ingoing_edges(edge_memory, x)
           s == [k \in DOMAIN out |-> out[k].dst] \o [k \in DOMAIN in |-> in[k].src]
<1>3. (out # <<>> \/ in # <<>>) /\ todo' = s
  BY DEF Explore, Outgoing, Ingoing, OrFail
<1>4. /\ s \in Seq(Nodes) /\ Elements(s) = Adjacent(Edges, {x})
      /\ out # <<>> \/ in # <<>> => s # <<>>
  BY <1>2, NeighboursListed
<1> HIDE DEF s, out, in
<1>5. todo' \in Seq(Nodes) /\ todo' # <<>> /\ Elements(todo') = Adjacent(Edges, {hops[i].addr})
  BY <1>3, <1>4
<1>6. VisitIInv'
  BY <1>1, <1>2, <1>5 DEF VisitIInv
<1>7. ExploreIInv'
  BY <1>1, <1>2 DEF ExploreIInv
<1>8. QED  BY <1>1, <1>2, <1>6, <1>7 DEF HopIInv

LEMMA HopsCountedHops == ASSUME ~MallocMayFail, PoolIInv, HopIInv, HopsCounted PROVE HopIInv'
<1>1. Nodes' = Nodes /\ Edges' = Edges /\ hops' = hops /\ i' = 1 /\ pc' = "pack"
  BY SameGraph DEF HopsCounted
<1>2. /\ self \in Nodes /\ Endpoints(Edges) \subseteq Nodes /\ Ranked(hops, Edges, Nodes)
      /\ ExploreIInv
  BY DEF HopsCounted, HopIInv
<1>3. /\ Len(hops) \in Nat /\ DOMAIN hops = 1..Len(hops)
      /\ Len(hops) < node_memory.count /\ node_memory.count \in Nat
  BY <1>2, RankedFits
<1>4. i \in 1..Len(hops)+1 /\ \A k \in 1..i-1 : Covered(hops, Edges, hops[k].addr)
  BY <1>2 DEF ExploreIInv
<1>5. ASSUME NEW k \in 1..Len(hops), ~(k <= i-1), ~Found PROVE FALSE
  BY <1>3, <1>4, <1>5 DEF Found
<1>6. \A k \in 1..Len(hops) : Covered(hops, Edges, hops[k].addr)
  <2>1. CASE Found
    <3> DEFINE x == hops[i].addr
               h == hops[i].hop_count
               W == WithinHops(Edges, self, MAX_NODES)
    <3>1. i \in DOMAIN hops
      BY <1>3, <1>4, <2>1 DEF Found
    <3>2. /\ Memory!get_outgoing_edges(edge_memory, x) = <<>>
          /\ Memory!get_ingoing_edges(edge_memory, x) = <<>>
      BY <2>1 DEF HopsCounted, Outgoing, Ingoing, OrFail
    <3>3. Adjacent(Edges, {x}) = {}
      BY <1>2, <3>2, NeighboursListed
    <3>4. h \in 1..MAX_NODES /\ x \in AtHop(W, h) /\ MAX_NODES \in Nat
      <4>1. h \in 1..i /\ x \in AtHop(W, h)
        BY <1>2, <3>1 DEF Ranked
      <4>2. Len(hops) < MAX_NODES /\ MAX_NODES \in Nat
        BY <1>2, RankedFits
      <4>3. QED  BY <1>3, <3>1, <4>1, <4>2
    <3> HIDE DEF x, h
    <3>5. x \in W[h] /\ x \notin W[h-1] /\ W[h] = W[h-1] \cup Adjacent(Edges, W[h-1])
      BY <3>4, HopCounts
    <3>6. x \in Adjacent(Edges, W[h-1])
      BY <3>5
    <3> HIDE DEF W
    <3>7. Adjacent(Edges, {x}) # {}
      BY <3>6 DEF Adjacent
    <3>8. QED  BY <3>3, <3>7
  <2>2. CASE ~Found
    BY <1>3, <1>4, <1>5, <2>2
  <2>3. QED  BY <2>1, <2>2
<1>7. \A x \in Listed(hops) \cup {self} : Covered(hops, Edges, x)
  BY <1>2, <1>3, <1>6 DEF Listed, ExploreIInv
<1>8. QED  BY <1>1, <1>2, <1>7 DEF HopIInv

LEMMA CoveredLonger ==
    ASSUME NEW E, NEW s, NEW t, Listed(s) \subseteq Listed(t), NEW x, Covered(s, E, x)
    PROVE  Covered(t, E, x)
BY DEF Covered

LEMMA ExploreEdgeHops == ASSUME PoolIInv, HopIInv, ExploreEdge PROVE HopIInv'
<1> DEFINE x == Head(todo)
           a == hops[i].addr
           h == hops[i].hop_count
           W == WithinHops(Edges, self, MAX_NODES)
<1>1. Nodes' = Nodes /\ Edges' = Edges /\ todo' = Tail(todo)
  BY SameGraph DEF ExploreEdge
<1>2. /\ self \in Nodes /\ Endpoints(Edges) \subseteq Nodes /\ Ranked(hops, Edges, Nodes)
      /\ ExploreIInv /\ VisitIInv
  BY DEF ExploreEdge, HopIInv
<1>3. /\ Len(hops) \in Nat /\ DOMAIN hops = 1..Len(hops) /\ MAX_NODES \in Nat
      /\ Len(hops) < MAX_NODES
      /\ \A k \in DOMAIN hops : hops[k].hop_count \in 1..k
  BY <1>2, RankedFits
<1>4. i \in 1..Len(hops) /\ i \in DOMAIN hops
  BY <1>2, <1>3 DEF ExploreIInv, VisitIInv
<1>5. /\ x \in Nodes /\ todo' \in Seq(Nodes) /\ Elements(todo) = {x} \cup Elements(todo')
      /\ x \in Adjacent(Edges, {a})
  <2>1. /\ Head(todo) \in Nodes /\ Tail(todo) \in Seq(Nodes) /\ Head(todo) \in Elements(todo)
        /\ Elements(todo) = {Head(todo)} \cup Elements(Tail(todo))
    BY <1>2, HeadAndTail DEF VisitIInv
  <2>2. QED  BY <1>1, <1>2, <2>1 DEF VisitIInv
<1>6. h \in 1..i /\ a \in AtHop(W, h) /\ h <= Len(hops) /\ h \in 1..MAX_NODES /\ h \in Nat
  <2>1. h \in 1..i /\ a \in AtHop(W, h)
    BY <1>2, <1>4 DEF Ranked
  <2>2. QED  BY <1>3, <1>4, <2>1
<1>7. a \in W[h] /\ x \in Adjacent(Edges, W[h])
  <2>1. a \in W[h]
    BY <1>3, <1>6, HopCounts
  <2> HIDE DEF W, a, x, h
  <2>2. QED  BY <1>5, <2>1 DEF Adjacent
<1>8. W[h] \subseteq Listed(hops) \cup {self}
  <2>1. ASSUME NEW k \in DOMAIN hops, hops[k].hop_count < h
        PROVE  Covered(hops, Edges, hops[k].addr)
    <3>1. i <= k => h <= hops[k].hop_count
      BY <1>2, <1>4 DEF Ranked
    <3>2. k \in 1..i-1
      BY <1>3, <1>4, <1>6, <2>1, <3>1
    <3>3. QED  BY <1>2, <3>2 DEF ExploreIInv
  <2>2. h \in 0..MAX_NODES /\ Len(hops) <= MAX_NODES
    BY <1>3, <1>6
  <2> HIDE DEF h
  <2>3. QED  BY <1>2, <2>1, <2>2, Frontier DEF ExploreIInv, W
<1>9. \A k \in DOMAIN hops : hops[k].hop_count <= h + 1
  BY <1>2 DEF ExploreIInv, VisitIInv
<1>10. /\ Ranked(hops', Edges, Nodes)
       /\ Listed(hops) \subseteq Listed(hops') /\ x \in Listed(hops') \cup {self}
       /\ Len(hops) <= Len(hops')
       /\ \A k \in DOMAIN hops : k \in DOMAIN hops' /\ hops'[k] = hops[k]
       /\ \A k \in DOMAIN hops' : k \in DOMAIN hops \/ hops'[k].hop_count = h + 1
  <2>1. CASE x = self
    <3>1. hops' = hops
      BY <2>1 DEF ExploreEdge
    <3>2. QED  BY <1>2, <1>3, <2>1, <3>1
  <2>2. CASE x # self
    <3>1. Visit(x, h + 1)
      BY <2>2 DEF ExploreEdge
    <3> HIDE DEF x, h
    <3>2. /\ Ranked(hops', Edges, Nodes) /\ Listed(hops') = Listed(hops) \cup {x}
          /\ Len(hops) <= Len(hops')
          /\ \A k \in DOMAIN hops : k \in DOMAIN hops' /\ hops'[k] = hops[k]
          /\ \A k \in DOMAIN hops' : k \in DOMAIN hops \/ hops'[k].hop_count = h + 1
      BY <1>2, <1>5, <1>6, <1>7, <1>8, <1>9, <2>2, <3>1, VisitHops DEF W
    <3>3. QED  BY <3>2
  <2>3. QED  BY <2>1, <2>2
<1>11. /\ Len(hops') \in Nat /\ DOMAIN hops' = 1..Len(hops')
       /\ \A k \in DOMAIN hops' : hops'[k].hop_count \in Nat
  <2>1. \A s : Ranked(s, Edges, Nodes) =>
                  /\ Len(s) \in Nat /\ DOMAIN s = 1..Len(s)
                  /\ \A k \in DOMAIN s : s[k].hop_count \in 1..k
    BY <1>2, RankedFits
  <2>2. QED  BY <1>10, <2>1
<1>12. i \in DOMAIN hops' /\ hops'[i] = hops[i]
  BY <1>4, <1>10
<1>13. /\ Covered(hops', Edges, self)
       /\ \A k \in 1..i-1 : Covered(hops', Edges, hops'[k].addr)
  <2>1. \A k \in 1..i-1 : k \in DOMAIN hops /\ Covered(hops, Edges, hops[k].addr)
    BY <1>2, <1>3, <1>4 DEF ExploreIInv
  <2>2. Covered(hops, Edges, self)
    BY <1>2 DEF ExploreIInv
  <2>3. QED  BY <1>10, <2>1, <2>2, CoveredLonger
<1>14. \A k \in DOMAIN hops' : hops'[k].hop_count <= h + 1
  <2>1. h + 1 <= h + 1
    BY <1>6
  <2>2. QED  BY <1>9, <1>10, <2>1
<1>15. Adjacent(Edges, {a}) \subseteq Listed(hops') \cup {self} \cup Elements(todo')
  BY <1>2, <1>5, <1>10 DEF VisitIInv
<1>16. CASE todo' = <<>>
  <2>1. pc' = "explore" /\ i' = i + 1
    BY <1>16 DEF ExploreEdge
  <2>2. Elements(todo') = {}
    BY <1>16 DEF Elements
  <2>3. Covered(hops', Edges, hops'[i].addr)
    BY <1>12, <1>15, <2>2 DEF Covered
  <2>4. i' \in 1..Len(hops')+1 /\ \A k \in 1..i'-1 : k \in 1..i-1 \/ k = i
    BY <1>3, <1>4, <1>10, <1>11, <2>1
  <2>5. \A k \in 1..i'-1 : Covered(hops', Edges, hops'[k].addr)
    BY <1>13, <2>3, <2>4
  <2>6. ASSUME i' <= Len(hops'), NEW k \in DOMAIN hops'
        PROVE  hops'[k].hop_count <= hops'[i'].hop_count + 1
    <3>1. i' \in DOMAIN hops' /\ i <= i'
      BY <1>4, <1>11, <2>1, <2>4, <2>6
    <3>2. hops'[i].hop_count <= hops'[i'].hop_count
      BY <1>10, <1>12, <3>1 DEF Ranked
    <3>3. hops'[i].hop_count = h
      BY <1>12
    <3>4. /\ hops'[k].hop_count \in Nat /\ hops'[i'].hop_count \in Nat
          /\ hops'[k].hop_count <= h + 1
      BY <1>11, <1>14, <2>6, <3>1
    <3> HIDE DEF h
    <3>5. QED  BY <1>6, <3>2, <3>3, <3>4
  <2>7. ExploreIInv'
    BY <1>1, <1>13, <2>4, <2>5, <2>6 DEF ExploreIInv
  <2>8. QED  BY <1>1, <1>2, <1>10, <2>1, <2>7 DEF HopIInv
<1>17. CASE todo' # <<>>
  <2>1. pc' = "visit" /\ i' = i
    BY <1>17 DEF ExploreEdge
  <2>2. i' \in 1..Len(hops')+1 /\ i' <= Len(hops')
    BY <1>4, <1>11, <1>12, <2>1
  <2>3. \A k \in DOMAIN hops' : hops'[k].hop_count <= hops'[i'].hop_count + 1
    BY <1>12, <1>14, <2>1
  <2>4. ExploreIInv'
    BY <1>1, <1>13, <2>1, <2>2, <2>3 DEF ExploreIInv
  <2>5. Elements(todo') \subseteq Adjacent(Edges, {a})
    BY <1>2, <1>5 DEF VisitIInv
  <2>6. VisitIInv'
    BY <1>1, <1>5, <1>12, <1>15, <1>17, <2>1, <2>2, <2>5 DEF VisitIInv
  <2>7. QED  BY <1>1, <1>2, <1>10, <2>1, <2>4, <2>6 DEF HopIInv
<1>18. QED  BY <1>16, <1>17

LEMMA NextHops == ASSUME ~MallocMayFail, PoolIInv, HopIInv, [Next]_vars PROVE HopIInv'
<1>1. CASE UNCHANGED vars
  <2>1. Nodes' = Nodes /\ Edges' = Edges
    BY <1>1, SameGraph DEF vars, memory
  <2>2. QED
    BY <1>1, <2>1 DEF vars, HopIInv, DirectIInv, ExploreIInv, VisitIInv
<1>2. QED
  BY <1>1, ChangingHops, PackingHops, CountHopsHops, DirectHops, DirectDoneHops,
     ExploreHops, ExploreEdgeHops, HopsCountedHops
  DEF Next, Step

(* When every allocation succeeds the array is right as far as it has got.  *)
THEOREM HopsHold == ASSUME ~MallocMayFail PROVE Spec => [](PoolIInv /\ HopIInv)
<1>1. PoolIInv /\ HopIInv /\ [Next]_vars => (PoolIInv /\ HopIInv)'
  BY NextPools, NextHops
<1>2. QED  BY <1>1, InitPools, InitHops, PTL DEF Spec

(* The loops that fill the array of hop counts stay within the entries it   *)
(* has, one fewer than there are nodes, although they never look at its     *)
(* end.                                                                     *)
THEOREM ArrayNotOverrun == ASSUME ~MallocMayFail PROVE Spec => []HopsInBounds
<1>1. PoolIInv /\ HopIInv => HopsInBounds
  BY RankedFits DEF HopIInv, HopsInBounds
<1>2. QED  BY <1>1, HopsHold, PTL

(* The array that serialize() reads lists every node that can be reached    *)
(* over edges in both directions, once, with the length of its shortest     *)
(* path.                                                                    *)
THEOREM DistancesExact == ASSUME ~MallocMayFail PROVE Spec => []HopsRight
<1>1. ASSUME PoolIInv, HopIInv PROVE HopsRight
  <2> DEFINE W == WithinHops(Edges, self, MAX_NODES)
             listed == {<<hops[k].addr, hops[k].hop_count>> : k \in DOMAIN hops}
             all == UNION {AtHop(W, h) \X {h} : h \in 1..MAX_NODES}
  <2>1. SUFFICES ASSUME pc \in {"pack", "edges"}, i > 0
                 PROVE  /\ listed = all
                        /\ \A j, k \in DOMAIN hops : hops[j].addr = hops[k].addr => j = k
    BY DEF HopsRight
  <2>2. /\ self \in Nodes /\ Ranked(hops, Edges, Nodes)
        /\ \A x \in Listed(hops) \cup {self} : Covered(hops, Edges, x)
    <3>1. i \in Nat /\ i # 0
      BY <1>1, <2>1 DEF HopIInv
    <3>2. QED  BY <1>1, <2>1, <3>1 DEF HopIInv
  <2>3. /\ MAX_NODES \in Nat /\ Len(hops) < MAX_NODES /\ Len(hops) \in Nat
        /\ DOMAIN hops = 1..Len(hops)
    BY <1>1, <2>2, RankedFits
  <2>4. \A k \in DOMAIN hops :
           hops[k].hop_count \in 1..MAX_NODES /\ hops[k].addr \in AtHop(W, hops[k].hop_count)
    BY <2>2, <2>3 DEF Ranked
  <2> HIDE DEF W
  <2>5. listed \subseteq all
    BY <2>4
  <2>6. ASSUME NEW h \in 1..MAX_NODES, NEW x \in AtHop(W, h) PROVE <<x, h>> \in listed
    <3>1. /\ x \in W[h] /\ x # self
          /\ \A g \in 1..MAX_NODES : x \in AtHop(W, g) => g = h
      <4>1. x \in W[h] /\ x # self
        BY <2>3, <2>6, HopCounts DEF W
      <4>2. ASSUME NEW g \in 1..MAX_NODES, x \in AtHop(W, g) PROVE g <= h /\ h <= g
        <5>1. x \in W[g] /\ g \in 0..MAX_NODES /\ h \in 0..MAX_NODES
          BY <2>3, <4>2, HopCounts DEF W
        <5>2. QED  BY <2>3, <2>6, <4>1, <4>2, <5>1, HopCounts DEF W
      <4>3. QED  BY <2>3, <4>1, <4>2
    <3>2. W[h] \subseteq Listed(hops) \cup {self}
      <4>1. h \in 0..MAX_NODES /\ Len(hops) <= MAX_NODES
        BY <2>3
      <4>2. Covered(hops, Edges, self) /\ \A k \in DOMAIN hops : Covered(hops, Edges, hops[k].addr)
        BY <2>2 DEF Listed
      <4>3. QED  BY <2>2, <4>1, <4>2, Frontier DEF W
    <3>3. PICK k \in DOMAIN hops : hops[k].addr = x
      BY <3>1, <3>2 DEF Listed
    <3>4. hops[k].hop_count = h
      BY <2>4, <3>1, <3>3
    <3>5. QED  BY <3>3, <3>4
  <2>7. \A j, k \in DOMAIN hops : hops[j].addr = hops[k].addr => j = k
    BY <2>2 DEF Ranked
  <2>8. QED  BY <2>5, <2>6, <2>7
<1>2. QED  BY <1>1, HopsHold, PTL
=============================================================================
