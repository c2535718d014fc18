-------------------------- MODULE LocalGraphProofs --------------------------
(***************************************************************************)
(* What the operators of LocalGraph return, for every graph: the lemmas the *)
(* proofs about Discovery rest on.                                          *)
(***************************************************************************)
EXTENDS LocalGraph, FiniteSetTheorems, Induction

(* At most one record per edge (find_edge() has one result at most).        *)
Single(E) == \A e, f \in E : SameEdge(e, f) => e = f

(* What gets into the free entries is among the candidates and fits.        *)
LEMMA FittingLemma ==
    ASSUME NEW C, NEW room \in Nat, NEW S \in Fitting(C, room), IsFiniteSet(C)
    PROVE  S \subseteq C /\ IsFiniteSet(S) /\ Cardinality(S) <= room
<1>1. CASE Cardinality(C) <= room
  BY <1>1 DEF Fitting
<1>2. CASE ~(Cardinality(C) <= room)
  <2>1. S \in SUBSET C /\ Cardinality(S) = room
    BY <1>2 DEF Fitting
  <2>2. QED  BY <2>1, FS_Subset
<1>3. QED  BY <1>1, <1>2

(* add_node() keeps the nodes it finds, adds only the new ones and never    *)
(* exceeds the pool.                                                        *)
LEMMA AddNodes ==
    ASSUME NEW N, NEW new, NEW M \in add_nodes(N, new),
           IsFiniteSet(N), IsFiniteSet(new), Cardinality(N) <= MAX_NODES
    PROVE  /\ N \subseteq M /\ M \subseteq N \cup new
           /\ Cardinality(M) <= MAX_NODES
<1>1. PICK S \in Fitting(new \ N, MAX_NODES - Cardinality(N)) : M = N \cup S
  BY DEF add_nodes
<1>2. Cardinality(N) \in Nat /\ MAX_NODES - Cardinality(N) \in Nat
  BY FS_CardinalityType, CapacityAssumption
<1>3. IsFiniteSet(new \ N)
  BY FS_Difference
<1>4. S \subseteq new \ N /\ IsFiniteSet(S) /\ Cardinality(S) <= MAX_NODES - Cardinality(N)
  BY <1>2, <1>3, FittingLemma
<1>5. N \cap S = {}
  BY <1>4
<1>6. Cardinality(N \cup S) = Cardinality(N) + Cardinality(S) - 0
  BY <1>4, <1>5, FS_Union, FS_EmptySet
<1>7. Cardinality(S) \in Nat
  BY <1>4, FS_CardinalityType
<1>8. QED
  BY <1>1, <1>2, <1>4, <1>6, <1>7, CapacityAssumption

(* A node that fits is stored.                                              *)
LEMMA AddNodeStored ==
    ASSUME NEW N, NEW x, NEW M \in add_nodes(N, {x}),
           IsFiniteSet(N), Cardinality(N \cup {x}) <= MAX_NODES
    PROVE  x \in M
<1>1. PICK S \in Fitting({x} \ N, MAX_NODES - Cardinality(N)) : M = N \cup S
  BY DEF add_nodes
<1>2. CASE x \in N
  BY <1>1, <1>2
<1>3. CASE x \notin N
  <2>1. {x} \ N = {x} /\ Cardinality({x}) = 1
    BY <1>3, FS_Singleton
  <2>2. Cardinality(N \cup {x}) = Cardinality(N) + 1 /\ Cardinality(N) \in Nat
    BY <1>3, FS_AddElement, FS_CardinalityType
  <2>3. 1 <= MAX_NODES - Cardinality(N)
    BY <2>2, CapacityAssumption
  <2>4. S = {x}
    BY <1>1, <2>1, <2>3 DEF Fitting
  <2>5. QED  BY <1>1, <2>4
<1>4. QED  BY <1>2, <1>3

-----------------------------------------------------------------------------
(* The parts of an insertion of edges.                                      *)
Overwriting(E, new) == {e \in new : \E f \in find_edge(E, e) : f.ttl <= e.ttl}
Overwritten(E, new) == {f \in E : \E e \in Overwriting(E, new) : SameEdge(e, f)}
Insertable(N, E, new) ==
    {e \in new : /\ find_edge(E, e) = {}
                 /\ e.src \in N /\ e.dst \in N}

(* add_edges in terms of the edges that are overwritten and that overwrite. *)
LEMMA AddEdgesParts ==
    ASSUME NEW N, NEW E, NEW new, NEW F \in add_edges(N, E, new)
    PROVE  \E S \in Fitting(Insertable(N, E, new), MAX_EDGES - Cardinality(E)) :
              F = (E \ Overwritten(E, new)) \cup Overwriting(E, new) \cup S
BY DEF add_edges, Overwriting, Overwritten, Insertable

(* An edge that is no older than the stored one, or that fits and has known *)
(* ends, is stored.                                                         *)
LEMMA AddEdgeStored ==
    ASSUME NEW N, NEW E, NEW new, NEW F \in add_edges(N, E, {new}),
           IsFiniteSet(E), \A e \in E : e.ttl <= new.ttl,
           \/ find_edge(E, new) # {}
           \/ new.src \in N /\ new.dst \in N /\ Cardinality(E) < MAX_EDGES
    PROVE  new \in F
<1>1. PICK S \in Fitting(Insertable(N, E, {new}), MAX_EDGES - Cardinality(E)) :
          F = (E \ Overwritten(E, {new})) \cup Overwriting(E, {new}) \cup S
  <2> DEFINE batch == {new}
  <2>1. F \in add_edges(N, E, batch)
    OBVIOUS
  <2> HIDE DEF batch
  <2>2. \E S \in Fitting(Insertable(N, E, batch), MAX_EDGES - Cardinality(E)) :
           F = (E \ Overwritten(E, batch)) \cup Overwriting(E, batch) \cup S
    BY <2>1, AddEdgesParts
  <2>3. QED  BY <2>2 DEF batch
<1>2. CASE find_edge(E, new) # {}
  <2>1. PICK f \in find_edge(E, new) : f.ttl <= new.ttl
    BY <1>2 DEF find_edge
  <2>2. new \in Overwriting(E, {new})
    BY <2>1 DEF Overwriting
  <2>3. QED  BY <1>1, <2>2
<1>3. CASE find_edge(E, new) = {}
  <2>1. Insertable(N, E, {new}) = {new} /\ Cardinality({new}) = 1
    BY <1>3, FS_Singleton DEF Insertable
  <2>2. 1 <= MAX_EDGES - Cardinality(E)
    BY <1>3, FS_CardinalityType, CapacityAssumption
  <2>3. S = {new}
    BY <1>1, <2>1, <2>2 DEF Fitting
  <2>4. QED  BY <1>1, <2>3
<1>4. QED  BY <1>2, <1>3

(* An insertion of edges stays within the pool.                             *)
LEMMA AddEdgesCapacity ==
    ASSUME NEW N, NEW E, NEW new, NEW F \in add_edges(N, E, new),
           IsFiniteSet(E), IsFiniteSet(new), Single(E), Single(new),
           Cardinality(E) <= MAX_EDGES
    PROVE  Cardinality(F) <= MAX_EDGES
<1> DEFINE O == Overwriting(E, new)
           U == Overwritten(E, new)
           C == Insertable(N, E, new)
<1>1. PICK S \in Fitting(C, MAX_EDGES - Cardinality(E)) : F = (E \ U) \cup O \cup S
  BY AddEdgesParts
<1>2. Cardinality(E) \in Nat /\ MAX_EDGES - Cardinality(E) \in Nat
  BY FS_CardinalityType, CapacityAssumption
<1>3. C \in SUBSET new /\ O \in SUBSET new /\ U \in SUBSET E
  BY DEF Insertable, Overwriting, Overwritten
<1>4. IsFiniteSet(C) /\ IsFiniteSet(O) /\ IsFiniteSet(U)
  BY <1>3, FS_Subset
<1>5. IsFiniteSet(S) /\ Cardinality(S) <= MAX_EDGES - Cardinality(E)
  BY <1>2, <1>4, FittingLemma
<1>6. Cardinality(O) <= Cardinality(U)
  <2> DEFINE f == [e \in O |-> CHOOSE g \in U : SameEdge(e, g)]
  <2>1. \A e \in O : \E g \in U : SameEdge(e, g)
    <3> SUFFICES ASSUME NEW e \in O PROVE \E g \in U : SameEdge(e, g)
      OBVIOUS
    <3>1. PICK g \in find_edge(E, e) : TRUE
      BY DEF Overwriting
    <3>2. g \in E /\ SameEdge(e, g)
      BY <3>1 DEF find_edge
    <3>3. QED  BY <3>2 DEF Overwritten
  <2>2. \A e \in O : f[e] \in U /\ SameEdge(e, f[e])
    BY <2>1
  <2>3. \A d, e \in O : f[d] = f[e] => d = e
    <3> SUFFICES ASSUME NEW d \in O, NEW e \in O, f[d] = f[e] PROVE d = e
      OBVIOUS
    <3>1. SameEdge(d, e)
      BY <2>2 DEF SameEdge
    <3>2. QED  BY <3>1, <1>3 DEF Single
  <2>4. f \in Injection(O, U)
    BY <2>2, <2>3 DEF Injection, IsInjective
  <2>5. QED  BY <2>4, <1>4, FS_Injection
<1>7. IsFiniteSet(E \ U) /\ Cardinality(E \ U) = Cardinality(E) - Cardinality(U)
  <2>1. E \cap U = U
    BY <1>3
  <2>2. QED  BY <2>1, FS_Difference
<1>8. Cardinality((E \ U) \cup O) <= Cardinality(E)
  <2>1. /\ IsFiniteSet((E \ U) \cup O)
        /\ Cardinality((E \ U) \cup O) =
              Cardinality(E \ U) + Cardinality(O) - Cardinality((E \ U) \cap O)
    BY <1>4, <1>7, FS_Union
  <2>2. IsFiniteSet((E \ U) \cap O)
    BY <1>7, FS_Intersection
  <2>3. Cardinality((E \ U) \cap O) \in Nat /\ Cardinality(O) \in Nat /\ Cardinality(U) \in Nat
    BY <1>4, <2>2, FS_CardinalityType
  <2>4. QED  BY <1>2, <1>6, <1>7, <2>1, <2>3
<1>9. IsFiniteSet((E \ U) \cup O)
  BY <1>4, <1>7, FS_Union
<1>10. Cardinality(F) = Cardinality((E \ U) \cup O) + Cardinality(S)
                         - Cardinality(((E \ U) \cup O) \cap S)
  BY <1>1, <1>5, <1>9, FS_Union
<1>11. IsFiniteSet(((E \ U) \cup O) \cap S)
  BY <1>9, FS_Intersection
<1>12. /\ Cardinality(((E \ U) \cup O) \cap S) \in Nat
       /\ Cardinality(S) \in Nat
       /\ Cardinality((E \ U) \cup O) \in Nat
  BY <1>5, <1>9, <1>11, FS_CardinalityType
<1>13. QED  BY <1>2, <1>5, <1>8, <1>10, <1>12, CapacityAssumption

(* Every edge of the result was there or is new, a new one has known ends   *)
(* unless it overwrites, nothing that was there is lost or ages, there is   *)
(* still one record per edge and the result fits into the pool.             *)
LEMMA AddEdges ==
    ASSUME NEW N, NEW E, NEW new, NEW F \in add_edges(N, E, new),
           IsFiniteSet(E), IsFiniteSet(new), Cardinality(E) <= MAX_EDGES,
           Single(E), Single(new), \A e \in E \cup new : e.ttl \in Nat
    PROVE  /\ Single(F)
           /\ IsFiniteSet(F) /\ Cardinality(F) <= MAX_EDGES
           /\ \A g \in F : g \in E \/ g \in new
           /\ \A g \in F : \/ g.src \in N /\ g.dst \in N
                           \/ \E e \in E : SameEdge(e, g)
           /\ \A e \in E : \E g \in find_edge(F, e) : g.ttl >= e.ttl
<1> DEFINE O == Overwriting(E, new)
           U == Overwritten(E, new)
           C == Insertable(N, E, new)
<1>1. PICK S \in Fitting(C, MAX_EDGES - Cardinality(E)) : F = (E \ U) \cup O \cup S
  BY AddEdgesParts
<1>2. Cardinality(E) \in Nat /\ MAX_EDGES - Cardinality(E) \in Nat
  BY FS_CardinalityType, CapacityAssumption
<1>3. C \in SUBSET new /\ O \in SUBSET new /\ U \in SUBSET E
  BY DEF Insertable, Overwriting, Overwritten
<1>4. S \subseteq C
  BY <1>2, <1>3, FS_Subset, FittingLemma
<1>5. \A g \in F : g \in E \/ g \in new
  BY <1>1, <1>3, <1>4
<1>6. \A g \in F : \/ g.src \in N /\ g.dst \in N
                   \/ \E e \in E : SameEdge(e, g)
  <2> SUFFICES ASSUME NEW g \in F PROVE \/ g.src \in N /\ g.dst \in N
                                        \/ \E e \in E : SameEdge(e, g)
    OBVIOUS
  <2>1. CASE g \in E
    BY <2>1 DEF SameEdge
  <2>2. CASE g \in O
    <3>1. PICK e \in find_edge(E, g) : TRUE
      BY <2>2 DEF Overwriting
    <3>2. QED  BY <3>1 DEF find_edge, SameEdge
  <2>3. CASE g \in S
    BY <2>3, <1>4 DEF Insertable
  <2>4. QED  BY <1>1, <2>1, <2>2, <2>3
<1>7. ASSUME NEW e \in E PROVE \E g \in find_edge(F, e) : g.ttl >= e.ttl
  <2>1. CASE e \notin U
    BY <2>1, <1>1 DEF find_edge, SameEdge
  <2>2. CASE e \in U
    <3>1. PICK h \in O : SameEdge(h, e)
      BY <2>2 DEF Overwritten
    <3>2. PICK f \in find_edge(E, h) : f.ttl <= h.ttl
      BY DEF Overwriting
    <3>3. f = e
      BY <3>1, <3>2 DEF find_edge, SameEdge, Single
    <3>4. h \in find_edge(F, e) /\ h.ttl >= e.ttl
      BY <1>1, <1>3, <3>1, <3>2, <3>3 DEF find_edge, SameEdge
    <3>5. QED  BY <3>4
  <2>3. QED  BY <2>1, <2>2
<1>8. Single(F)
  <2> SUFFICES ASSUME NEW f \in F, NEW g \in F, SameEdge(f, g) PROVE f = g
    BY DEF Single
  <2>1. \A h \in O : find_edge(E, h) # {}
    BY DEF Overwriting
  <2>2. \A h \in S : find_edge(E, h) = {}
    BY <1>4 DEF Insertable
  <2>3. CASE f \in S \/ g \in S
    <3>1. f \notin E /\ f \notin O /\ g \notin E /\ g \notin O
      BY <2>1, <2>2, <2>3 DEF find_edge, SameEdge
    <3>2. f \in new /\ g \in new
      BY <1>5, <3>1
    <3>3. QED  BY <3>2 DEF Single
  <2>4. CASE f \in O /\ g \in O
    BY <2>4, <1>3 DEF Single
  <2>5. CASE f \in E \ U /\ g \in E \ U
    BY <2>5 DEF Single
  <2>6. CASE f \in E \ U /\ g \in O
    BY <2>6 DEF Overwritten, SameEdge
  <2>7. CASE f \in O /\ g \in E \ U
    BY <2>7 DEF Overwritten, SameEdge
  <2>8. QED  BY <1>1, <2>3, <2>4, <2>5, <2>6, <2>7
<1>9. IsFiniteSet(F)
  <2>1. IsFiniteSet(E \cup new) /\ F \subseteq E \cup new
    BY <1>5, FS_Union
  <2>2. QED  BY <2>1, FS_Subset
<1>10. Cardinality(F) <= MAX_EDGES
  BY AddEdgesCapacity
<1>11. QED  BY <1>5, <1>6, <1>7, <1>8, <1>9, <1>10

-----------------------------------------------------------------------------
(* What is left of the edges after a purge, and that it is not more.        *)
LEMMA PurgeEdges ==
    ASSUME NEW E, NEW diff, IsFiniteSet(E)
    PROVE  /\ \A g \in purge_edges(E, diff) : \E e \in E \ Expired(E, diff) :
                 g = [src |-> e.src, dst |-> e.dst, ttl |-> e.ttl - diff]
           /\ IsFiniteSet(purge_edges(E, diff))
           /\ Cardinality(purge_edges(E, diff)) <= Cardinality(E)
<1> DEFINE L == E \ Expired(E, diff)
           f == [e \in L |-> [src |-> e.src, dst |-> e.dst, ttl |-> e.ttl - diff]]
<1>1. purge_edges(E, diff) = {[src |-> e.src, dst |-> e.dst, ttl |-> e.ttl - diff] : e \in L}
  BY DEF purge_edges
<1>2. f \in Surjection(L, purge_edges(E, diff))
  BY <1>1 DEF Surjection
<1>3. IsFiniteSet(L) /\ Cardinality(L) <= Cardinality(E)
  BY FS_Subset
<1>4. /\ IsFiniteSet(purge_edges(E, diff))
      /\ Cardinality(purge_edges(E, diff)) <= Cardinality(L)
  BY <1>2, <1>3, FS_Surjection
<1>5. /\ Cardinality(purge_edges(E, diff)) \in Nat
      /\ Cardinality(L) \in Nat
      /\ Cardinality(E) \in Nat
  BY <1>3, <1>4, FS_CardinalityType
<1>6. QED  BY <1>1, <1>3, <1>4, <1>5

(* A purge leaves at most one record per edge.                              *)
LEMMA PurgeSingle ==
    ASSUME NEW E, NEW diff, Single(E)
    PROVE  Single(purge_edges(E, diff))
<1> SUFFICES ASSUME NEW g \in purge_edges(E, diff), NEW h \in purge_edges(E, diff),
                    SameEdge(g, h)
             PROVE  g = h
  BY DEF Single
<1>1. PICK d \in E : g = [src |-> d.src, dst |-> d.dst, ttl |-> d.ttl - diff]
  BY DEF purge_edges
<1>2. PICK e \in E : h = [src |-> e.src, dst |-> e.dst, ttl |-> e.ttl - diff]
  BY DEF purge_edges
<1>3. SameEdge(d, e)
  BY <1>1, <1>2 DEF SameEdge
<1>4. QED  BY <1>1, <1>2, <1>3 DEF Single

(* A purge keeps the mote itself and both ends of every edge it leaves.     *)
LEMMA PurgeNodes ==
    ASSUME NEW N, NEW E, NEW root, NEW diff, Endpoints(E) \subseteq N
    PROVE  /\ purge_nodes(N, E, root, diff) \subseteq N
           /\ root \in N => root \in purge_nodes(N, E, root, diff)
           /\ Endpoints(purge_edges(E, diff)) \subseteq purge_nodes(N, E, root, diff)
<1>1. Endpoints(purge_edges(E, diff)) \subseteq Endpoints(E \ Expired(E, diff))
  <2> SUFFICES ASSUME NEW g \in purge_edges(E, diff)
               PROVE  {g.src, g.dst} \subseteq Endpoints(E \ Expired(E, diff))
    BY DEF Endpoints
  <2>1. PICK e \in E \ Expired(E, diff) :
            g = [src |-> e.src, dst |-> e.dst, ttl |-> e.ttl - diff]
    BY DEF purge_edges
  <2>2. g.src = e.src /\ g.dst = e.dst
    BY <2>1
  <2>3. QED  BY <2>2 DEF Endpoints
<1>2. Endpoints(E \ Expired(E, diff)) \subseteq Endpoints(E)
  BY DEF Endpoints
<1>3. QED  BY <1>1, <1>2 DEF purge_nodes

-----------------------------------------------------------------------------
(* The recursive definition of WithinHops does define a function.           *)
LEMMA WithinHopsDef ==
    ASSUME NEW E, NEW root, NEW max \in Nat
    PROVE  WithinHops(E, root, max) =
              [h \in 0..max |->
                 IF h = 0 THEN {root}
                 ELSE WithinHops(E, root, max)[h-1]
                      \cup Adjacent(E, WithinHops(E, root, max)[h-1])]
<1> DEFINE Def(f, n) == f = [h \in 0..n |-> IF h = 0 THEN {root}
                                            ELSE f[h-1] \cup Adjacent(E, f[h-1])]
           S == {n \in 0..max : \E f : Def(f, n)}
<1>1. 0 \in S
  <2> DEFINE f == [h \in 0..0 |-> {root}]
  <2>1. Def(f, 0)
    OBVIOUS
  <2> HIDE DEF f, Def
  <2>2. QED  BY <2>1
<1>2. ASSUME NEW n \in 0..max-1, n \in S PROVE n + 1 \in S
  <2>1. PICK f : Def(f, n)
    BY <1>2
  <2> DEFINE g == [h \in 0..n+1 |-> IF h = n+1 THEN f[n] \cup Adjacent(E, f[n]) ELSE f[h]]
  <2>2. ASSUME NEW h \in 0..n+1
        PROVE  g[h] = IF h = 0 THEN {root} ELSE g[h-1] \cup Adjacent(E, g[h-1])
    <3>1. CASE h = n+1
      BY <3>1
    <3>2. CASE h # n+1 /\ h # 0
      <4>1. h \in 0..n /\ h-1 \in 0..n
        BY <3>2
      <4>2. f[h] = f[h-1] \cup Adjacent(E, f[h-1])
        BY <2>1, <3>2, <4>1
      <4>3. g[h] = f[h] /\ g[h-1] = f[h-1]
        BY <3>2, <4>1
      <4>4. QED  BY <3>2, <4>2, <4>3
    <3>3. CASE h = 0
      BY <2>1, <3>3
    <3>4. QED  BY <3>1, <3>2, <3>3
  <2> HIDE DEF Def
  <2>3. Def(g, n+1)
    BY <2>2 DEF Def
  <2>4. QED  BY <2>3
<1>3. max \in S
  <2> HIDE DEF S
  <2>1. QED  BY <1>1, <1>2, UpTo
<1>4. \E f : Def(f, max)
  BY <1>3
<1>5. WithinHops(E, root, max) = CHOOSE f : Def(f, max)
  BY DEF WithinHops
<1>6. QED
  <2> HIDE DEF Def
  <2>1. Def(WithinHops(E, root, max), max)
    BY <1>4, <1>5
  <2>2. QED  BY <2>1 DEF Def

(* ... and its values are those it is meant to have.                        *)
LEMMA WithinHopsValues ==
    ASSUME NEW E, NEW root, NEW max \in Nat
    PROVE  /\ WithinHops(E, root, max)[0] = {root}
           /\ \A h \in 1..max :
                 WithinHops(E, root, max)[h] =
                    WithinHops(E, root, max)[h-1]
                    \cup Adjacent(E, WithinHops(E, root, max)[h-1])
<1> DEFINE W == WithinHops(E, root, max)
<1>1. W = [h \in 0..max |-> IF h = 0 THEN {root} ELSE W[h-1] \cup Adjacent(E, W[h-1])]
  BY WithinHopsDef
<1> HIDE DEF W
<1>2. W[0] = {root}
  BY <1>1
<1>3. ASSUME NEW h \in 1..max PROVE W[h] = W[h-1] \cup Adjacent(E, W[h-1])
  <2>1. h \in 0..max /\ h # 0
    OBVIOUS
  <2>2. QED  BY <1>1, <2>1
<1>4. QED  BY <1>2, <1>3 DEF W

(* Neighbours are reached over an edge of the set.                          *)
LEMMA AdjacentMonotone ==
    ASSUME NEW E, NEW F, NEW S, NEW T, S \subseteq T,
           \A e \in E : \E f \in F : SameEdge(e, f)
    PROVE  Adjacent(E, S) \subseteq Adjacent(F, T)
BY DEF Adjacent, SameEdge

(* With a root that is d hops away, and over edges that are among those of  *)
(* F, one gets no farther than with d more hops over F.                     *)
LEMMA HopsFollow ==
    ASSUME NEW E, NEW r, NEW m \in Nat, NEW F, NEW s, NEW k \in Nat,
           NEW d \in Nat, m + d <= k,
           \A e \in E : \E f \in F : SameEdge(e, f),
           r \in WithinHops(F, s, k)[d]
    PROVE  \A h \in 0..m : WithinHops(E, r, m)[h] \subseteq WithinHops(F, s, k)[h+d]
<1> DEFINE V == WithinHops(E, r, m)
           W == WithinHops(F, s, k)
           S == {h \in 0..m : V[h] \subseteq W[h+d]}
<1>1. V[0] = {r} /\ \A h \in 1..m : V[h] = V[h-1] \cup Adjacent(E, V[h-1])
  BY WithinHopsValues
<1>2. \A h \in 1..k : W[h] = W[h-1] \cup Adjacent(F, W[h-1])
  BY WithinHopsValues
<1>3. r \in W[d]
  OBVIOUS
<1> HIDE DEF V, W
<1>4. 0 \in S
  BY <1>1, <1>3
<1>5. ASSUME NEW h \in 0..m-1, h \in S PROVE h + 1 \in S
  <2>1. h + 1 \in 1..m /\ h + 1 + d \in 1..k /\ (h + 1 + d) - 1 = h + d /\ (h + 1) - 1 = h
    OBVIOUS
  <2>2. V[h+1] = V[h] \cup Adjacent(E, V[h])
    BY <1>1, <2>1
  <2>3. W[h+1+d] = W[h+d] \cup Adjacent(F, W[h+d])
    BY <1>2, <2>1
  <2>4. V[h] \subseteq W[h+d]
    BY <1>5
  <2>5. Adjacent(E, V[h]) \subseteq Adjacent(F, W[h+d])
    BY <2>4, AdjacentMonotone
  <2>6. V[h+1] \subseteq W[h+1+d]
    BY <2>2, <2>3, <2>4, <2>5
  <2>7. QED  BY <2>1, <2>6
<1>6. 0..m \subseteq S
  <2> HIDE DEF S
  <2>1. QED  BY <1>4, <1>5, UpTo
<1>7. QED  BY <1>6 DEF V, W

(* More hops get no less far.                                               *)
LEMMA HopsGrow ==
    ASSUME NEW E, NEW r, NEW m \in Nat, NEW h \in 0..m, NEW k \in h..m
    PROVE  WithinHops(E, r, m)[h] \subseteq WithinHops(E, r, m)[k]
<1> DEFINE W == WithinHops(E, r, m)
           S == {d \in 0..m-h : W[h] \subseteq W[h+d]}
<1>1. \A j \in 1..m : W[j] = W[j-1] \cup Adjacent(E, W[j-1])
  BY WithinHopsValues
<1> HIDE DEF W
<1>2. 0 \in S
  OBVIOUS
<1>3. ASSUME NEW d \in 0..(m-h)-1, d \in S PROVE d + 1 \in S
  <2>1. h + (d + 1) \in 1..m /\ (h + (d + 1)) - 1 = h + d /\ d + 1 \in 0..m-h
    OBVIOUS
  <2>2. W[h+d] \subseteq W[h+(d+1)]
    BY <1>1, <2>1
  <2>3. QED  BY <1>3, <2>1, <2>2
<1>4. 0..m-h \subseteq S
  <2> HIDE DEF S
  <2>1. m - h \in Nat
    OBVIOUS
  <2>2. QED  BY <1>2, <1>3, <2>1, UpTo
<1>5. k - h \in S /\ h + (k - h) = k
  BY <1>4
<1>6. QED  BY <1>5 DEF W

-----------------------------------------------------------------------------
(* One call after the other: a batch that has been stored and one more      *)
(* entry are a larger batch.                                                *)

(* One more candidate gets in if there is room.                             *)
LEMMA FittingMore ==
    ASSUME NEW C, IsFiniteSet(C), NEW room \in Nat, NEW S \in Fitting(C, room), NEW x, x \notin S
    PROVE  /\ Cardinality(S) < room => S \cup {x} \in Fitting(C \cup {x}, room)
           /\ Cardinality(S) >= room => S \in Fitting(C \cup {x}, room)
<1>1. S \subseteq C /\ IsFiniteSet(S) /\ Cardinality(S) \in Nat /\ Cardinality(S) <= room
  BY FittingLemma, FS_CardinalityType
<1>2. IsFiniteSet(C \cup {x}) /\ Cardinality(C \cup {x}) \in Nat
  BY FS_AddElement, FS_CardinalityType
<1>3. S \cup {x} \subseteq C \cup {x} /\ Cardinality(S \cup {x}) = Cardinality(S) + 1
  BY <1>1, FS_AddElement
<1>4. CASE Cardinality(S) < room
  <2>1. S = C
    BY <1>1, <1>4 DEF Fitting
  <2>2. Cardinality(C \cup {x}) <= room
    BY <1>1, <1>3, <1>4, <2>1
  <2>3. QED  BY <1>1, <1>4, <2>1, <2>2 DEF Fitting
<1>5. CASE Cardinality(S) >= room
  <2>1. Cardinality(S \cup {x}) <= Cardinality(C \cup {x})
    BY <1>2, <1>3, FS_Subset
  <2>2. Cardinality(C \cup {x}) > room /\ Cardinality(S) = room
    BY <1>1, <1>2, <1>3, <1>5, <2>1
  <2>3. QED  BY <1>1, <1>2, <1>5, <2>2 DEF Fitting
<1>6. QED  BY <1>1, <1>4, <1>5

LEMMA FittingNone ==
    ASSUME NEW room \in Nat PROVE Fitting({}, room) = {{}}
<1>1. Cardinality({}) = 0
  BY FS_EmptySet
<1>2. QED  BY <1>1 DEF Fitting

LEMMA AddNoNodes ==
    ASSUME NEW N, IsFiniteSet(N), Cardinality(N) <= MAX_NODES
    PROVE  add_nodes(N, {}) = {N}
<1>1. MAX_NODES - Cardinality(N) \in Nat
  BY FS_CardinalityType, CapacityAssumption
<1>2. QED  BY <1>1, FittingNone DEF add_nodes

LEMMA AddOneMoreNode ==
    ASSUME NEW N, IsFiniteSet(N), Cardinality(N) <= MAX_NODES,
           NEW new, IsFiniteSet(new), NEW M \in add_nodes(N, new), NEW x,
           NEW P, P = IF x \in M \/ Cardinality(M) < MAX_NODES THEN M \cup {x} ELSE M
    PROVE  P \in add_nodes(N, new \cup {x})
<1> DEFINE room == MAX_NODES - Cardinality(N)
           C == new \ N
<1>1. room \in Nat /\ Cardinality(N) \in Nat /\ IsFiniteSet(C)
  <2>1. Cardinality(N) \in Nat /\ IsFiniteSet(C)
    BY FS_CardinalityType, FS_Subset
  <2>2. QED  BY <2>1, CapacityAssumption
<1>2. PICK S \in Fitting(C, room) : M = N \cup S
  BY DEF add_nodes
<1>3. S \subseteq C /\ IsFiniteSet(S) /\ Cardinality(S) \in Nat
  BY <1>1, <1>2, FittingLemma, FS_CardinalityType
<1>4. Cardinality(M) = Cardinality(N) + Cardinality(S)
  <2>1. N \cap S = {}
    BY <1>3
  <2>2. Cardinality(N \cap S) = 0
    BY <2>1, FS_EmptySet
  <2>3. Cardinality(N \cup S) = Cardinality(N) + Cardinality(S) - Cardinality(N \cap S)
    BY <1>3, FS_Union
  <2> HIDE DEF C, room
  <2>4. QED  BY <1>1, <1>2, <1>3, <2>2, <2>3
<1>5. CASE x \in N
  <2>1. (new \cup {x}) \ N = C /\ P = M
    BY <1>2, <1>5
  <2>2. QED  BY <1>2, <2>1 DEF add_nodes
<1>6. CASE x \in S
  <2>1. (new \cup {x}) \ N = C /\ P = M
    BY <1>2, <1>3, <1>6
  <2>2. QED  BY <1>2, <2>1 DEF add_nodes
<1>7. CASE x \notin N /\ x \notin S
  <2>1. (new \cup {x}) \ N = C \cup {x}
    BY <1>7
  <2>2. CASE Cardinality(S) < room
    <3>1. S \cup {x} \in Fitting(C \cup {x}, room)
      BY <1>1, <1>2, <1>7, <2>2, FittingMore
    <3>2. P = N \cup (S \cup {x})
      BY <1>1, <1>2, <1>3, <1>4, <2>2, CapacityAssumption
    <3>3. QED  BY <2>1, <3>1, <3>2 DEF add_nodes
  <2>3. CASE Cardinality(S) >= room
    <3>1. S \in Fitting(C \cup {x}, room)
      BY <1>1, <1>2, <1>7, <2>3, FittingMore
    <3>2. P = N \cup S
      BY <1>1, <1>2, <1>3, <1>4, <1>7, <2>3, CapacityAssumption
    <3>3. QED  BY <2>1, <3>1, <3>2 DEF add_nodes
  <2>4. QED  BY <1>1, <1>3, <2>2, <2>3
<1>8. QED  BY <1>5, <1>6, <1>7

LEMMA AddNoEdges ==
    ASSUME NEW N, NEW E, IsFiniteSet(E), Cardinality(E) <= MAX_EDGES
    PROVE  add_edges(N, E, {}) = {E}
<1>1. MAX_EDGES - Cardinality(E) \in Nat
  BY FS_CardinalityType, CapacityAssumption
<1>2. Overwriting(E, {}) = {} /\ Overwritten(E, {}) = {} /\ Insertable(N, E, {}) = {}
  BY DEF Overwriting, Overwritten, Insertable
<1>3. add_edges(N, E, {}) =
         {(E \ Overwritten(E, {})) \cup Overwriting(E, {}) \cup S :
             S \in Fitting(Insertable(N, E, {}), MAX_EDGES - Cardinality(E))}
  BY DEF add_edges, Overwriting, Overwritten, Insertable
<1>4. Fitting(Insertable(N, E, {}), MAX_EDGES - Cardinality(E)) = {{}}
  BY <1>1, <1>2, FittingNone
<1>5. \A F : F \in add_edges(N, E, {}) <=> \E S \in {{}} : F = (E \ {}) \cup {} \cup S
  BY <1>2, <1>3, <1>4
<1>6. QED  BY <1>5

(* An edge that is overwritten gives its place to the one that overwrites   *)
(* it.                                                                      *)
LEMMA AddEdgesCount ==
    ASSUME NEW E, NEW new, IsFiniteSet(E), IsFiniteSet(new), Single(E), Single(new),
           NEW S \in SUBSET new, \A e \in S : find_edge(E, e) = {}
    PROVE  Cardinality((E \ Overwritten(E, new)) \cup Overwriting(E, new) \cup S)
              = Cardinality(E) + Cardinality(S)
<1> DEFINE O == Overwriting(E, new)
           U == Overwritten(E, new)
<1>1. O \in SUBSET new /\ U \in SUBSET E
  BY DEF Overwriting, Overwritten
<1>2. IsFiniteSet(S) /\ IsFiniteSet(O) /\ IsFiniteSet(U)
  BY <1>1, FS_Subset
<1>3. Cardinality(O) = Cardinality(U)
  <2> DEFINE f == [e \in O |-> CHOOSE g \in U : SameEdge(e, g)]
  <2>1. \A e \in O : \E g \in U : SameEdge(e, g)
    <3> SUFFICES ASSUME NEW e \in O PROVE \E g \in U : SameEdge(e, g)
      OBVIOUS
    <3>1. PICK g \in find_edge(E, e) : TRUE
      BY DEF Overwriting
    <3>2. g \in E /\ SameEdge(e, g)
      BY <3>1 DEF find_edge
    <3>3. QED  BY <3>2 DEF Overwritten
  <2>2. \A e \in O : f[e] \in U /\ SameEdge(e, f[e])
    BY <2>1
  <2>3. \A d, e \in O : f[d] = f[e] => d = e
    <3> SUFFICES ASSUME NEW d \in O, NEW e \in O, f[d] = f[e] PROVE d = e
      OBVIOUS
    <3>1. SameEdge(d, e)
      BY <2>2 DEF SameEdge
    <3>2. QED  BY <3>1, <1>1 DEF Single
  <2>4. \A g \in U : \E e \in O : f[e] = g
    <3> SUFFICES ASSUME NEW g \in U PROVE \E e \in O : f[e] = g
      OBVIOUS
    <3>1. PICK e \in O : SameEdge(e, g)
      BY DEF Overwritten
    <3>2. SameEdge(f[e], g)
      BY <2>2, <3>1 DEF SameEdge
    <3>3. QED  BY <1>1, <2>2, <3>2 DEF Single
  <2>5. f \in Bijection(O, U)
    BY <2>2, <2>3, <2>4 DEF Bijection, Injection, Surjection, IsInjective
  <2>6. ExistsBijection(O, U)
    BY <2>5 DEF ExistsBijection
  <2>7. QED  BY <2>6, <1>2, FS_Bijection
<1>4. IsFiniteSet(E \ U) /\ Cardinality(E \ U) = Cardinality(E) - Cardinality(U)
  <2>1. E \cap U = U
    BY <1>1
  <2>2. QED  BY <2>1, FS_Difference
<1>5. ASSUME NEW e \in O PROVE e \notin E \ U
  <2>1. e \in E => e \in U
    BY <1>5 DEF Overwritten, SameEdge
  <2>2. QED  BY <2>1
<1>6. ASSUME NEW e \in S PROVE e \notin (E \ U) \cup O
  <2>1. find_edge(E, e) = {}
    BY <1>6
  <2>2. e \notin E
    BY <2>1 DEF find_edge, SameEdge
  <2>3. e \notin O
    BY <2>1 DEF Overwriting
  <2>4. QED  BY <2>2, <2>3
<1> HIDE DEF O, U
<1>7. (E \ U) \cap O = {} /\ ((E \ U) \cup O) \cap S = {} /\ Cardinality({}) = 0
  BY <1>5, <1>6, FS_EmptySet
<1>8. Cardinality((E \ U) \cap O) = 0 /\ Cardinality(((E \ U) \cup O) \cap S) = 0
  BY <1>7
<1>9. /\ IsFiniteSet((E \ U) \cup O)
      /\ Cardinality((E \ U) \cup O) = Cardinality(E \ U) + Cardinality(O)
  <2>1. Cardinality(E \ U) \in Nat /\ Cardinality(O) \in Nat
    BY <1>2, <1>4, FS_CardinalityType
  <2>2. /\ IsFiniteSet((E \ U) \cup O)
        /\ Cardinality((E \ U) \cup O) =
              Cardinality(E \ U) + Cardinality(O) - Cardinality((E \ U) \cap O)
    BY <1>2, <1>4, FS_Union
  <2>3. QED  BY <1>8, <2>1, <2>2
<1>10. Cardinality((E \ U) \cup O \cup S) =
         Cardinality((E \ U) \cup O) + Cardinality(S) - Cardinality(((E \ U) \cup O) \cap S)
  BY <1>2, <1>9, FS_Union
<1>11. /\ Cardinality(E) \in Nat /\ Cardinality(U) \in Nat /\ Cardinality(O) \in Nat
       /\ Cardinality(S) \in Nat
  BY <1>2, FS_CardinalityType
<1>12. QED  BY <1>3, <1>4, <1>8, <1>9, <1>10, <1>11 DEF O, U

LEMMA AddOneMoreEdge ==
    ASSUME NEW N, NEW E, IsFiniteSet(E), Single(E), Cardinality(E) <= MAX_EDGES,
           NEW new, IsFiniteSet(new), NEW F \in add_edges(N, E, new),
           NEW e, e \notin new, Single(new \cup {e}),
           \A f \in E : f.ttl \in Nat, e.ttl \in Nat,
           NEW G,
           G = IF find_edge(F, e) # {}
               THEN IF \E f \in find_edge(F, e) : f.ttl > e.ttl THEN F
                    ELSE (F \ find_edge(F, e)) \cup {e}
               ELSE IF e.src \in N /\ e.dst \in N /\ Cardinality(F) < MAX_EDGES
               THEN F \cup {e} ELSE F
    PROVE  G \in add_edges(N, E, new \cup {e})
<1> DEFINE room == MAX_EDGES - Cardinality(E)
           more == new \cup {e}
           O == Overwriting(E, new)
           U == Overwritten(E, new)
           C == Insertable(N, E, new)
<1>1. Cardinality(E) \in Nat /\ room \in Nat
  BY FS_CardinalityType, CapacityAssumption
<1>2. PICK S \in Fitting(C, room) : F = (E \ U) \cup O \cup S
  BY AddEdgesParts
<1>3. C \in SUBSET new /\ O \in SUBSET new /\ U \in SUBSET E /\ Single(new)
  BY DEF Insertable, Overwriting, Overwritten, Single
<1>4. IsFiniteSet(C) /\ S \subseteq C /\ IsFiniteSet(S) /\ Cardinality(S) \in Nat
  <2>1. IsFiniteSet(C)
    BY <1>3, FS_Subset
  <2>2. QED  BY <1>1, <1>2, <2>1, FittingLemma, FS_CardinalityType
<1>5. Cardinality(F) = Cardinality(E) + Cardinality(S)
  <2>1. S \in SUBSET new /\ \A g \in S : find_edge(E, g) = {}
    BY <1>3, <1>4 DEF Insertable
  <2>2. QED  BY <1>2, <1>3, <2>1, AddEdgesCount
<1>6. \A g \in new : ~SameEdge(e, g) /\ ~SameEdge(g, e)
  BY DEF Single, SameEdge
<1>7. find_edge(F, e) = find_edge(E, e)
  <2>1. ASSUME NEW g \in U PROVE ~SameEdge(e, g)
    <3>1. PICK o \in O : SameEdge(o, g)
      BY DEF Overwritten
    <3>2. ~SameEdge(o, e)
      BY <1>3, <1>6
    <3>3. QED  BY <3>1, <3>2 DEF SameEdge
  <2>2. \A g \in O \cup S : ~SameEdge(e, g)
    BY <1>3, <1>4, <1>6
  <2> HIDE DEF O, U, C
  <2>3. QED  BY <1>2, <1>3, <2>1, <2>2 DEF find_edge
<1>8. Insertable(N, E, more) = IF find_edge(E, e) = {} /\ e.src \in N /\ e.dst \in N
                               THEN C \cup {e} ELSE C
  BY DEF Insertable
<1>9. /\ Overwriting(E, more) =
            IF \E f \in find_edge(E, e) : f.ttl <= e.ttl THEN O \cup {e} ELSE O
      /\ Overwritten(E, more) =
            IF \E f \in find_edge(E, e) : f.ttl <= e.ttl THEN U \cup find_edge(E, e) ELSE U
  <2>1. Overwriting(E, more) =
           IF \E f \in find_edge(E, e) : f.ttl <= e.ttl THEN O \cup {e} ELSE O
    BY DEF Overwriting
  <2>2. QED  BY <2>1 DEF Overwritten, find_edge
<1>10. SUFFICES \E T \in Fitting(Insertable(N, E, more), room) :
                   G = (E \ Overwritten(E, more)) \cup Overwriting(E, more) \cup T
  BY DEF add_edges, Overwriting, Overwritten, Insertable
<1>11. \A g \in O \cup S : g \notin find_edge(E, e)
  BY <1>3, <1>4, <1>6 DEF find_edge
<1>12. e \notin S
  BY <1>3, <1>4
<1> HIDE DEF O, U, C, more
<1>13. CASE find_edge(E, e) # {}
  <2>1. PICK f \in E : SameEdge(e, f) /\ find_edge(E, e) = {f}
    BY <1>13 DEF find_edge, Single, SameEdge
  <2>2. f.ttl \in Nat
    BY <2>1
  <2>3. CASE f.ttl > e.ttl
    <3>1. ~(\E g \in find_edge(E, e) : g.ttl <= e.ttl)
      BY <2>1, <2>2, <2>3
    <3>2. G = F
      BY <1>7, <1>13, <2>1, <2>3
    <3>3. QED  BY <1>2, <1>8, <1>9, <1>13, <3>1, <3>2
  <2>4. CASE ~(f.ttl > e.ttl)
    <3>1. \E g \in find_edge(E, e) : g.ttl <= e.ttl
      BY <2>1, <2>2, <2>4
    <3>2. G = (F \ {f}) \cup {e}
      BY <1>7, <1>13, <2>1, <2>4
    <3>3. (F \ {f}) \cup {e} = (E \ (U \cup {f})) \cup (O \cup {e}) \cup S
      BY <1>2, <1>11, <2>1
    <3>4. QED  BY <1>2, <1>8, <1>9, <1>13, <2>1, <3>1, <3>2, <3>3
  <2>5. QED  BY <2>3, <2>4
<1>14. CASE find_edge(E, e) = {}
  <2>1. Overwriting(E, more) = O /\ Overwritten(E, more) = U
    BY <1>9, <1>14
  <2>2. CASE ~(e.src \in N /\ e.dst \in N)
    BY <1>2, <1>7, <1>8, <1>14, <2>1, <2>2
  <2>3. CASE e.src \in N /\ e.dst \in N
    <3>1. Insertable(N, E, more) = C \cup {e}
      BY <1>8, <1>14, <2>3
    <3>2. CASE Cardinality(S) < room
      <4>1. S \cup {e} \in Fitting(C \cup {e}, room)
        BY <1>1, <1>2, <1>4, <1>12, <3>2, FittingMore
      <4>2. Cardinality(F) < MAX_EDGES
        BY <1>1, <1>4, <1>5, <3>2, CapacityAssumption
      <4>3. G = (E \ U) \cup O \cup (S \cup {e})
        BY <1>2, <1>7, <1>14, <2>3, <4>2
      <4>4. QED  BY <2>1, <3>1, <4>1, <4>3
    <3>3. CASE Cardinality(S) >= room
      <4>1. S \in Fitting(C \cup {e}, room)
        BY <1>1, <1>2, <1>4, <1>12, <3>3, FittingMore
      <4>2. ~(Cardinality(F) < MAX_EDGES)
        BY <1>1, <1>4, <1>5, <3>3, CapacityAssumption
      <4>3. G = (E \ U) \cup O \cup S
        BY <1>2, <1>7, <1>14, <4>2
      <4>4. QED  BY <2>1, <3>1, <4>1, <4>3
    <3>4. QED  BY <1>1, <1>4, <3>2, <3>3
  <2>4. QED  BY <2>2, <2>3
<1>15. QED  BY <1>13, <1>14
=============================================================================
