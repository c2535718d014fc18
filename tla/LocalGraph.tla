----------------------------- MODULE LocalGraph -----------------------------
(***************************************************************************)
(* The information pool of one mote (graph.c) and the two operations that   *)
(* work on it as a whole (graph-operations.c), as operators on values.      *)
(*                                                                         *)
(* A pool is a pair of a set N of addresses (the p_node_t entries) and a    *)
(* set E of edge records [src, dst, ttl] (the p_edge_t entries).  What the  *)
(* code stores beside that is left out because no decision depends on it:   *)
(* the position of a node is a constant of the build (positions.c) that     *)
(* every copy carries unchanged, and rssi and lqi are copied, never read.   *)
(* The position of an entry in its array is abstracted as well; where it    *)
(* decides an outcome (which entries still fit into a full pool) the        *)
(* operator returns the set of the outcomes of every order.                 *)
(***************************************************************************)
EXTENDS Integers, FiniteSets

CONSTANTS
    MAX_NODES,  \* capacity of node_memory
    MAX_EDGES   \* capacity of edge_memory

ASSUME CapacityAssumption ==
    /\ MAX_NODES \in Nat \ {0}
    /\ MAX_EDGES \in Nat

(* The counts and the counters of the loops over the arrays are uint8_t.    *)
(* They hold the numbers of these pools; in larger ones they would wrap,    *)
(* which the naturals of the modules do not.                                *)
ASSUME CounterAssumption == MAX_NODES < 256 /\ MAX_EDGES < 256

-----------------------------------------------------------------------------
(* Lookups.  The result of find_edge has at most one element.               *)

SameEdge(e, f) == e.src = f.src /\ e.dst = f.dst

find_edge(E, e) == {f \in E : SameEdge(e, f)}

get_outgoing_edges(E, x) == {e \in E : e.src = x}

Endpoints(E) == {e.src : e \in E} \cup {e.dst : e \in E}

-----------------------------------------------------------------------------
(* Insertion of a batch of distinct entries, one call per entry in an       *)
(* order that is not fixed.                                                 *)

(* A bug for the mutants: the count is not compared with the capacity.      *)
Fitting_anyway(candidates, room) == {candidates}

(* The candidates that get the remaining room: all of them, or as many as   *)
(* there are free entries.                                                  *)
Fitting(candidates, room) ==
    IF Cardinality(candidates) <= room
    THEN {candidates}
    ELSE {S \in SUBSET candidates : Cardinality(S) = room}

add_nodes(N, new) ==
    {N \cup S : S \in Fitting(new \ N, MAX_NODES - Cardinality(N))}

(* Bugs for the mutants: stored edges are overwritten without a look at the *)
(* ttl; they are stored a second time; the ends of a new edge are not       *)
(* looked up.                                                               *)
add_edges_latest(N, E, new) ==
    LET known == {e \in new : find_edge(E, e) # {}}
    IN  {{f \in E : find_edge(known, f) = {}} \cup known \cup S :
            S \in Fitting({e \in new \ known : e.src \in N /\ e.dst \in N},
                         MAX_EDGES - Cardinality(E))}

add_edges_again(N, E, new) ==
    {E \cup S : S \in Fitting({e \in new : e.src \in N /\ e.dst \in N} \ E,
                              MAX_EDGES - Cardinality(E))}

add_edges_unknown(N, E, new) ==
    {E \cup S : S \in Fitting({e \in new : find_edge(E, e) = {}},
                              MAX_EDGES - Cardinality(E))}

(* An edge that is stored already is overwritten unless the stored ttl is   *)
(* greater; another one is stored if there is room and both its ends are    *)
(* known nodes.                                                             *)
add_edges(N, E, new) ==
    LET overwriting == {e \in new : \E f \in find_edge(E, e) : f.ttl <= e.ttl}
        overwritten == {f \in E : \E e \in overwriting : SameEdge(e, f)}
        insertable  == {e \in new : /\ find_edge(E, e) = {}
                                    /\ e.src \in N /\ e.dst \in N}
    IN  {(E \ overwritten) \cup overwriting \cup S :
            S \in Fitting(insertable, MAX_EDGES - Cardinality(E))}

-----------------------------------------------------------------------------
(* purge(): diff seconds have passed since the last call.  A node is        *)
(* dropped when its last edge has just been, the mote's own node never is.  *)

(* Bugs for the mutants: an edge whose ttl is just used up stays; the ttl   *)
(* of an edge that stays is not decreased; nodes are never dropped.         *)
Expired_late(E, diff) == {e \in E : e.ttl < diff}
purge_edges_unaged(E, diff) == {e \in E : e.ttl > diff}
purge_nodes_never(N, E, root, diff) == N

Expired(E, diff) == {e \in E : e.ttl <= diff}

purge_edges(E, diff) ==
    {[src |-> e.src, dst |-> e.dst, ttl |-> e.ttl - diff] : e \in E \ Expired(E, diff)}

purge_nodes(N, E, root, diff) ==
    LET orphans == Endpoints(Expired(E, diff)) \ Endpoints(E \ Expired(E, diff))
    IN  N \ (orphans \ {root})

-----------------------------------------------------------------------------
(* get_hop_counts(): edges are followed in both directions.                 *)

Adjacent(E, S) ==
    {e.dst : e \in {f \in E : f.src \in S}} \cup
    {e.src : e \in {f \in E : f.dst \in S}}

(* The nodes at most 0, 1, ..., max hops away from root.                    *)
WithinHops(E, root, max) ==
    LET within[h \in 0..max] ==
            IF h = 0 THEN {root} ELSE within[h-1] \cup Adjacent(E, within[h-1])
    IN  within

(* The nodes whose hop count is h.                                          *)
AtHop(within, h) == IF h = 0 THEN within[0] ELSE within[h] \ within[h-1]
=============================================================================
