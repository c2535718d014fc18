----------------------------- MODULE GraphMemory -----------------------------
(***************************************************************************)
(* A pool of graph.c as it lies in memory: a block of entries handed out    *)
(* by memb_alloc(), an array of pointers to the entries in use, NULL behind *)
(* them, and a counter.  The pool of the nodes holds addresses, that of the *)
(* edges records [src, dst, ttl].  A pointer is the number of a block.      *)
(***************************************************************************)
EXTENDS Integers, FiniteSetsExt, Sequences

CONSTANT NULL

init_graph(size) ==
    [memory |-> [b \in 0..size-1 |-> NULL],
     array  |-> [k \in 0..size-1 |-> NULL],
     count  |-> 0]

Size(p) == Cardinality(DOMAIN p.array)

(* What the pointers below the counter point to, in the order of the array. *)
At(p, k) == p.memory[p.array[k]]
Used(p) == 0..p.count-1
Entries(p) == {At(p, k) : k \in Used(p)}
Listing(p) == [k \in 1..p.count |-> At(p, k-1)]

-----------------------------------------------------------------------------
(* memb_alloc() takes the lowest free block, and its pointer goes to the    *)
(* first place in the array that is NULL.                                   *)
Insert(p, x) ==
    LET block == Min({b \in DOMAIN p.memory : p.memory[b] = NULL})
        place == Min({k \in DOMAIN p.array : p.array[k] = NULL})
    IN  [memory |-> [p.memory EXCEPT ![block] = x],
         array  |-> [p.array EXCEPT ![place] = block],
         count  |-> p.count + 1]

(* A bug for the mutants: the last pointer is not reset.                    *)
RemoveAt_uncut(p, k) ==
    [memory |-> [p.memory EXCEPT ![p.array[k]] = NULL],
     array  |-> [l \in DOMAIN p.array |->
                    IF k <= l /\ l < p.count - 1 THEN p.array[l+1] ELSE p.array[l]],
     count  |-> p.count - 1]

(* The block is freed and the pointers behind it move up.                   *)
RemoveAt(p, k) ==
    [memory |-> [p.memory EXCEPT ![p.array[k]] = NULL],
     array  |-> [l \in DOMAIN p.array |->
                    IF l = p.count - 1 THEN NULL
                    ELSE IF k <= l /\ l < p.count - 1 THEN p.array[l+1]
                    ELSE p.array[l]],
     count  |-> p.count - 1]

Overwrite(p, k, x) ==
    [memory |-> [p.memory EXCEPT ![p.array[k]] = x],
     array  |-> p.array,
     count  |-> p.count]

-----------------------------------------------------------------------------
(* The places find_node and find_edge look for; the first one counts.       *)
NodeAt(nodes, x) == {k \in Used(nodes) : At(nodes, k) = x}

EdgeAt(edges, src, dst) ==
    {k \in Used(edges) : At(edges, k).src = src /\ At(edges, k).dst = dst}

add_node(nodes, x) ==
    IF NodeAt(nodes, x) # {} THEN Overwrite(nodes, Min(NodeAt(nodes, x)), x)
    ELSE IF nodes.count >= Size(nodes) THEN nodes
    ELSE Insert(nodes, x)

remove_node(nodes, x) ==
    IF NodeAt(nodes, x) = {} THEN nodes
    ELSE RemoveAt(nodes, Min(NodeAt(nodes, x)))

add_edge(nodes, edges, e) ==
    LET places == EdgeAt(edges, e.src, e.dst)
    IN  IF places # {}
        THEN IF At(edges, Min(places)).ttl > e.ttl THEN edges
             ELSE Overwrite(edges, Min(places), e)
        ELSE IF \/ edges.count >= Size(edges)
                \/ NodeAt(nodes, e.src) = {}
                \/ NodeAt(nodes, e.dst) = {}
        THEN edges
        ELSE Insert(edges, e)

remove_edge(edges, src, dst) ==
    IF EdgeAt(edges, src, dst) = {} THEN edges
    ELSE RemoveAt(edges, Min(EdgeAt(edges, src, dst)))

(* What the places hold, in the order of the array.                         *)
Picked(p, places) ==
    LET picked[n \in 0..p.count] ==
            IF n = 0 THEN <<>>
            ELSE IF n-1 \in places THEN Append(picked[n-1], At(p, n-1))
            ELSE picked[n-1]
    IN  picked[p.count]

get_outgoing_edges(edges, x) == Picked(edges, {k \in Used(edges) : At(edges, k).src = x})

get_ingoing_edges(edges, x) == Picked(edges, {k \in Used(edges) : At(edges, k).dst = x})

-----------------------------------------------------------------------------
(* The pointers below the counter point to different blocks, those behind   *)
(* it are NULL, and the blocks that are pointed to are those in use.        *)
Consistent(p) ==
    /\ p.count \in 0..Size(p)
    /\ \A k \in DOMAIN p.array :
          IF k < p.count THEN p.array[k] \in DOMAIN p.memory ELSE p.array[k] = NULL
    /\ \A k, l \in Used(p) : p.array[k] = p.array[l] => k = l
    /\ {b \in DOMAIN p.memory : p.memory[b] # NULL} = {p.array[k] : k \in Used(p)}
=============================================================================
