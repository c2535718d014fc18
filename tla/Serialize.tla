------------------------------ MODULE Serialize ------------------------------
(***************************************************************************)
(* What serialize() makes of a local graph: the packets, each of one source *)
(* node and some of its outgoing edges, that tell the neighbours about the  *)
(* part of the graph within K-1 hops.  Operators on values, like those of   *)
(* LocalGraph; the loops behind them are in Mote.                           *)
(***************************************************************************)
EXTENDS LocalGraph

CONSTANTS
    K,              \* size of the neighbourhood, in hops
    EdgesPerPacket  \* edges that fit in MAX_BROADCAST_PAYLOAD_SIZE

ASSUME ReportAssumption ==
    /\ K \in Nat
    /\ EdgesPerPacket \in Nat \ {0}

-----------------------------------------------------------------------------
(* The edges of x that are sent: of a node K-1 hops away only the edges     *)
(* back to the nodes K-2 hops away and to the root.                         *)
Packable(n, E, within, x) ==
    IF x \in AtHop(within, K-1)
    THEN {e \in get_outgoing_edges(E, x) :
            e.dst = n \/ e.dst \in AtHop(within, K-2)}
    ELSE get_outgoing_edges(E, x)

(* The ways to cut the edges of one source into packets: a packet is sent   *)
(* when it is full and edges are left to look at, and what remains is sent  *)
(* at the end, so that a last packet without edges follows when none of the *)
(* edges looked at after the last full packet is packable.                  *)
Packings(packable, outgoing) ==
    {C \in SUBSET SUBSET packable :
        /\ UNION C = packable /\ C # {}
        /\ \A c \in C : Cardinality(c) <= EdgesPerPacket
        /\ \A c, d \in C : c # d =>
              /\ c \cap d = {}
              /\ EdgesPerPacket \in {Cardinality(c), Cardinality(d)}
        /\ {} \in C => packable = {} \/ packable # outgoing}

(* A bug for the mutants: nodes one hop too far away are sent as well.      *)
Sources_far(n, E, within) ==
    {n} \cup {x \in within[K-1] \cup Adjacent(E, within[K-1]) :
               get_outgoing_edges(E, x) # {}}

(* A bug for the mutants: only the mote's own edges are sent.               *)
Sources_own(n, E, within) == {n}

(* The sources of the packets: the root always, another node within K-1     *)
(* hops only if it has outgoing edges.                                      *)
Sources(n, E, within) ==
    {n} \cup {x \in within[K-1] : get_outgoing_edges(E, x) # {}}

(* The sets of packets that a mote n with the edges E broadcasts.           *)
serialize(n, E) ==
    IF K = 0 THEN {{}}
    ELSE IF K = 1 THEN {{[src |-> n, drains |-> {}]}}
    ELSE LET within  == WithinHops(E, n, K-1)
             sources == Sources(n, E, within)
             pack    == [x \in sources |->
                            Packings(Packable(n, E, within, x),
                                     get_outgoing_edges(E, x))]
         IN  {UNION {{[src |-> x, drains |-> c] : c \in f[x]} : x \in sources} :
                f \in {g \in [sources -> UNION {pack[x] : x \in sources}] :
                          \A x \in sources : g[x] \in pack[x]}}
=============================================================================
