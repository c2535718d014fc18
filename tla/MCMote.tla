------------------------------- MODULE MCMote -------------------------------
(* A mote r and what it hears of its neighbourhood.                         *)
EXTENDS Mote

CONSTANTS r, a, b, c, d

Edge(x, y, t) == [src |-> x, dst |-> y, ttl |-> t]
From(x, y, drains) == [from |-> x, src |-> y, drains |-> drains]

(* a is the neighbour.  It tells of b, two hops away, and of edges of b to   *)
(* c and d, three hops away; only one of those two finds room.  Five nodes  *)
(* and five edges come in, for pools of four.                               *)
Heard == {From(a, r, <<Edge(r, a, TTL)>>),
          From(a, b, <<Edge(b, a, TTL)>>),
          From(a, b, <<Edge(b, c, TTL)>>),
          From(a, b, <<Edge(b, d, 1)>>)}
=============================================================================
