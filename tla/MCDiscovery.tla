----------------------------- MODULE MCDiscovery -----------------------------
(* Small networks for Discovery.                                            *)
EXTENDS Discovery

CONSTANTS a, b, c, d

Directed(S) == {[src |-> p[1], dst |-> p[2]] : p \in S}
Both(S) == Directed(S) \cup Directed({<<p[2], p[1]>> : p \in S})

(* Two motes that hear each other.                                          *)
Pair == Both({<<a, b>>})

(* a and b hear each other, c hears only b, and d only c: knowledge flows   *)
(* from a and b to c, and what c knows of a is too far away for d.          *)
Ear3 == Pair \cup Directed({<<b, c>>})
Ear4 == Ear3 \cup Directed({<<c, d>>})

(* One-way links in a circle: what a mote reports comes back to it.         *)
Ring3 == Directed({<<a, b>>, <<b, c>>, <<c, a>>})
=============================================================================
