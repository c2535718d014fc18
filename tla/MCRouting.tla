------------------------------ MODULE MCRouting ------------------------------
(* Small networks and traffic for Routing.                                  *)
EXTENDS Routing, TLC

CONSTANTS a, b, c, d, m1, m2

(* a, b, c and d in a line; the hops between them have length 1, 1 and 2.   *)
Place == a :> 0 @@ b :> 1 @@ c :> 2 @@ d :> 4

Square == [p \in Node \X Node |->
              (Place[p[1]] - Place[p[2]]) * (Place[p[1]] - Place[p[2]])]

(* Everybody hears the motes beside it.                                     *)
Heard == a :> {b} @@ b :> {a, c} @@ c :> {b, d} @@ d :> {c}

Graph(ends, nodes) == [ends |-> ends, nodes |-> nodes]

(* Views that do not change: the line, the line without the link between c  *)
(* and d, and the first three motes of the line.                            *)
Line == [n \in Node |-> {Graph(Heard[n], Node)}]
Gap == [Line EXCEPT ![c] = {Graph({b}, Node)}, ![d] = {Graph({}, {d})}]
Meet == [n \in Node |-> {Graph(Heard[n] \ {d}, Node)}]

(* a finds a way around b at times and loses it again.  b keeps its edge to *)
(* c, but not always the node at its end.                                   *)
Shifting == [Line EXCEPT ![a] = {Graph({b}, Node), Graph({c}, Node)},
                         ![b] = {Graph({a, c}, Node), Graph({a, c}, Node \ {c})}]

(* The ends of the messages.                                                *)
FromA == m1 :> a @@ m2 :> a
FromAAndB == m1 :> a @@ m2 :> b
FromAAndC == m1 :> a @@ m2 :> c
ToB == m1 :> b @@ m2 :> b
ToC == m1 :> c @@ m2 :> c
ToCAndD == m1 :> c @@ m2 :> d
ToD == m1 :> d @@ m2 :> d

(* The hash of a packet depends on the hop before and the data; m1 and m2   *)
(* have the same data.                                                      *)
SameData == [p \in Node \X Msg |-> p[1]]

(* All packets have different hashes.                                       *)
Distinct == [p \in Node \X Msg |-> p]

(* All but that of m2 from c, which has the hash every mote starts with.    *)
(* The packets of m1 have hashes of their own.                              *)
Zero == [Distinct EXCEPT ![<<c, m2>>] = InitialHash]

Distincts == (Node \X Msg) \cup {InitialHash}
SameDatas == Node \cup {InitialHash}
=============================================================================
