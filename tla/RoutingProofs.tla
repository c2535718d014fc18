---------------------------- MODULE RoutingProofs ----------------------------
(* Theorems about Routing.                                                  *)
EXTENDS Routing, FiniteSetTheorems, Induction

(* There is always a next hop or nobody to hand the message to: the choice  *)
(* is never empty, and linkaddr_null only when no own edge has its end among *)
(* the nodes.                                                               *)
LEMMA NearestNeighbour ==
    ASSUME TypeOK, NEW n \in Node, NEW dst \in Node
    PROVE  /\ get_nearest_neighbour(n, dst) # {}
           /\ get_nearest_neighbour(n, dst) \subseteq
                 IF Neighbours(graph[n]) = {} THEN {Nobody} ELSE Neighbours(graph[n])
<1> DEFINE known == Neighbours(graph[n])
<1>1. known \subseteq Node
  BY DEF TypeOK, RouterGraph, Neighbours
<1>2. get_nearest_neighbour(n, dst) = Nearest(known, dst)
  BY DEF get_nearest_neighbour
<1> HIDE DEF known
<1>3. CASE known = {}
  BY <1>2, <1>3 DEF Nearest, known
<1>4. CASE known # {}
  <2> DEFINE D(r) == Distance[<<r, dst>>]
             S == {D(r) : r \in known}
  <2>1. \A r \in known : D(r) \in Nat
    BY <1>1, NetworkAssumption
  <2>2. S \in SUBSET Nat /\ S # {}
    BY <1>4, <2>1
  <2>3. PICK x \in S : \A y \in S : x <= y
    BY <2>2, Least
  <2>4. \E r \in known : \A s \in known : D(r) <= D(s)
    BY <2>3
  <2>5. QED  BY <1>2, <1>4, <2>4 DEF Nearest, known
<1>5. QED  BY <1>3, <1>4

(* What the assumptions say of the constants.                               *)
LEMMA Constants ==
    /\ Nobody \notin Node
    /\ View \in [Node -> SUBSET RouterGraph]
    /\ Origin \in [Msg -> Node] /\ Target \in [Msg -> Node]
    /\ InitialHash \in Hash /\ packet_hash \in [Node \X Msg -> Hash]
    /\ MaxTransmissions \in Nat /\ MaxTransmissions >= 1
BY NetworkAssumption, MessageAssumption, RadioAssumption

DataPacket == [from : Node, to : Node, msg : Msg, id : 0..3]

(* What HandOver does to the transmissions and to the packets in flight.    *)
LEMMA HandOverTypes ==
    ASSUME TypeOK, NEW n \in Node, NEW m \in Msg,
           NEW rest \in SUBSET DataPacket, HandOver(n, m, rest)
    PROVE  /\ tx' \in [Node -> {Idle} \cup Transmission]
           /\ \A k \in Node : tx'[k] # Idle => tx'[k].to \in Shown(k)
           /\ data' \subseteq DataPacket
           /\ failed' \subseteq Msg
<1>1. Target[m] \in Node
  BY Constants
<1>2. PICK r \in get_nearest_neighbour(n, Target[m]) :
        \/ /\ r # Nobody /\ ~Busy(n)
           /\ tx' = [tx EXCEPT ![n] = [to |-> r, msg |-> m, rxmit |-> 0]]
           /\ data' = rest \cup {[from |-> n, to |-> r, msg |-> m, id |-> sndnxt[n]]}
           /\ UNCHANGED failed
        \/ /\ r = Nobody \/ Busy(n)
           /\ failed' = failed \cup {m}
           /\ data' = rest
           /\ UNCHANGED tx
  BY DEF HandOver
<1>3. CASE r # Nobody /\ ~Busy(n)
  <2>1. r \in Neighbours(graph[n])
    BY <1>1, <1>3, NearestNeighbour
  <2>2. r \in Node /\ r \in Shown(n)
    BY <2>1 DEF TypeOK, RouterGraph, Neighbours, Shown
  <2> DEFINE t == [to |-> r, msg |-> m, rxmit |-> 0]
             p == [from |-> n, to |-> r, msg |-> m, id |-> sndnxt[n]]
  <2>3. tx' = [tx EXCEPT ![n] = t] /\ data' = rest \cup {p} /\ failed' = failed
    BY <1>2, <1>3
  <2>4. t \in Transmission
    BY <2>2, Constants DEF Transmission
  <2>5. p \in DataPacket
    BY <2>2 DEF TypeOK, DataPacket
  <2>6. tx' \in [Node -> {Idle} \cup Transmission]
    BY <2>3, <2>4 DEF TypeOK
  <2>7. \A k \in Node : tx'[k] # Idle => tx'[k].to \in Shown(k)
    BY <2>2, <2>3 DEF TypeOK, Busy
  <2>8. QED  BY <2>3, <2>5, <2>6, <2>7 DEF TypeOK
<1>4. CASE ~(r # Nobody /\ ~Busy(n))
  BY <1>2, <1>4 DEF TypeOK, Busy
<1>5. QED  BY <1>3, <1>4

(* The end of a transmission leaves everything well-typed.                  *)
LEMMA FinishTypes ==
    ASSUME TypeOK, NEW n \in Node, Finish(n)
    PROVE  /\ tx' \in [Node -> {Idle} \cup Transmission]
           /\ \A k \in Node : tx'[k] # Idle => tx'[k].to \in Shown(k)
           /\ sndnxt' \in [Node -> 0..3]
<1>1. \A i \in 0..3 : (i + 1) % 4 \in 0..3
  OBVIOUS
<1>2. QED  BY <1>1 DEF Finish, TypeOK, Busy

(* At the start everything is well-typed.                                   *)
LEMMA TypeInit == Init => TypeOK
BY Constants DEF Init, TypeOK, Busy

(* The router transmits to neighbours only and within the allowed number of *)
(* transmissions, in every network and with every traffic.                  *)
THEOREM TypeCorrect == Spec => []TypeOK
<1>1. Init => TypeOK
  BY TypeInit
<1>2. ASSUME TypeOK, [Next]_vars PROVE TypeOK'
  <2>1. ASSUME NEW m \in Msg, Send(m) PROVE TypeOK'
    <3>1. Origin[m] \in Node /\ data \in SUBSET DataPacket
      BY <1>2, Constants DEF TypeOK, DataPacket
    <3>2. HandOver(Origin[m], m, data)
      BY <2>1 DEF Send
    <3>3. QED  BY <1>2, <2>1, <3>1, <3>2, HandOverTypes DEF Send, TypeOK, Busy, DataPacket
  <2>2. ASSUME NEW p \in data, Receive(p) PROVE TypeOK'
    <3>1. p \in DataPacket /\ data \in SUBSET DataPacket
      BY <1>2 DEF TypeOK, DataPacket
    <3>2. p.to \in Node /\ p.from \in Node /\ p.msg \in Msg /\ p.id \in 0..3
      BY <3>1 DEF DataPacket
    <3>3. /\ acks' \subseteq [to : Node, id : 0..3] /\ sndnxt' = sndnxt
          /\ pending' = pending /\ graph' = graph
      BY <1>2, <2>2, <3>2 DEF Receive, TypeOK
    <3>4. CASE Duplicate(p)
      BY <1>2, <2>2, <3>3, <3>4 DEF Receive, TypeOK, Busy
    <3>5. CASE ~Duplicate(p)
      <4>1. Process(p)
        BY <2>2, <3>5 DEF Receive
      <4>2. last' \in [Node -> Hash]
        BY <1>2, <3>2, <4>1, Constants DEF Process, TypeOK
      <4>3. CASE p.to = Target[p.msg]
        <5>1. delivered' \in [Msg -> 0..2]
          BY <1>2, <3>2, <4>1, <4>3 DEF Process, TypeOK
        <5>2. QED  BY <1>2, <3>3, <4>1, <4>2, <4>3, <5>1 DEF Process, TypeOK, Busy
      <4>4. CASE p.to # Target[p.msg]
        <5>1. HandOver(p.to, p.msg, data \ {p})
          BY <4>1, <4>4 DEF Process
        <5>2. /\ tx' \in [Node -> {Idle} \cup Transmission]
              /\ \A k \in Node : tx'[k] # Idle => tx'[k].to \in Shown(k)
              /\ data' \subseteq DataPacket /\ failed' \subseteq Msg
          BY <1>2, <3>1, <3>2, <5>1, HandOverTypes
        <5>3. hung' \subseteq Node /\ delivered' = delivered
          BY <1>2, <3>2, <4>1, <4>4 DEF Process, TypeOK
        <5>4. QED  BY <1>2, <3>3, <4>2, <5>2, <5>3 DEF TypeOK, Busy, DataPacket
      <4>5. QED  BY <4>3, <4>4
    <3>6. QED  BY <3>4, <3>5
  <2>3. ASSUME NEW k \in acks, Acknowledge(k) PROVE TypeOK'
    <3>1. k.to \in Node
      BY <1>2 DEF TypeOK
    <3>2. CASE Finish(k.to)
      BY <1>2, <2>3, <3>1, <3>2, FinishTypes DEF Acknowledge, TypeOK, Busy
    <3>3. CASE ~Finish(k.to)
      BY <1>2, <2>3, <3>3 DEF Acknowledge, TypeOK, Busy
    <3>4. QED  BY <3>2, <3>3
  <2>4. ASSUME NEW n \in Node, Retransmit(n) PROVE TypeOK'
    <3> DEFINE p == [from |-> n, to |-> tx[n].to, msg |-> tx[n].msg, id |-> sndnxt[n]]
               t == [tx[n] EXCEPT !.rxmit = @ + 1]
    <3>1. tx[n] \in Transmission /\ tx[n] # Idle
      BY <1>2, <2>4 DEF Retransmit, TimerExpires, Busy, TypeOK
    <3>2. t \in Transmission /\ t.to = tx[n].to
      BY <2>4, <3>1, Constants DEF Retransmit, Transmission
    <3>3. tx' = [tx EXCEPT ![n] = t]
      BY <2>4 DEF Retransmit
    <3>4. tx' \in [Node -> {Idle} \cup Transmission]
      BY <1>2, <3>2, <3>3 DEF TypeOK
    <3>5. \A k \in Node : tx'[k] # Idle => tx'[k].to \in Shown(k)
      BY <1>2, <3>1, <3>2, <3>3 DEF TypeOK, Busy
    <3>6. p \in DataPacket
      BY <1>2, <3>1 DEF TypeOK, DataPacket, Transmission
    <3>7. data' \subseteq DataPacket
      BY <1>2, <2>4, <3>6 DEF Retransmit, TypeOK, DataPacket
    <3>8. QED  BY <1>2, <2>4, <3>4, <3>5, <3>7
               DEF Retransmit, TimerExpires, TypeOK, Busy, DataPacket
  <2>5. ASSUME NEW n \in Node, TimeOut(n) PROVE TypeOK'
    <3>1. tx[n].msg \in Msg
      BY <1>2, <2>5 DEF TimeOut, TimerExpires, Busy, TypeOK, Transmission
    <3>2. Finish(n)
      BY <2>5 DEF TimeOut
    <3>3. QED  BY <1>2, <2>5, <3>1, <3>2, FinishTypes
               DEF TimeOut, TimerExpires, TypeOK, Busy
  <2>6. ASSUME NEW p \in data \cup acks, Lose(p) PROVE TypeOK'
    BY <1>2, <2>6 DEF Lose, TypeOK, Busy
  <2>7. ASSUME NEW n \in Node, Rediscover(n) PROVE TypeOK'
    <3>1. View[n] \subseteq RouterGraph
      BY Constants
    <3>2. PICK g \in View[n] : graph' = [graph EXCEPT ![n] = g]
      BY <2>7 DEF Rediscover
    <3>3. graph' \in [Node -> RouterGraph]
      BY <1>2, <3>1, <3>2 DEF TypeOK
    <3>4. \A k \in Node : graph'[k] \in View[k]
      BY <1>2, <3>2 DEF TypeOK
    <3>5. QED  BY <1>2, <2>7, <3>3, <3>4 DEF Rediscover, TypeOK, Busy
  <2>8. CASE UNCHANGED vars
    BY <1>2, <2>8 DEF vars, TypeOK, Busy
  <2>9. QED  BY <1>2, <2>1, <2>2, <2>3, <2>4, <2>5, <2>6, <2>7, <2>8 DEF Next
<1>3. QED  BY <1>1, <1>2, PTL DEF Spec

-----------------------------------------------------------------------------
(* What is in flight.                                                       *)

HopRecord == [to : Node, from : Node, msg : Msg]

Hop(p) == [to |-> p.to, from |-> p.from, msg |-> p.msg]

(* With the packets D and the acknowledgements A in flight, the             *)
(* transmissions T with the ids S, and the hops P received: a transmission  *)
(* has at most one packet or one acknowledgement in flight, which belongs   *)
(* to it, and an acknowledgement says that the message was received, if its *)
(* packets have hashes of their own.                                        *)
Flights(D, A, T, S, P) ==
    /\ \A p, q \in D : p.from = q.from => p = q
    /\ \A k, j \in A : k.to = j.to => k = j
    /\ \A p \in D : \A k \in A : p.from # k.to
    /\ \A p \in D : /\ T[p.from] # Idle /\ p.id = S[p.from]
                    /\ T[p.from].to = p.to /\ T[p.from].msg = p.msg
    /\ \A k \in A : /\ T[k.to] # Idle /\ k.id = S[k.to]
                    /\ OwnHashes(T[k.to].msg) =>
                          [to |-> T[k.to].to, from |-> k.to, msg |-> T[k.to].msg] \in P

(* The hash a mote remembers is that of a packet it has received, if it is  *)
(* not the one it started with.                                             *)
LastReceived ==
    \A n \in Node : last[n] # InitialHash =>
        \E hop \in processed :
            hop.to = n /\ last[n] = packet_hash[<<hop.from, hop.msg>>]

FlightIInv ==
    /\ TypeOK
    /\ processed \subseteq HopRecord
    /\ Flights(data, acks, tx, sndnxt, processed)
    /\ LastReceived

(* HandOver starts a transmission or gives the message up.                  *)
LEMMA HandOverCases ==
    ASSUME TypeOK, NEW n \in Node, NEW m \in Msg, NEW rest, HandOver(n, m, rest)
    PROVE  \/ \E r \in get_nearest_neighbour(n, Target[m]) :
                 /\ r \in Neighbours(graph[n]) /\ r \in Node /\ r # Nobody /\ ~Busy(n)
                 /\ tx' = [tx EXCEPT ![n] = [to |-> r, msg |-> m, rxmit |-> 0]]
                 /\ data' = rest \cup {[from |-> n, to |-> r, msg |-> m, id |-> sndnxt[n]]}
                 /\ failed' = failed
           \/ tx' = tx /\ data' = rest /\ failed' = failed \cup {m}
<1>1. PICK r \in get_nearest_neighbour(n, Target[m]) :
        \/ /\ r # Nobody /\ ~Busy(n)
           /\ tx' = [tx EXCEPT ![n] = [to |-> r, msg |-> m, rxmit |-> 0]]
           /\ data' = rest \cup {[from |-> n, to |-> r, msg |-> m, id |-> sndnxt[n]]}
           /\ UNCHANGED failed
        \/ /\ r = Nobody \/ Busy(n)
           /\ failed' = failed \cup {m}
           /\ data' = rest
           /\ UNCHANGED tx
  BY DEF HandOver
<1>2. ASSUME r # Nobody PROVE r \in Neighbours(graph[n]) /\ r \in Node
  <2>1. Target[m] \in Node
    BY Constants
  <2>2. r \in Neighbours(graph[n])
    BY <1>2, <2>1, NearestNeighbour
  <2>3. QED  BY <2>2 DEF TypeOK, RouterGraph, Neighbours
<1>3. QED  BY <1>1, <1>2

(* A message that is handed over gets a transmission of its own.            *)
LEMMA FlightsHandOver ==
    ASSUME TypeOK, NEW n \in Node, NEW m \in Msg, NEW rest, NEW A, NEW P,
           Flights(rest, A, tx, sndnxt, P), HandOver(n, m, rest)
    PROVE  Flights(data', A, tx', sndnxt, P)
<1>1. CASE tx' = tx /\ data' = rest
  BY <1>1
<1>2. CASE ~(tx' = tx /\ data' = rest)
  <2>1. PICK r \in Node :
            /\ r # Nobody /\ ~Busy(n)
            /\ tx' = [tx EXCEPT ![n] = [to |-> r, msg |-> m, rxmit |-> 0]]
            /\ data' = rest \cup {[from |-> n, to |-> r, msg |-> m, id |-> sndnxt[n]]}
    BY <1>2, HandOverCases
  <2> DEFINE new == [from |-> n, to |-> r, msg |-> m, id |-> sndnxt[n]]
  <2>2. data' = rest \cup {new} /\ new.from = n /\ new.to = r /\ new.msg = m /\ new.id = sndnxt[n]
    BY <2>1
  <2>3. tx'[n].to = r /\ tx'[n].msg = m /\ tx'[n] # Idle
    <3>1. tx'[n] = [to |-> r, msg |-> m, rxmit |-> 0]
      BY <2>1 DEF TypeOK
    <3>2. Idle.to = Nobody
      BY DEF Idle
    <3>3. QED  BY <2>1, <3>1, <3>2
  <2>4. \A k : k # n => tx'[k] = tx[k]
    BY <2>1 DEF TypeOK
  <2>5. tx[n] = Idle
    BY <2>1 DEF Busy
  <2> HIDE DEF new
  <2>6. /\ \A p \in rest : p.from # n
        /\ \A k \in A : k.to # n
    BY <2>5 DEF Flights
  <2>7. QED  BY <2>2, <2>3, <2>4, <2>6 DEF Flights
<1>3. QED  BY <1>1, <1>2

(* A packet that arrives is replaced by its acknowledgement.                *)
LEMMA FlightsArrive ==
    ASSUME NEW D, NEW A, NEW T, NEW S, NEW P, NEW Q, NEW p \in D, Flights(D, A, T, S, P),
           P \subseteq Q, OwnHashes(p.msg) => Hop(p) \in Q
    PROVE  Flights(D \ {p}, A \cup {[to |-> p.from, id |-> p.id]}, T, S, Q)
<1> DEFINE new == [to |-> p.from, id |-> p.id]
<1>1. new.to = p.from /\ new.id = p.id
  OBVIOUS
<1>2. /\ T[p.from].msg = p.msg
      /\ [to |-> T[p.from].to, from |-> p.from, msg |-> T[p.from].msg] = Hop(p)
  BY DEF Flights, Hop
<1> HIDE DEF new
<1>3. Flights(D \ {p}, A \cup {new}, T, S, Q)
  <2>1. /\ \A q \in D \ {p} : q.from # new.to
        /\ \A k \in A : k.to # new.to
    BY <1>1 DEF Flights
  <2>2. /\ T[new.to] # Idle /\ new.id = S[new.to]
        /\ OwnHashes(T[new.to].msg) =>
              [to |-> T[new.to].to, from |-> new.to, msg |-> T[new.to].msg] \in Q
    BY <1>1, <1>2 DEF Flights
  <2>3. QED  BY <2>1, <2>2 DEF Flights
<1>4. QED  BY <1>3 DEF new

(* A transmission of which nothing is in flight can end.                    *)
LEMMA FlightsFinish ==
    ASSUME NEW D, NEW A, NEW P, NEW n \in Node, Finish(n),
           Flights(D, A, tx, sndnxt, P),
           \A p \in D : p.from # n, \A k \in A : k.to # n
    PROVE  Flights(D, A, tx', sndnxt', P)
<1>1. \A k : k # n => tx'[k] = tx[k] /\ sndnxt'[k] = sndnxt[k]
  BY DEF Finish
<1>2. QED  BY <1>1 DEF Flights

(* A packet that is taken for a duplicate is one, if its hash is its own.   *)
LEMMA DuplicateProcessed ==
    ASSUME FlightIInv, NEW p \in data, Duplicate(p), OwnHashes(p.msg)
    PROVE  Hop(p) \in processed
<1>1. p.to \in Node /\ p.from \in Node /\ p.msg \in Msg
  BY DEF FlightIInv, TypeOK
<1>2. last[p.to] = packet_hash[<<p.from, p.msg>>] /\ last[p.to] # InitialHash
  BY <1>1 DEF Duplicate, OwnHashes
<1>3. PICK hop \in processed :
          hop.to = p.to /\ last[p.to] = packet_hash[<<hop.from, hop.msg>>]
  BY <1>1, <1>2 DEF FlightIInv, LastReceived
<1>4. hop \in HopRecord
  BY <1>3 DEF FlightIInv
<1>5. <<hop.from, hop.msg>> = <<p.from, p.msg>>
  <2> DEFINE q == <<hop.from, hop.msg>>
  <2>1. q \in Node \X Msg
    BY <1>4 DEF HopRecord
  <2>2. packet_hash[q] = packet_hash[<<p.from, p.msg>>]
    BY <1>2, <1>3
  <2> HIDE DEF q
  <2>3. q = <<p.from, p.msg>>
    BY <1>1, <2>1, <2>2 DEF OwnHashes
  <2>4. QED  BY <2>3 DEF q
<1>6. hop = Hop(p)
  BY <1>3, <1>4, <1>5 DEF HopRecord, Hop
<1>7. QED  BY <1>6

(* Every step but those of the router itself leaves the hops alone.         *)
LEMMA ProcessedGrows ==
    ASSUME FlightIInv, [Next]_vars
    PROVE  /\ processed \subseteq processed'
           /\ processed' \subseteq HopRecord
<1>1. ASSUME NEW p \in data, Receive(p)
      PROVE  processed' = processed \/ processed' = processed \cup {Hop(p)}
  BY <1>1 DEF Receive, Process, Hop
<1>2. ASSUME NEW p \in data PROVE Hop(p) \in HopRecord
  BY DEF FlightIInv, TypeOK, Hop, HopRecord
<1>3. (\E p \in data : Receive(p)) \/ processed' = processed
  BY DEF Next, vars, Send, Acknowledge, Retransmit, TimeOut, TimerExpires, Lose, Rediscover
<1>4. QED  BY <1>1, <1>2, <1>3 DEF FlightIInv

(* Every step keeps what is in flight in order.                             *)
LEMMA FlightNext ==
    ASSUME FlightIInv, TypeOK', [Next]_vars
    PROVE  FlightIInv'
<1>1. processed \subseteq processed' /\ processed' \subseteq HopRecord
  BY ProcessedGrows
<1>2. /\ TypeOK /\ Flights(data, acks, tx, sndnxt, processed) /\ LastReceived
  BY DEF FlightIInv
<1>3. ASSUME UNCHANGED last PROVE LastReceived'
  BY <1>1, <1>2, <1>3 DEF LastReceived
<1>4. ASSUME NEW m \in Msg, Send(m) PROVE FlightIInv'
  <2>1. /\ HandOver(Origin[m], m, data) /\ Origin[m] \in Node
        /\ acks' = acks /\ sndnxt' = sndnxt /\ processed' = processed /\ last' = last
    BY <1>4, Constants DEF Send
  <2>2. Flights(data', acks, tx', sndnxt, processed)
    BY <1>2, <2>1, FlightsHandOver
  <2>3. QED  BY <1>1, <1>3, <2>1, <2>2 DEF FlightIInv
<1>5. ASSUME NEW p \in data, Receive(p) PROVE FlightIInv'
  <2>1. p.to \in Node /\ p.from \in Node /\ p.msg \in Msg
    BY <1>2 DEF TypeOK
  <2>2. /\ acks' = acks \cup {[to |-> p.from, id |-> p.id]} /\ sndnxt' = sndnxt
    BY <1>5 DEF Receive
  <2>3. CASE Duplicate(p)
    <3>1. data' = data \ {p} /\ tx' = tx /\ last' = last /\ processed' = processed
      BY <1>5, <2>3 DEF Receive
    <3>2. OwnHashes(p.msg) => Hop(p) \in processed
      BY <2>3, DuplicateProcessed
    <3>3. Flights(data \ {p}, acks', tx, sndnxt, processed)
      BY <1>2, <2>2, <3>2, FlightsArrive
    <3>4. QED  BY <1>1, <1>3, <2>2, <3>1, <3>3 DEF FlightIInv
  <2>4. CASE ~Duplicate(p)
    <3>1. Process(p)
      BY <1>5, <2>4 DEF Receive
    <3>2. processed' = processed \cup {Hop(p)}
      BY <3>1 DEF Process, Hop
    <3>3. Flights(data', acks', tx', sndnxt, processed')
      <4>1. Flights(data \ {p}, acks', tx, sndnxt, processed')
        BY <1>2, <2>2, <3>2, FlightsArrive
      <4>2. CASE p.to = Target[p.msg]
        BY <3>1, <4>1, <4>2 DEF Process
      <4>3. CASE p.to # Target[p.msg]
        <5>1. HandOver(p.to, p.msg, data \ {p})
          BY <3>1, <4>3 DEF Process
        <5>2. QED  BY <1>2, <2>1, <4>1, <5>1, FlightsHandOver
      <4>4. QED  BY <4>2, <4>3
    <3>4. LastReceived'
      <4>1. last' = [last EXCEPT ![p.to] = packet_hash[<<p.from, p.msg>>]]
        BY <3>1 DEF Process
      <4>2. \A n \in Node \ {p.to} : last'[n] = last[n]
        BY <1>2, <4>1 DEF TypeOK
      <4>3. last'[p.to] = packet_hash[<<p.from, p.msg>>]
        BY <1>2, <2>1, <4>1 DEF TypeOK
      <4>4. /\ Hop(p) \in processed' /\ Hop(p).to = p.to
            /\ Hop(p).from = p.from /\ Hop(p).msg = p.msg
        BY <3>2 DEF Hop
      <4>5. QED  BY <1>1, <1>2, <4>2, <4>3, <4>4 DEF LastReceived
    <3>5. QED  BY <1>1, <2>2, <3>3, <3>4 DEF FlightIInv
  <2>5. QED  BY <2>3, <2>4
<1>6. ASSUME NEW k \in acks, Acknowledge(k) PROVE FlightIInv'
  <2>1. k.to \in Node
    BY <1>2 DEF TypeOK
  <2>2. acks' = acks \ {k} /\ data' = data /\ last' = last /\ processed' = processed
    BY <1>6 DEF Acknowledge
  <2>3. Busy(k.to) /\ k.id = sndnxt[k.to]
    BY <1>2 DEF Flights, Busy
  <2>4. Finish(k.to)
    BY <1>6, <2>3 DEF Acknowledge
  <2>5. /\ Flights(data, acks \ {k}, tx, sndnxt, processed)
        /\ \A p \in data : p.from # k.to
        /\ \A j \in acks \ {k} : j.to # k.to
    BY <1>2 DEF Flights
  <2>6. Flights(data, acks \ {k}, tx', sndnxt', processed)
    BY <2>1, <2>4, <2>5, FlightsFinish
  <2>7. QED  BY <1>1, <1>3, <2>2, <2>6 DEF FlightIInv
<1>7. ASSUME NEW n \in Node, Retransmit(n) PROVE FlightIInv'
  <2> DEFINE new == [from |-> n, to |-> tx[n].to, msg |-> tx[n].msg, id |-> sndnxt[n]]
  <2>1. /\ \A p \in data : p.from # n
        /\ \A k \in acks : k.to # n
        /\ tx[n] # Idle /\ tx[n] \in Transmission
        /\ acks' = acks /\ sndnxt' = sndnxt /\ last' = last /\ processed' = processed
        /\ data' = data \cup {new}
    BY <1>2, <1>7 DEF Retransmit, TimerExpires, Busy, TypeOK
  <2>2. /\ new.from = n /\ new.to = tx[n].to /\ new.msg = tx[n].msg /\ new.id = sndnxt[n]
    OBVIOUS
  <2>3. \A k \in DOMAIN tx : k # n => tx'[k] = tx[k]
    BY <1>7 DEF Retransmit
  <2>4. tx'[n].to = tx[n].to /\ tx'[n].msg = tx[n].msg
    BY <1>2, <1>7, <2>1 DEF Retransmit, TypeOK, Transmission
  <2>5. tx'[n] # Idle
    <3>1. tx[n].to \in Node /\ Idle.to = Nobody
      BY <2>1 DEF Transmission, Idle
    <3>2. QED  BY <2>4, <3>1, Constants
  <2>6. /\ \A p \in data : p.from \in DOMAIN tx
        /\ \A k \in acks : k.to \in DOMAIN tx
    BY <1>2 DEF TypeOK
  <2> HIDE DEF new
  <2>7. Flights(data', acks, tx', sndnxt, processed)
    BY <1>2, <2>1, <2>2, <2>3, <2>4, <2>5, <2>6 DEF Flights
  <2>8. QED  BY <1>1, <1>3, <2>1, <2>7 DEF FlightIInv
<1>8. ASSUME NEW n \in Node, TimeOut(n) PROVE FlightIInv'
  <2>1. /\ \A p \in data : p.from # n
        /\ \A k \in acks : k.to # n
        /\ acks' = acks /\ data' = data /\ last' = last /\ processed' = processed
        /\ Finish(n)
    BY <1>8 DEF TimeOut, TimerExpires
  <2>2. Flights(data, acks, tx', sndnxt', processed)
    BY <1>2, <2>1, FlightsFinish
  <2>3. QED  BY <1>1, <1>3, <2>1, <2>2 DEF FlightIInv
<1>9. ASSUME NEW p \in data \cup acks, Lose(p) PROVE FlightIInv'
  <2>1. data' \subseteq data /\ acks' \subseteq acks
    BY <1>9 DEF Lose
  <2>2. Flights(data', acks', tx', sndnxt', processed')
    BY <1>2, <1>9, <2>1 DEF Lose, Flights
  <2>3. QED  BY <1>1, <1>3, <1>9, <2>2 DEF Lose, FlightIInv
<1>10. ASSUME NEW n \in Node, Rediscover(n) PROVE FlightIInv'
  BY <1>1, <1>2, <1>3, <1>10 DEF Rediscover, FlightIInv
<1>11. CASE UNCHANGED vars
  BY <1>1, <1>2, <1>3, <1>11 DEF vars, FlightIInv
<1>12. QED  BY <1>4, <1>5, <1>6, <1>7, <1>8, <1>9, <1>10, <1>11 DEF Next

(* What is in flight is in order in every reachable state.                  *)
THEOREM FlightsHold == Spec => []FlightIInv
<1>1. Init => FlightIInv
  <2> SUFFICES ASSUME Init, TypeOK PROVE FlightIInv
    BY TypeInit
  <2>1. data = {} /\ acks = {} /\ processed = {} /\ \A n \in Node : last[n] = InitialHash
    BY DEF Init
  <2>2. QED  BY <2>1 DEF FlightIInv, Flights, LastReceived
<1>2. FlightIInv /\ TypeOK' /\ [Next]_vars => FlightIInv'
  BY FlightNext
<1>3. QED  BY <1>1, <1>2, TypeCorrect, PTL DEF Spec

-----------------------------------------------------------------------------
(* No message vanishes.                                                     *)

Hops(m) == {hop \in processed : hop.msg = m}

(* The motes that have had the message.                                     *)
Held(m) ==
    (IF m \in pending THEN {} ELSE {Origin[m]}) \cup {hop.to : hop \in Hops(m)}

(* Each of them has transmitted it with success, or is doing so, unless the *)
(* message has arrived or a copy was given up.  Of a message whose packets  *)
(* can be taken for others nothing is claimed.                              *)
Passed(m, n) ==
    \/ delivered[m] > 0 \/ m \in failed
    \/ Busy(n) /\ tx[n].msg = m
    \/ \E hop \in Hops(m) : hop.from = n

CustodyIInv == \A m \in Msg : OwnHashes(m) => \A n \in Held(m) : Passed(m, n)

(* A mote that has handed a message over holds a transmission of it, and no *)
(* other mote has lost one.                                                 *)
LEMMA PassedHandOver ==
    ASSUME TypeOK, NEW n \in Node, NEW m \in Msg, NEW rest, HandOver(n, m, rest)
    PROVE  /\ m \in failed' \/ (Busy(n)' /\ tx'[n].msg = m)
           /\ failed \subseteq failed'
           /\ \A k \in Node : Busy(k) => Busy(k)' /\ tx'[k] = tx[k]
<1>1. CASE tx' = tx /\ failed' = failed \cup {m}
  BY <1>1 DEF Busy
<1>2. CASE ~(tx' = tx /\ failed' = failed \cup {m})
  <2>1. PICK r \in Node :
            /\ r # Nobody /\ ~Busy(n) /\ failed' = failed
            /\ tx' = [tx EXCEPT ![n] = [to |-> r, msg |-> m, rxmit |-> 0]]
    BY <1>2, HandOverCases
  <2>2. tx'[n] = [to |-> r, msg |-> m, rxmit |-> 0]
    BY <2>1 DEF TypeOK
  <2>3. tx'[n].to = r /\ tx'[n].msg = m /\ Idle.to = Nobody
    BY <2>2 DEF Idle
  <2>4. Busy(n)'
    BY <2>1, <2>3 DEF Busy
  <2>5. \A k \in Node \ {n} : tx'[k] = tx[k]
    BY <2>1 DEF TypeOK
  <2>6. QED  BY <2>1, <2>3, <2>4, <2>5 DEF Busy
<1>3. QED  BY <1>1, <1>2

(* Every step passes a message on, keeps it or gives it up.                 *)
LEMMA CustodyNext ==
    ASSUME FlightIInv, FlightIInv', CustodyIInv, [Next]_vars
    PROVE  CustodyIInv'
<1>1. /\ processed \subseteq processed' /\ TypeOK /\ TypeOK'
      /\ Flights(data, acks, tx, sndnxt, processed)
      /\ processed \subseteq HopRecord /\ processed' \subseteq HopRecord
  BY ProcessedGrows DEF FlightIInv
<1>2. ASSUME NEW m \in Msg PROVE Hops(m) \subseteq Hops(m)'
  BY <1>1 DEF Hops
<1>3. \A m \in Msg : \A n \in Held(m) : n \in Node
  BY <1>1, Constants DEF Held, Hops, HopRecord
<1>4. ASSUME \A m \in Msg : \A n \in Held(m)' : n \in Held(m),
             \A m \in Msg : delivered[m] > 0 => delivered'[m] > 0,
             failed \subseteq failed',
             \A m \in Msg : \A n \in Node :
                 OwnHashes(m) /\ Busy(n) /\ tx[n].msg = m => Passed(m, n)'
      PROVE  CustodyIInv'
  <2> SUFFICES ASSUME NEW m \in Msg, OwnHashes(m), NEW n \in Held(m)' PROVE Passed(m, n)'
    BY DEF CustodyIInv
  <2>1. n \in Held(m) /\ n \in Node /\ Passed(m, n)
    BY <1>3, <1>4 DEF CustodyIInv
  <2>2. QED  BY <1>2, <1>4, <2>1 DEF Passed
<1>5. ASSUME NEW msg \in Msg, Send(msg) PROVE CustodyIInv'
  <2> DEFINE o == Origin[msg]
  <2>1. /\ HandOver(o, msg, data) /\ o \in Node
        /\ processed' = processed /\ delivered' = delivered
        /\ pending' = pending \ {msg}
    BY <1>5, Constants DEF Send
  <2> HIDE DEF o
  <2>2. /\ msg \in failed' \/ (Busy(o)' /\ tx'[o].msg = msg)
        /\ failed \subseteq failed'
        /\ \A k \in Node : Busy(k) => Busy(k)' /\ tx'[k] = tx[k]
    BY <1>1, <2>1, PassedHandOver
  <2> SUFFICES ASSUME NEW m \in Msg, OwnHashes(m), NEW n \in Held(m)' PROVE Passed(m, n)'
    BY DEF CustodyIInv
  <2>3. CASE n \in Held(m)
    <3>1. n \in Node /\ Passed(m, n)
      BY <1>3, <2>3 DEF CustodyIInv
    <3>2. QED  BY <1>2, <2>1, <2>2, <3>1 DEF Passed
  <2>4. CASE n \notin Held(m)
    <3>1. m = msg /\ n = o
      BY <2>1, <2>4 DEF Held, Hops, o
    <3>2. QED  BY <2>2, <3>1 DEF Passed
  <2>5. QED  BY <2>3, <2>4
<1>6. ASSUME NEW p \in data, Receive(p) PROVE CustodyIInv'
  <2>1. p.to \in Node /\ p.from \in Node /\ p.msg \in Msg /\ pending' = pending
    BY <1>1, <1>6 DEF Receive, TypeOK
  <2>2. CASE Duplicate(p)
    <3>1. /\ tx' = tx /\ processed' = processed /\ delivered' = delivered
          /\ failed' = failed
      BY <1>6, <2>2 DEF Receive
    <3>2. QED  BY <1>4, <2>1, <3>1 DEF Held, Hops, Passed, Busy
  <2>3. CASE ~Duplicate(p)
    <3>1. Process(p)
      BY <1>6, <2>3 DEF Receive
    <3>2. processed' = processed \cup {Hop(p)} /\ Hop(p).to = p.to /\ Hop(p).msg = p.msg
      BY <3>1 DEF Process, Hop
    <3>3. /\ \A m \in Msg : delivered[m] > 0 => delivered'[m] > 0
          /\ failed \subseteq failed'
          /\ \A k \in Node : Busy(k) => Busy(k)' /\ tx'[k] = tx[k]
          /\ Passed(p.msg, p.to)'
      <4>1. CASE p.to = Target[p.msg]
        <5>1. /\ delivered' = [delivered EXCEPT ![p.msg] =
                                   IF delivered[p.msg] < 2 THEN delivered[p.msg] + 1
                                   ELSE delivered[p.msg]]
              /\ tx' = tx /\ failed' = failed
          BY <3>1, <4>1 DEF Process
        <5>2. \A m \in Msg : delivered[m] \in 0..2
          BY <1>1 DEF TypeOK
        <5>3. /\ \A m \in Msg : delivered[m] > 0 => delivered'[m] > 0
              /\ delivered'[p.msg] > 0
          BY <1>1, <2>1, <5>1, <5>2 DEF TypeOK
        <5>4. QED  BY <5>1, <5>3 DEF Passed, Busy
      <4>2. CASE p.to # Target[p.msg]
        <5>1. HandOver(p.to, p.msg, data \ {p}) /\ delivered' = delivered
          BY <3>1, <4>2 DEF Process
        <5>2. QED  BY <1>1, <2>1, <5>1, PassedHandOver DEF Passed
      <4>3. QED  BY <4>1, <4>2
    <3> SUFFICES ASSUME NEW m \in Msg, OwnHashes(m), NEW n \in Held(m)' PROVE Passed(m, n)'
      BY DEF CustodyIInv
    <3>4. CASE n \in Held(m)
      <4>1. n \in Node /\ Passed(m, n)
        BY <1>3, <3>4 DEF CustodyIInv
      <4>2. QED  BY <1>2, <3>3, <4>1 DEF Passed
    <3>5. CASE n \notin Held(m)
      <4>1. m = p.msg /\ n = p.to
        BY <2>1, <3>2, <3>5 DEF Held, Hops
      <4>2. QED  BY <3>3, <4>1
    <3>6. QED  BY <3>4, <3>5
  <2>4. QED  BY <2>2, <2>3
<1>7. ASSUME NEW k \in acks, Acknowledge(k) PROVE CustodyIInv'
  <2>1. /\ processed' = processed /\ delivered' = delivered
        /\ failed' = failed /\ pending' = pending
    BY <1>7 DEF Acknowledge
  <2>2. /\ k.to \in Node
        /\ OwnHashes(tx[k.to].msg) =>
              [to |-> tx[k.to].to, from |-> k.to, msg |-> tx[k.to].msg] \in processed
    BY <1>1 DEF Flights, TypeOK
  <2>3. ASSUME NEW m \in Msg, NEW n \in Node, OwnHashes(m), Busy(n), tx[n].msg = m
        PROVE  Passed(m, n)'
    <3>1. CASE n = k.to
      <4> DEFINE hop == [to |-> tx[n].to, from |-> n, msg |-> m]
      <4>1. hop \in Hops(m)' /\ hop.from = n
        BY <2>1, <2>2, <2>3, <3>1 DEF Hops
      <4>2. QED  BY <4>1 DEF Passed
    <3>2. CASE n # k.to
      <4>1. tx'[n] = tx[n]
        BY <1>1, <1>7, <3>2 DEF Acknowledge, Finish, TypeOK
      <4>2. QED  BY <2>3, <4>1 DEF Passed, Busy
    <3>3. QED  BY <3>1, <3>2
  <2>4. QED  BY <1>4, <2>1, <2>3 DEF Held, Hops
<1>8. ASSUME NEW n \in Node, Retransmit(n) PROVE CustodyIInv'
  <2>1. /\ processed' = processed /\ delivered' = delivered
        /\ failed' = failed /\ pending' = pending
    BY <1>8 DEF Retransmit, TimerExpires
  <2>2. tx[n] \in Transmission /\ tx[n] # Idle
    BY <1>1, <1>8 DEF Retransmit, TimerExpires, Busy, TypeOK
  <2>3. tx'[n].to = tx[n].to /\ tx'[n].msg = tx[n].msg
    BY <1>1, <1>8, <2>2 DEF Retransmit, TypeOK, Transmission
  <2>4. Busy(n)'
    <3>1. tx[n].to \in Node /\ Idle.to = Nobody
      BY <2>2 DEF Transmission, Idle
    <3>2. QED  BY <2>3, <3>1, Constants DEF Busy
  <2>5. \A k \in Node \ {n} : tx'[k] = tx[k]
    BY <1>1, <1>8 DEF Retransmit, TypeOK
  <2>6. QED  BY <1>4, <2>1, <2>3, <2>4, <2>5 DEF Held, Hops, Passed, Busy
<1>9. ASSUME NEW n \in Node, TimeOut(n) PROVE CustodyIInv'
  <2>1. /\ processed' = processed /\ delivered' = delivered /\ pending' = pending
        /\ failed' = failed \cup {tx[n].msg}
        /\ \A k \in Node \ {n} : tx'[k] = tx[k]
    BY <1>1, <1>9 DEF TimeOut, TimerExpires, Finish, TypeOK
  <2>2. QED  BY <1>4, <2>1 DEF Held, Hops, Passed, Busy
<1>10. ASSUME UNCHANGED <<pending, tx, processed, delivered, failed>>
       PROVE  CustodyIInv'
  BY <1>4, <1>10 DEF Held, Hops, Passed, Busy
<1>11. QED
  BY <1>5, <1>6, <1>7, <1>8, <1>9, <1>10 DEF Next, Lose, Rediscover, vars

(* A message that neither arrived nor is transmitted nor was given up has   *)
(* been passed on by every mote that had it.  As many motes as had it, the  *)
(* motes they passed it to are fewer if it never came back.                 *)
LEMMA CustodyHeld ==
    ASSUME FlightIInv, CustodyIInv
    PROVE  Custody
<1> SUFFICES ASSUME NEW m \in Msg \ pending, OwnHashes(m),
                    ~(delivered[m] > 0), m \notin failed,
                    ~(\E n \in Node : Busy(n) /\ tx[n].msg = m), ~Looped(m)
             PROVE  FALSE
  BY DEF Custody
<1> DEFINE H == Held(m)
           o == Origin[m]
           f == [n \in H |-> (CHOOSE hop \in Hops(m) : hop.from = n).to]
<1>1. Hops(m) \subseteq HopRecord /\ H \in SUBSET Node /\ o \in H
  BY Constants DEF FlightIInv, Held, Hops, HopRecord
<1>2. ASSUME NEW n \in H
      PROVE  \E hop \in Hops(m) : hop.from = n /\ hop.to = f[n]
  <2>1. \E hop \in Hops(m) : hop.from = n
    BY <1>1 DEF CustodyIInv, Passed
  <2>2. QED  BY <2>1
<1>3. \A hop \in Hops(m) : hop.to \in H /\ hop.to # o
  BY DEF Looped, Hops, Held
<1>4. \A g, h \in Hops(m) : g.to = h.to => g.from = h.from
  BY DEF Looped, Hops
<1>5. f \in Injection(H, H \ {o})
  <2>1. f \in [H -> H \ {o}]
    BY <1>2, <1>3
  <2>2. \A x, y \in H : f[x] = f[y] => x = y
    BY <1>2, <1>4
  <2>3. QED  BY <2>1, <2>2 DEF Injection, IsInjective
<1>6. IsFiniteSet(H) /\ IsFiniteSet(H \ {o})
  BY <1>1, FS_Subset, NetworkAssumption
<1>7. Cardinality(H) <= Cardinality(H \ {o})
  BY <1>5, <1>6, FS_Injection
<1>8. Cardinality(H \ {o}) = Cardinality(H) - 1 /\ Cardinality(H) \in Nat
  BY <1>1, <1>6, FS_RemoveElement, FS_CardinalityType
<1>9. QED  BY <1>7, <1>8

(* A message that has been sent never vanishes, unless it goes in circles:  *)
(* however the graph changes and messages mix, the duplicate check does not *)
(* swallow the only copy of a message whose packets have hashes of their    *)
(* own, whatever hashes the others have.                                    *)
THEOREM CustodyKept == Spec => []Custody
<1>1. Init => CustodyIInv
  BY DEF Init, CustodyIInv, Held, Hops
<1>2. FlightIInv /\ FlightIInv' /\ CustodyIInv /\ [Next]_vars => CustodyIInv'
  BY CustodyNext
<1>3. FlightIInv /\ CustodyIInv => Custody
  BY CustodyHeld
<1>4. QED  BY <1>1, <1>2, <1>3, FlightsHold, PTL DEF Spec

-----------------------------------------------------------------------------
(* No message arrives twice.                                                *)

(* However the graph changes, a mote hands a message on to the same         *)
(* neighbour.                                                               *)
FixedRoutes(route) ==
    \A n \in Node, m \in Msg : \A g \in View[n] : \A r \in Neighbours(g) :
        (\A s \in Neighbours(g) :
            Distance[<<r, Target[m]>>] <= Distance[<<s, Target[m]>>])
            => r = route[<<n, m>>]

(* The motes that have to transmit the message.                             *)
Carriers(m) ==
    IF m \in pending THEN {}
    ELSE {Origin[m]} \cup ({hop.to : hop \in Hops(m)} \ {Target[m]})

Relayed(m, n) == \E hop \in Hops(m) : hop.from = n

Arrived(m) == \E hop \in Hops(m) : hop.to = Target[m]

Transmitted(m) == \E n \in Node : Busy(n) /\ tx[n].msg = m

(* One message is under way at a time, along its route.                     *)
OnRoute(route) ==
    /\ \A n, k \in Node : Busy(n) /\ Busy(k) => tx[n].msg = tx[k].msg
    /\ \A m \in Msg : \A n \in Node :
          Busy(n) /\ tx[n].msg = m => n \in Carriers(m) /\ tx[n].to = route[<<n, m>>]
    /\ \A m \in Msg : \A hop \in Hops(m) :
          hop.from \in Carriers(m) /\ hop.to = route[<<hop.from, m>>]

(* Either the route has been straight so far: only the last mote on it has  *)
(* yet to pass the message on, all of them would recognise it, and it has   *)
(* arrived once at most.  Or it has come back to a mote on the route, all   *)
(* of which hand it to each other: it never arrives.                        *)
Straight(m) ==
    /\ \A c, d \in Carriers(m) : c = d \/ Relayed(m, c) \/ Relayed(m, d)
    /\ \/ delivered[m] = 0 /\ ~Arrived(m)
       \/ delivered[m] = 1 /\ Arrived(m) /\ \A c \in Carriers(m) : Relayed(m, c)
    /\ Transmitted(m) =>
          \A hop \in Hops(m) : last[hop.to] = packet_hash[<<hop.from, m>>]

Circling(m, route) ==
    /\ delivered[m] = 0
    /\ \A c \in Carriers(m) : route[<<c, m>>] \in Carriers(m) \ {Target[m]}

OnceIInv(route) ==
    /\ OnRoute(route)
    /\ \A m \in Msg : Straight(m) \/ Circling(m, route)

(* A message is handed over along its route.                                *)
LEMMA RouteTaken ==
    ASSUME TypeOK, NEW route, FixedRoutes(route), NEW n \in Node, NEW m \in Msg,
           NEW r \in get_nearest_neighbour(n, Target[m]), r \in Neighbours(graph[n])
    PROVE  r = route[<<n, m>>]
<1>1. Neighbours(graph[n]) # {} /\ graph[n] \in View[n]
  BY DEF TypeOK
<1>2. \A s \in Neighbours(graph[n]) :
          Distance[<<r, Target[m]>>] <= Distance[<<s, Target[m]>>]
  BY <1>1 DEF get_nearest_neighbour, Nearest
<1>3. QED  BY <1>1, <1>2 DEF FixedRoutes

(* Only the mote that hands a message over can start a transmission, of     *)
(* this message along its route.                                            *)
LEMMA HandOverRoute ==
    ASSUME TypeOK, NEW route, FixedRoutes(route), NEW n \in Node, NEW m \in Msg,
           NEW rest, HandOver(n, m, rest), NEW k \in Node, Busy(k)'
    PROVE  \/ Busy(k) /\ tx'[k] = tx[k]
           \/ k = n /\ tx'[k].msg = m /\ tx'[k].to = route[<<k, m>>]
<1>1. CASE tx' = tx
  BY <1>1 DEF Busy
<1>2. CASE tx' # tx
  <2>1. PICK r \in get_nearest_neighbour(n, Target[m]) :
            /\ r \in Neighbours(graph[n]) /\ r \in Node
            /\ tx' = [tx EXCEPT ![n] = [to |-> r, msg |-> m, rxmit |-> 0]]
    BY <1>2, HandOverCases
  <2>2. r = route[<<n, m>>]
    BY <2>1, RouteTaken
  <2>3. CASE k = n
    <3>1. tx'[k] = [to |-> r, msg |-> m, rxmit |-> 0]
      BY <2>1, <2>3 DEF TypeOK
    <3>2. QED  BY <2>2, <2>3, <3>1
  <2>4. CASE k # n
    <3>1. tx'[k] = tx[k]
      BY <2>1, <2>4 DEF TypeOK
    <3>2. QED  BY <3>1 DEF Busy
  <2>5. QED  BY <2>3, <2>4
<1>3. QED  BY <1>1, <1>2

(* A step by which no mote receives a message or starts a transmission      *)
(* preserves the invariant.                                                 *)
LEMMA OnceQuiet ==
    ASSUME NEW route, OnceIInv(route), UNCHANGED <<pending, last, processed, delivered>>,
           \A n \in Node : Busy(n)' => /\ Busy(n) /\ tx'[n].msg = tx[n].msg
                                      /\ tx'[n].to = tx[n].to
    PROVE  OnceIInv(route)'
<1>1. \A m : Hops(m)' = Hops(m) /\ Carriers(m)' = Carriers(m)
  BY DEF Hops, Carriers
<1>2. \A m, n : Relayed(m, n)' = Relayed(m, n) /\ Arrived(m)' = Arrived(m)
  BY <1>1 DEF Relayed, Arrived
<1>3. \A m : Transmitted(m)' => Transmitted(m)
  BY DEF Transmitted
<1>4. OnRoute(route)'
  BY <1>1 DEF OnceIInv, OnRoute
<1>5. ASSUME NEW m \in Msg PROVE Straight(m)' \/ Circling(m, route)'
  BY <1>1, <1>2, <1>3 DEF OnceIInv, Straight, Circling
<1>6. QED  BY <1>4, <1>5 DEF OnceIInv

(* A message is sent when none is under way, and starts its route.          *)
LEMMA OnceSend ==
    ASSUME FlightIInv, NEW route, FixedRoutes(route), OnceIInv(route), ~Overlapping,
           NEW msg \in Msg, Send(msg)
    PROVE  OnceIInv(route)'
<1> DEFINE o == Origin[msg]
<1>1. /\ HandOver(o, msg, data) /\ o \in Node /\ TypeOK
      /\ processed' = processed /\ delivered' = delivered /\ last' = last
      /\ pending' = pending \ {msg} /\ msg \in pending
      /\ \A n \in Node : ~Busy(n)
  BY Constants DEF Send, FlightIInv, Quiet
<1>2. \A m : Hops(m)' = Hops(m)
  BY <1>1 DEF Hops
<1>3. \A m : Arrived(m)' = Arrived(m) /\ \A n : Relayed(m, n)' = Relayed(m, n)
  BY <1>2 DEF Relayed, Arrived
<1>4. \A m : m # msg => Carriers(m)' = Carriers(m)
  BY <1>1, <1>2 DEF Carriers
<1>5. Carriers(msg) = {}
  BY <1>1 DEF Carriers
<1>6. Hops(msg) = {}
  BY <1>5 DEF OnceIInv, OnRoute
<1>7. Carriers(msg)' = {o}
  BY <1>1, <1>2, <1>6 DEF Carriers
<1>8. ASSUME NEW k \in Node, Busy(k)'
      PROVE  k = o /\ tx'[k].msg = msg /\ tx'[k].to = route[<<k, msg>>]
  BY <1>1, <1>8, HandOverRoute
<1> HIDE DEF o
<1>9. OnRoute(route)'
  <2>1. \A n, k \in Node : Busy(n)' /\ Busy(k)' => tx'[n].msg = tx'[k].msg
    BY <1>8
  <2>2. \A m \in Msg : \A n \in Node :
           Busy(n)' /\ tx'[n].msg = m => n \in Carriers(m)' /\ tx'[n].to = route[<<n, m>>]
    BY <1>7, <1>8
  <2>3. \A m \in Msg : \A hop \in Hops(m)' :
           hop.from \in Carriers(m)' /\ hop.to = route[<<hop.from, m>>]
    BY <1>2, <1>4, <1>6 DEF OnceIInv, OnRoute
  <2>4. QED  BY <2>1, <2>2, <2>3 DEF OnRoute
<1>10. ASSUME NEW m \in Msg PROVE Straight(m)' \/ Circling(m, route)'
  <2>1. CASE m # msg
    <3>1. ~Transmitted(m)'
      BY <1>8, <2>1 DEF Transmitted
    <3>2. Straight(m) => Straight(m)'
      BY <1>1, <1>3, <1>4, <2>1, <3>1 DEF Straight
    <3>3. Circling(m, route) => Circling(m, route)'
      BY <1>1, <1>4, <2>1 DEF Circling
    <3>4. QED  BY <3>2, <3>3 DEF OnceIInv
  <2>2. CASE m = msg
    <3>1. ~Arrived(m) /\ delivered[m] = 0
      BY <1>6, <2>2 DEF Arrived, OnceIInv, Straight, Circling
    <3>2. QED  BY <1>1, <1>2, <1>3, <1>6, <1>7, <2>2, <3>1 DEF Straight
  <2>3. QED  BY <2>1, <2>2
<1>11. QED  BY <1>9, <1>10 DEF OnceIInv

(* A message that is received follows its route: it arrives, gets on, or    *)
(* has come back.                                                           *)
LEMMA OnceProcess ==
    ASSUME FlightIInv, NEW route, FixedRoutes(route), OnceIInv(route),
           NEW p \in data, ~Duplicate(p), Process(p), pending' = pending
    PROVE  OnceIInv(route)'
<1> DEFINE m == p.msg
           x == p.from
           r == p.to
           hop == Hop(p)
<1>1. /\ m \in Msg /\ x \in Node /\ r \in Node /\ TypeOK
      /\ processed \subseteq HopRecord
  BY DEF FlightIInv, TypeOK
<1>2. Busy(x) /\ tx[x].to = r /\ tx[x].msg = m
  BY DEF FlightIInv, Flights, Busy
<1>3. /\ x \in Carriers(m) /\ r = route[<<x, m>>] /\ m \notin pending /\ Transmitted(m)
      /\ \A n \in Node : Busy(n) => tx[n].msg = m
  BY <1>1, <1>2 DEF OnceIInv, OnRoute, Carriers, Transmitted
<1>4. /\ processed' = processed \cup {hop}
      /\ hop.to = r /\ hop.from = x /\ hop.msg = m
      /\ last' = [last EXCEPT ![r] = packet_hash[<<x, m>>]]
  BY DEF Process, Hop
<1>5. /\ Hops(m)' = Hops(m) \cup {hop}
      /\ \A k : k # m => Hops(k)' = Hops(k)
  BY <1>4 DEF Hops
<1>6. /\ Carriers(m)' = Carriers(m) \cup ({r} \ {Target[m]})
      /\ \A k : k # m => Carriers(k)' = Carriers(k)
  BY <1>3, <1>4, <1>5 DEF Carriers
<1>7. /\ \A k \in Msg : k # m => delivered'[k] = delivered[k]
      /\ r # Target[m] => delivered'[m] = delivered[m]
      /\ r = Target[m] /\ delivered[m] = 0 => delivered'[m] = 1
  BY <1>1 DEF Process, TypeOK
<1>8. ASSUME NEW k \in Node, Busy(k)'
      PROVE  \/ Busy(k) /\ tx'[k] = tx[k]
             \/ /\ k = r /\ tx'[k].msg = m /\ tx'[k].to = route[<<k, m>>]
                /\ r # Target[m]
  <2>1. CASE r = Target[m]
    BY <1>8, <2>1 DEF Process, Busy
  <2>2. CASE r # Target[m]
    <3>1. HandOver(r, m, data \ {p})
      BY <2>2 DEF Process
    <3>2. QED  BY <1>1, <1>8, <2>2, <3>1, HandOverRoute
  <2>3. QED  BY <2>1, <2>2
<1> HIDE DEF m, x, r, hop
<1>9. OnRoute(route)'
  <2>1. \A n \in Node : Busy(n)' => tx'[n].msg = m
    BY <1>3, <1>8
  <2>2. \A n \in Node : Busy(n)' => n \in Carriers(m)' /\ tx'[n].to = route[<<n, m>>]
    BY <1>1, <1>3, <1>6, <1>8 DEF OnceIInv, OnRoute
  <2>3. \A k : Carriers(k) \subseteq Carriers(k)'
    BY <1>6
  <2>4. ASSUME NEW k \in Msg, NEW h \in Hops(k)'
        PROVE  h.from \in Carriers(k)' /\ h.to = route[<<h.from, k>>]
    <3>1. CASE h \in Hops(k)
      BY <2>3, <3>1 DEF OnceIInv, OnRoute
    <3>2. CASE h \notin Hops(k)
      <4>1. k = m /\ h = hop
        BY <1>5, <2>4, <3>2
      <4>2. QED  BY <1>3, <1>4, <2>3, <4>1
    <3>3. QED  BY <3>1, <3>2
  <2>5. QED  BY <2>1, <2>2, <2>4 DEF OnRoute
(* The other messages.                                                      *)
<1>10. ASSUME NEW k \in Msg, k # m PROVE Straight(k)' \/ Circling(k, route)'
  <2>1. ~Transmitted(k)'
    BY <1>3, <1>8, <1>10 DEF Transmitted
  <2>2. /\ Arrived(k)' = Arrived(k) /\ \A n : Relayed(k, n)' = Relayed(k, n)
        /\ Carriers(k)' = Carriers(k) /\ delivered'[k] = delivered[k]
    BY <1>5, <1>6, <1>7, <1>10 DEF Arrived, Relayed
  <2>3. Straight(k) => Straight(k)'
    BY <2>1, <2>2 DEF Straight
  <2>4. Circling(k, route) => Circling(k, route)'
    BY <2>2 DEF Circling
  <2>5. QED  BY <2>3, <2>4 DEF OnceIInv
(* A message in a circle stays there.                                       *)
<1>11. ASSUME Circling(m, route) PROVE Circling(m, route)'
  <2>1. r \in Carriers(m) /\ r # Target[m]
    BY <1>3, <1>11 DEF Circling
  <2>2. Carriers(m)' = Carriers(m) /\ delivered'[m] = delivered[m]
    BY <1>6, <1>7, <2>1
  <2>3. QED  BY <1>11, <2>2 DEF Circling
<1>12. ASSUME Straight(m) PROVE Straight(m)' \/ Circling(m, route)'
  <2>1. hop \notin processed
    <3> SUFFICES ASSUME hop \in processed PROVE FALSE
      OBVIOUS
    <3>1. hop \in Hops(m)
      BY <1>4 DEF Hops
    <3>2. last[r] = packet_hash[<<x, m>>]
      BY <1>3, <1>4, <1>12, <3>1 DEF Straight
    <3>3. QED  BY <3>2 DEF Duplicate, r, x, m
  <2>2. ~Relayed(m, x)
    <3> SUFFICES ASSUME NEW h \in Hops(m), h.from = x PROVE FALSE
      BY DEF Relayed
    <3>1. h.to = r /\ h.msg = m /\ h \in processed
      BY <1>1, <1>3 DEF Hops, OnceIInv, OnRoute
    <3>2. h = hop
      BY <1>1, <3>1 DEF HopRecord, hop, Hop, r, x, m
    <3>3. QED  BY <2>1, <3>1, <3>2
  <2>3. /\ delivered[m] = 0 /\ ~Arrived(m)
        /\ \A c \in Carriers(m) : c # x => Relayed(m, c)
    BY <1>3, <1>12, <2>2 DEF Straight
  <2>4. /\ Relayed(m, x)' /\ \A c : Relayed(m, c) => Relayed(m, c)'
    BY <1>4, <1>5 DEF Relayed
  <2>5. \A h \in Hops(m) : h.to # Target[m] /\ h.to \in Carriers(m)
    BY <1>3, <2>3 DEF Arrived, Carriers
  <2>6. ASSUME \A h \in Hops(m) : h.to # r
        PROVE  \A h \in Hops(m)' : last'[h.to] = packet_hash[<<h.from, m>>]
    <3> SUFFICES ASSUME NEW h \in Hops(m)'
                 PROVE  last'[h.to] = packet_hash[<<h.from, m>>]
      OBVIOUS
    <3>1. CASE h = hop
      BY <1>1, <1>4, <3>1 DEF TypeOK
    <3>2. CASE h # hop
      <4>1. h \in Hops(m) /\ h.to # r
        BY <1>5, <2>6, <3>2
      <4>2. last[h.to] = packet_hash[<<h.from, m>>]
        BY <1>3, <1>12, <4>1 DEF Straight
      <4>3. last'[h.to] = last[h.to]
        BY <1>1, <1>4, <4>1 DEF TypeOK, Hops, HopRecord
      <4>4. QED  BY <4>2, <4>3
    <3>3. QED  BY <3>1, <3>2
  <2>7. CASE r = Target[m]
    <3>1. Carriers(m)' = Carriers(m) /\ delivered'[m] = 1
      BY <1>6, <1>7, <2>3, <2>7
    <3>2. Arrived(m)'
      BY <1>4, <1>5, <2>7 DEF Arrived
    <3>3. \A h \in Hops(m) : h.to # r
      BY <2>5, <2>7
    <3>4. QED  BY <2>3, <2>4, <2>6, <3>1, <3>2, <3>3 DEF Straight
  <2>8. CASE r # Target[m] /\ r \notin Carriers(m)
    <3>1. Carriers(m)' = Carriers(m) \cup {r} /\ delivered'[m] = 0
      BY <1>6, <1>7, <2>3, <2>8
    <3>2. ~Arrived(m)'
      BY <1>4, <1>5, <2>5, <2>8 DEF Arrived
    <3>3. \A h \in Hops(m) : h.to # r
      BY <2>5, <2>8
    <3>4. QED  BY <2>3, <2>4, <2>6, <3>1, <3>2, <3>3 DEF Straight
  <2>9. CASE r # Target[m] /\ r \in Carriers(m)
    <3>1. Carriers(m)' = Carriers(m) /\ delivered'[m] = 0
      BY <1>6, <1>7, <2>3, <2>9
    <3>2. ASSUME NEW c \in Carriers(m)
          PROVE  route[<<c, m>>] \in Carriers(m) \ {Target[m]}
      <4>1. CASE c = x
        BY <1>3, <2>9, <4>1
      <4>2. CASE c # x
        <5>1. PICK h \in Hops(m) : h.from = c
          BY <2>3, <4>2 DEF Relayed
        <5>2. h.to = route[<<c, m>>]
          BY <1>1, <5>1 DEF OnceIInv, OnRoute
        <5>3. QED  BY <2>5, <5>2
      <4>3. QED  BY <4>1, <4>2
    <3>3. QED  BY <3>1, <3>2 DEF Circling
  <2>10. QED  BY <2>7, <2>8, <2>9
<1>13. ASSUME NEW k \in Msg PROVE Straight(k)' \/ Circling(k, route)'
  BY <1>10, <1>11, <1>12 DEF OnceIInv
<1>14. QED  BY <1>9, <1>13 DEF OnceIInv

(* Every step preserves the invariant.                                      *)
LEMMA OnceNext ==
    ASSUME FlightIInv, FlightIInv', NEW route, FixedRoutes(route), OnceIInv(route),
           ~Overlapping, [Next]_vars
    PROVE  OnceIInv(route)'
<1>1. TypeOK /\ TypeOK' /\ Flights(data, acks, tx, sndnxt, processed)
  BY DEF FlightIInv
<1>2. ASSUME NEW m \in Msg, Send(m) PROVE OnceIInv(route)'
  BY <1>2, OnceSend
<1>3. ASSUME NEW p \in data, Receive(p) PROVE OnceIInv(route)'
  <2>1. pending' = pending
    BY <1>3 DEF Receive
  <2>2. CASE Duplicate(p)
    <3>1. tx' = tx /\ last' = last /\ processed' = processed /\ delivered' = delivered
      BY <1>3, <2>2 DEF Receive
    <3>2. QED  BY <2>1, <3>1, OnceQuiet DEF Busy
  <2>3. CASE ~Duplicate(p)
    <3>1. Process(p)
      BY <1>3, <2>3 DEF Receive
    <3>2. QED  BY <2>1, <2>3, <3>1, OnceProcess
  <2>4. QED  BY <2>2, <2>3
<1>4. ASSUME NEW n \in Node, Finish(n), UNCHANGED <<pending, last, processed, delivered>>
      PROVE  OnceIInv(route)'
  <2>1. \A k \in Node : Busy(k)' => Busy(k) /\ tx'[k] = tx[k]
    BY <1>1, <1>4 DEF Finish, TypeOK, Busy
  <2>2. QED  BY <1>4, <2>1, OnceQuiet
<1>5. ASSUME NEW k \in acks, Acknowledge(k) PROVE OnceIInv(route)'
  <2>1. k.to \in Node /\ Finish(k.to)
    BY <1>1, <1>5 DEF Acknowledge, Flights, Busy, TypeOK
  <2>2. QED  BY <1>4, <1>5, <2>1 DEF Acknowledge
<1>6. ASSUME NEW n \in Node, TimeOut(n) PROVE OnceIInv(route)'
  BY <1>4, <1>6 DEF TimeOut, TimerExpires
<1>7. ASSUME NEW n \in Node, Retransmit(n) PROVE OnceIInv(route)'
  <2>1. UNCHANGED <<pending, last, processed, delivered>>
    BY <1>7 DEF Retransmit, TimerExpires
  <2>2. Busy(n) /\ tx[n] \in Transmission
    BY <1>1, <1>7 DEF Retransmit, TimerExpires, Busy, TypeOK
  <2>3. tx'[n].to = tx[n].to /\ tx'[n].msg = tx[n].msg
    BY <1>1, <1>7, <2>2 DEF Retransmit, TypeOK, Transmission
  <2>4. \A k \in Node \ {n} : tx'[k] = tx[k]
    BY <1>1, <1>7 DEF Retransmit, TypeOK
  <2>5. \A k \in Node : Busy(k)' => /\ Busy(k) /\ tx'[k].msg = tx[k].msg
                                  /\ tx'[k].to = tx[k].to
    BY <2>2, <2>3, <2>4 DEF Busy
  <2>6. QED  BY <2>1, <2>5, OnceQuiet
<1>8. ASSUME UNCHANGED <<pending, last, tx, processed, delivered>> PROVE OnceIInv(route)'
  BY <1>8, OnceQuiet DEF Busy
<1>9. QED
  BY <1>2, <1>3, <1>5, <1>6, <1>7, <1>8 DEF Next, Lose, Rediscover, vars

(* Sent one after the other, no message arrives twice, however often it is  *)
(* retransmitted, if the routes do not change.  Nothing is assumed of the   *)
(* hashes: a collision can make a mote ignore a packet, never process it    *)
(* again.                                                                   *)
THEOREM ArrivesOnce ==
    ASSUME ~Overlapping, NEW route, FixedRoutes(route)
    PROVE  Spec => []AtMostOnce
<1>1. Init => OnceIInv(route)
  <2> SUFFICES ASSUME Init PROVE OnceIInv(route)
    OBVIOUS
  <2>1. /\ processed = {} /\ \A n \in Node : ~Busy(n)
        /\ \A m \in Msg : delivered[m] = 0 /\ m \in pending
    BY DEF Init, Busy
  <2>2. \A m \in Msg : Hops(m) = {} /\ Carriers(m) = {}
    BY <2>1 DEF Hops, Carriers
  <2>3. QED  BY <2>1, <2>2 DEF OnceIInv, OnRoute, Circling
<1>2. FlightIInv /\ FlightIInv' /\ OnceIInv(route) /\ [Next]_vars => OnceIInv(route)'
  BY OnceNext
<1>3. OnceIInv(route) => AtMostOnce
  BY DEF OnceIInv, Straight, Circling, AtMostOnce
<1>4. QED  BY <1>1, <1>2, <1>3, FlightsHold, PTL DEF Spec
=============================================================================
