# TLA+ models of the sensor network firmware

These modules model the firmware in `src/` of this repository: motes (Contiki)
that discover the network up to K hops around them, keep what they learn in a
small static memory, and hand messages on to the neighbour that is nearest to the
destination.  TLC checks the models on small networks; TLAPS proves the safety
properties, and that the loops of a mote implement what the network relies on, for every
network and every size of the pools that the counts of `graph.c` can hold.

Paths and line numbers below refer to the files in `src/` (`graph.c` is
`src/src/graph.c` seen from the root of the checkout).

## Inventory

| Part | State | Operations | Talks to |
|---|---|---|---|
| Information pool, `graph.c` | pools of `MAX_NODES` nodes and `MAX_EDGES` edges, arrays of pointers into them, two counts | `init_graph`, `add_node`, `remove_node`, `add_edge`, `remove_edge`, lookups, lists of all, outgoing and ingoing entries | called by all parts below |
| Graph operations, `graph-operations.c` | `last_time` | `purge`, `get_hop_counts` | the pool, `clock_seconds()`, `malloc` |
| Serialisation, `serialize.c` | none | `serialize` (graph to packets), `deserialize` (packet to graph) | pool, graph operations; a callback per packet |
| Neighbour discovery, `neighbor-discovery.c` | an event timer, a broadcast connection | the process: wait, purge, broadcast; callback `recv` | all of the above, pbroadcast |
| Checked broadcast, `pbroadcast.c` | connection | open, close, send, receive with CRC | Rime's anonymous broadcast |
| Router, `routing.c` | one runicast connection, the hash of the last packet, a callback | `init_router`, `close_router`, `send_message`, `recv_uc`, `get_nearest_neighbour` | pool, positions, Rime's runicast |
| Positions, `positions.c` | table of build constants | `get_stored_position_of` | |
| Application, `simple-application.c` | | starts discovery, sends a message at the press of a button | discovery, router |

Contiki runs processes and callbacks to completion, so within one mote a wake-up,
a received packet or a call of `send_message` is atomic.  What is hard within a mote are
the loops: `purge` walks an array that it compacts, `get_hop_counts` grows the array it
walks without a look at its end, allocations fail in the middle.  What is hard between
motes: packets in flight interleave with everybody's timers, are lost, overtake
each other over different paths, and come back to where they started; motes fail
and start again; the pools are small.  The behaviours and the properties meant to
catch them are listed, with their lines, under `hazards` in `PROJECT.json`.

What makes each part correct:

* pool: no block is lost or pointed to twice, no pointer in use is NULL, the counts stay within the capacities, there is one record per edge, an
  edge has both its ends among the nodes, older information does not replace newer;
* purge: lifetimes go down by the time that passed, what has run out is removed
  together with the nodes it leaves without edges, the mote's own node stays;
* hop counts: the array holds each reachable node once, with its distance, and no more
  entries than there is room for;
* serialisation: a mote passes on what lies within K-1 hops, completely, and
  nothing else;
* discovery as a whole: every mote gets to its K-hop view and keeps it; gossip
  does not keep alive what is gone; a mote never forgets a neighbour it hears;
* router: no message is lost by the duplicate check, none is delivered twice, none
  circulates for ever, no mote hangs.

## Modules

| Module | Models |
|---|---|
| `LocalGraph` | `graph.c`, `purge`, `get_hop_counts` as operators on the set of a mote's nodes and that of its edges: what the functions compute |
| `Serialize` | `serialize.c`: which nodes and edges a mote reports and how they are cut into packets; extends `LocalGraph` |
| `Discovery` | the network of discovery processes: `neighbor-discovery.c`, `deserialize`, `pbroadcast.c`; extends `Serialize` |
| `MCDiscovery` | networks for TLC: a ring of one-way links, an "ear" (`c` hears `b`, but is not heard) with three and four motes |
| `LocalView` | the same functions as the abstract specification of one mote: a packet is merged at once, the graph is purged and reported at once; extends `Serialize` |
| `GraphMemory` | the pools of `graph.c` as they lie in memory: blocks, pointer arrays, counters, and the functions on them entry by entry |
| `Mote` | one mote loop by loop over two instances of a `GraphMemory` pool: `deserialize`, `purge`, `get_hop_counts`, `serialize`; implements `LocalView` |
| `MCMote` | a mote and what it hears, for TLC |
| `Routing` | `routing.c` and the runicast it uses, over a graph that discovery changes |
| `MCRouting` | networks and traffic for TLC |
| `Induction` | induction over the hop count, stated with sets |
| `LocalGraphProofs` | what the operators of `LocalGraph` return, preserve and bound |
| `DiscoveryProofs` | invariants of the network: types, closed graphs, ages |
| `DiscoveryViewProofs` | what a mote knows: no more than K hops, and all its neighbours |
| `RoutingProofs` | the router |
| `MemoryProofs` | the functions on a pool keep its pointers in order and have the effect of their counterparts in `LocalGraph` |
| `MoteProofs` | the loops of a mote: pools, array bounds, distances |
| `MoteViewProofs` | the loops implement `LocalView` |

`Discovery` and `Mote` meet in the operators of `LocalGraph` and `Serialize`.  `Discovery`
uses them as the atomic effect of `recv` and of a wake-up on every mote of a network; `Mote`
shows that the loops of the C code have this effect on the arrays.

### Discovery

State: `up` (motes that run), `nodes` and `edges` (the pool of each mote),
`elapsed` (seconds since `last_time`; `purge` runs at every expiry of the timer
and right before it is set again, so this is also the age of the timer), `air`
(packets in flight, one per receiver).  `age` is a history variable: the seconds
since a packet last came over a link.

| Action | Code |
|---|---|
| `Wake(n)` | the body of the loop in `neighbor_discovery_process`, lines 108-126: `purge()` unless `NO_PURGE`, then `serialize()`, with one `p_broadcast_send` per packet |
| `Receive(m)` | `recv_from_abc` with a matching hash, `recv`, `deserialize`: source node, edge from the sender with a fresh lifetime, the drains, the edges to them, in this order |
| `Lose(m)` | a failed send, a loss on the radio, a hash that does not match |
| `Crash(n)`, `Boot(n)` | a mote fails; the process starts with `init_graph` and `add_node` of itself |
| `Tick` | `clock_seconds()` and the event timer |

The delay of the timer is anything from `DISCOVERY_INTERVAL_MIN` to
`DISCOVERY_INTERVAL_MIN + DISCOVERY_INTERVAL_MAX` seconds; that is what the
expression in line 111 gives (see Findings).

Abstractions:

* A node is its address.  Its position is a build constant that every copy carries
  along; rssi and lqi are copied and never read.
* Where the order of entries in an array decides an outcome, the model takes every
  order: which entries still fit into a full pool, how the edges of a node are cut
  into packets.  Orders that the code cannot reach may be among them.
* The bytes of a packet are abstracted to `EdgesPerPacket`.  The entries of a packet
  have different ends, so storing them in sequence is storing them as a set.
* Packets can overtake each other, also those of one mote, which the radio would not
  do.  A packet is delivered or lost within the second it was sent in.
* All clocks advance together.  Between two ticks the motes act in any order.
* `malloc` succeeds, and the clock does not wrap completely between two purges
  (`graph-operations.h:45`); `Mote` looks at both.

### Mote

`Discovery` takes for granted what a mote does between two waits.  `Mote` takes it apart:

| State | Code |
|---|---|
| `node_memory`, `edge_memory` | the two pools; each is a record of the blocks (`MEMB`), the pointer array and the counter.  A pointer is the number of a block |
| `clock`, `last_time` | `clock_seconds()`, an `unsigned long` (modulo `ULONG`), and the static of `graph-operations.c` |
| `pc`, `i`, `bound`, `todo` | where the mote is: the loop, the counter of the outer loop, `count - deleted`, what the inner loop has still to look at |
| `hops` | `hop_dict`, as far as it is filled |
| `buffer`, `sent` | the edges copied to `memory_base`; the packets given to `packet_complete` |
| `before` | history: the graph when the function called last was entered |

| Actions | Code |
|---|---|
| `Receive(m)`, `Add` | `deserialize`: the source, the edge from the sender, the drains, the edges to them, one `add_node` or `add_edge` each |
| `TimerExpires(d)`, `RemoveExpired`, `Decrease`, `Purged` | `purge`: the loop, in which `remove_edge` moves the pointers behind the removed one and `i--` keeps the counter in place; `DropOrphan` for both ends |
| `CountHops`, `Direct`, `DirectDone`, `Explore`, `ExploreEdge`, `HopsCounted` | `get_hop_counts`: the neighbours first, then the neighbours of every entry of the array, which grows meanwhile |
| `StartReport` (a part of `Purged`), `SkipSource`, `PackSource`, `SkipEdge`, `PackEdge`, `EndSource`, `Serialized` | `serialize` and `package_and_send_edges_and_nodes`: one source after the other, edge after edge |
| `Transmit` | the packets go to `p_broadcast_send` |

Nothing interrupts these steps.  They are told apart because a function can go wrong in its
middle: skip an entry that has moved, read a NULL, write behind an array, lose edges when a
packet is full, or not end.

`Implements` is the refinement of `LocalView`.  While a function runs, `nodes` and `edges` of
the view are those in `before`, and its last step maps to the whole of `Receive` or `Wake`;
`Transmit` maps to `Transmit`; all other steps stutter.  The order of entries that `LocalView`
(and with it `Discovery`) leaves open is the order of the arrays here.

Where the code calls `malloc`, `OrFail` offers the failure, too, if `MallocMayFail`.
The listings are then empty, as in the code.  When `get_hop_counts` gets no memory it leaves
the count unset, which `serialize` reads; this state is called `undefined` and has no
successor, since what follows depends on the build.

Abstractions beyond those of `Discovery`: `purge` reads the clock twice, `Mote` gives both
readings one value; no mote has the address `linkaddr_null`, which the entries of
`hop_dict` hold that are not filled yet; `NO_PURGE` is not set.

What is assumed of the packets (`IncomingAssumption`): no mote hears itself, so no edge leads
from a node to itself, and the drains of one packet are different nodes, since a sender lists
the edges of one source and has each once.  Both hold of every packet that `Mote` itself
sends.  `NullAssumption` says that `NULL` is neither a block nor an entry nor, in the
history variable, a graph.

### Routing

State: `graph` (the ends of a mote's own edges and its nodes, all that `get_nearest_neighbour` uses of
its graph: `Neighbours` are the ends that are among the nodes, an edge without its node is skipped
as in `routing.c:50-56`), `last` (`last_received_packet_hash`, which starts with `InitialHash`, the 0 of
the code), `tx` and `sndnxt` (runicast's current
transmission and packet id), `data` and `acks` (packets in flight), `hung` (motes that
do not leave `recv_uc`), `pending` (messages still to be sent).  The history variables
`processed`, `twice`, `delivered` and `failed` record what got past the duplicate
check, once and twice, how often a callback was called, and what was given up.

| Action | Code |
|---|---|
| `Send(m)` | `send_message` |
| `Receive(p)` | runicast's acknowledgement, then `recv_uc`: `Duplicate`, else `Process` (the callback or `HandOver` to the next mote) |
| `Acknowledge(k)`, `Retransmit(n)`, `TimeOut(n)` | runicast, external; modelled from the way `routing.c` uses it |
| `Lose(p)` | radio; a mote that hangs hears nothing |
| `Rediscover(n)` | discovery adds or purges edges and nodes of `n`: its graph becomes another member of `View[n]` |

Positions do not change.  Of several neighbours at the same distance the first one in the array
is taken; the model takes any.  Packet hashes come from the constant `packet_hash`, which may map any
packets to one hash, also to `InitialHash`: in `rout_repeat` two messages have the same hashes, in
`rout_custody` one of the packets has the hash that every mote starts with.  `OwnHashes` says of a
message that its packets share their hashes with no other packet and not with `InitialHash`; only `Custody`
needs it.  The timer of a retransmission (seconds) outlasts a packet and its acknowledgement.

## Runs

| Run | Shows |
|---|---|
| `disc_converge` | `Converges`: with purging on, three motes end up with exactly their K-hop views and keep them, while edges are aged and renewed all the time.  `NeighbourKept`: a mote that does not fail never purges a neighbour that it hears.  `OwnCopyFreshest`: every copy of an edge expires no later than that of the mote at its end. |
| `disc_faulty` | One-way ring, so that every report comes back to its source; losses, a failing and restarting mote.  `AgeBound`, `NoStaleEdge`: gossip keeps no dead link alive.  `DeadForgotten`: a mote that is off for good disappears from all graphs.  `GossipNeverShortens`: late information does no harm.  `OneRecordPerEdge`: copies with different lifetimes never end up side by side. |
| `disc_full` | Pools of two nodes and one edge, with all the faults: `TypeOK` (counts and lifetimes in range), `GraphClosed` (no edge without its ends). |
| `disc_khop` | Four motes, K = 2: `KHopBound`, nothing is known beyond K hops.  `TimePasses`, see Fairness. |
| `mote` | One mote that hears five nodes and five edges with pools of four of each, one edge per packet, K = 3.  `PoolsConsistent`: however entries come and go, no block is lost or pointed to twice and no place the loops visit is NULL.  `HopsInBounds`: the array of hop counts is never overrun.  `HopsRight`: it holds what can be reached, no node twice, with the right distance.  `Implements`: the loops implement `LocalView`.  `Returns`: they all end. |
| `disc_orphan`, `mote_malloc` | Findings, below. |
| `rout_sequence` | One message after the other over a lossy radio, to a mote behind one hop and into a dead end where two motes pass it back and forth: `AtMostOnce`, `DiesOut`.  The build is the default one, without debug output, where a mote of the circle can hang because it is still transmitting when the message comes back (`rout_tries`); `DiesOut` says that nothing stays on the air and nobody else goes on transmitting.  With debug output, where nobody hangs, both hold too.  The routes do not change here: when they do, a message can reach its destination over both. |
| `rout_custody` | Two messages of two motes follow one another along a line of four, with losses, while one of them keeps its edge to the next and at times lacks the node at its end, and another sees a way around it at times: `Custody`, a message that does not come back to a mote it has left, and whose packets have hashes of their own, has been delivered, is being transmitted, or was given up openly (no retransmission left, forwarder busy, no neighbour).  The other message has a packet with the hash every mote starts with, and can be lost.  Debug output is on, so that nobody hangs and the motes go on.  `TypeOK`. |
| `rout_duplicate`, `rout_tries`, `rout_repeat` | Findings, below. |

Deadlock is checked for discovery and for `mote`, which never stop; `mote_malloc` ends where the
code is undefined, and says `CHECK_DEADLOCK FALSE`.  The routing runs end when all
messages have been dealt with, so they say `CHECK_DEADLOCK FALSE`.

### Bounds

Nothing in `Discovery` is cut off artificially: `elapsed` is bounded by the timer,
lifetimes by `TTL`, and the history variable stops at `TTL + MaxDelay`, where no
property tells ages apart any more.  The networks have two to four motes; three are
enough for an edge to be passed on by a mote that it does not touch and, in the ring,
for a report to come back to its subject, and K = 3 lets it.  Timer bounds are
1 and 1, so that the delay is 1 or 2 seconds and the motes drift against each other.

In `mote` the bounds are chosen for the boundaries of the loops.  The messages in `Heard` have
more nodes and edges than the pools, so they arrive in full, nearly full and empty pools and
in different orders; a lifetime of 1 among lifetimes of 2 makes `purge` remove entries in the
middle of the array and at its ends, and orphans with them; the edges reach three hops far,
of which K = 3 reports two and leaves out the third; `EdgesPerPacket` is 1, so one edge fills a packet.  No
source here has two edges that are packed, so its second packet is covered by the theorem
`LoopsImplementView` and not by this run: with one more edge the states are too many.  In
`disc_converge` and `disc_faulty` a packet holds all edges of its source.  `UINT16` is 2 and `ULONG` 4: the cut to sixteen bits and both wraps
happen, and a delay of 1 is the largest that does not wrap completely.

In `Routing` there are two messages, three or four motes and two or three
transmissions instead of 255: enough for a loss, a retransmission and a failure.

The lifetime in `disc_converge` matters: `MaxDelay` is 2, and `Converges` holds with
TTL = 11 and fails with 10 or less.  A copy loses up to one delay when it is stored
(the holder subtracts the whole time since its last purge at once), another one until
it is passed on, and both again at the next mote, so an edge that travels one hop
survives for certain only if TTL is more than five delays (5 and 6 are the limits for a delay of 1,
10 and 11 for 2).  The defaults (TTL 300,
delays of up to 121 s) satisfy what `NeighbourKept` needs, more than two delays, but
not this: with unlucky timers the two-hop part of a view can lose and regain edges.

### Fairness

`Running` is the disjunction of `Wake`, `Receive` and `Tick`: as long as one of them
is possible one of them happens.  That is all the code's scheduling has to provide: the
event timer expires, callbacks are called, the clock runs.  `Crash`, `Boot` and `Lose`
are never required to happen.  `disc_khop` checks that under this weak fairness the
clock advances for ever (`TimePasses`); the other liveness runs assume `TimePasses`
itself, since TLC evaluates it much faster.  In `Mote` weak fairness of `Step` says
that a processor does not stop in the middle of a function; no timer has to expire and no
packet to arrive.  In `Routing` weak fairness covers the
handlers of packets and timers; nobody has to send and nothing has to arrive.  A packet to a mote
that hangs has no handler; it does not stay on the air either.

## Findings

* `graph-operations.h:47` says that `purge()` deletes a node iff it has no edges.  It
  looks only at the ends of edges it has just removed; a node whose edge did not fit
  into the pool stays for ever (`disc_orphan`).
* `graph-operations.c:241-295`: when `malloc` fails, `get_outgoing_edges` and
  `get_ingoing_edges` give a count of 0, from which `purge()` concludes that a node has no edges
  and deletes it, although others of its edges are still stored (`mote_malloc`; the same line
  of `graph-operations.h`).
* `routing.c:97-99` says that a packet that has already been received is ignored.  Only
  the packet before is remembered, so a retransmission is processed again when another
  packet has come in between (`rout_duplicate`).
* `routing.c:120-124`: the loop around `runicast_send` counts its tries inside `PRINTF`,
  which is empty in builds without debug output.  Runicast is busy until a callback
  that cannot run before the loop ends, so the mote hangs (`rout_tries`).  It needs no second
  message: one that goes in a circle finds a mote busy with itself while the acknowledgement is lost or
  on its way.
* `routing.c:101`: the hash covers the previous hop and the data, and the application always sends
  the same data (`simple-application.c:46`).  The next hop takes a second message for the first one
  and drops it, although it has never received it (`rout_repeat`, where `IgnoredReceived` fails; `routing.c:99` says "if we've
  already received it").

Seen while modelling, without a run: `neighbor-discovery.c:110` announces a delay of MIN to MAX
seconds, and because of the precedence of the operators in the next line it is up to MIN + MAX
(the model has the delay of the code); `send_message` returns 1 although `runicast_send`
refused the message, where `routing.h` says that 1 means it was sent.  `graph.h:98-99` says of an edge that
is already stored that "the known information will be overwritten with the new information";
`graph.c:184` refuses information with a shorter remaining lifetime, which `graph.test.c:328-341` expects and
`GossipNeverShortens` states (what would happen without the comparison is its mutant,
`add_edges_latest`).  `last_received_packet_hash` starts with 0, which is the hash of some packets: a
mote that has received none takes such a packet for a duplicate and drops it (`routing.c:93`).  This happens
in `rout_custody`, where `Custody` fails without `OwnHashes`.

## Proofs

All theorems hold for every finite set of motes, every set of links, every K, TTL, timer
bound and capacity, and every pattern of faults, under the named assumptions of
`LocalGraph`, `Serialize`, `Discovery`, `Routing` and `Mote`; where a theorem needs more, it
says so in its statement and here.  The modules count with natural numbers where `graph.c`
counts with `uint8_t`; `CounterAssumption` therefore limits the pools to 255 entries, above which the
counts and the counters of the loops would wrap.

| Property | Theorem | Needs, beyond the named assumptions |
|---|---|---|
| `Discovery!TypeOK`, `GraphClosed`, `OneRecordPerEdge`, `GossipNeverShortens` | `TypeCorrect`, `ClosedGraphs`, `NoDuplicates`, `NeverShortened` | |
| `AgeBound`, `NoStaleEdge`, `OwnCopyFreshest` | `AgesBounded`, `NothingStale`, `RenewedAtItsEnd` | `~NO_PURGE` |
| `KHopBound` | `KHopsOnly` | |
| `NeighbourKept` | `NeighboursKept` | `~Lossy`, `PoolsSuffice`, `TTL > 2 * MaxDelay` |
| `Routing!TypeOK` | `TypeCorrect` | |
| `Custody` | `CustodyKept` | (`OwnHashes` of the message is part of the property) |
| `AtMostOnce` | `ArrivesOnce` | `~Overlapping`, `FixedRoutes(route)` |
| `PoolsConsistent` | `PointersInOrder` | |
| `HopsInBounds`, `HopsRight` | `ArrayNotOverrun`, `DistancesExact` | `~MallocMayFail` |
| `Implements` | `LoopsImplementView` | `~MallocMayFail`, `\A d \in Delays : d < UINT16` |

### The network

`LocalGraphProofs` has one lemma per operator: what storing nodes and edges and purging
preserve (capacity, one record per edge, known ends, lifetimes).  The capacity of
`add_edges` is the one with real content: an overwritten edge is replaced by exactly one
record, since both the pool and the packet have at most one per edge.  Its last part takes
the entries of a packet one after the other: n calls of `add_node` or `add_edge`, each of which
stores its entry if it fits, give one of the sets that `add_nodes` and `add_edges` allow for
the first n entries.

`DiscoveryProofs` proves the inductive invariant `IInv`.  `TypeOK` and `GraphClosed` are
not inductive by themselves: that a pool stays within its capacity needs that a *packet*
has at most one record per edge (`SinglePackets`), that the received edge has a link needs
that packets travel over links to motes that run (`PacketsOnLinks`), and that a mote boots
within its capacity needs that one that is off stores nothing (`MoteOK`).  `AgeBound` is
inductive relative to `IInv`: a lifetime only grows where a packet comes over the link itself,
which sets its age to 0, and it is lowered before it is sent.  `FreshIInv` extends
`OwnCopyFreshest` to the packets in flight, whose lifetimes have been lowered by a purge that
the copy at the end of the edge may still have before it.

`DiscoveryViewProofs`:

* `KHopBound` says nothing of packets, so it is not inductive.  `HopIInv` adds that whatever is
  on its way to a mote is within K hops of it, and that every known edge is a link.  The step that
  matters is that of a report: a node within h hops of the sender is within h+1 of every receiver, and
  the sender reports the sources within K-1 hops of its own graph, which is part of the
  network.  Edges of a source K-1 hops away are packed only if they lead back, which is why
  their ends stay within bounds.  The induction over h uses `UpTo`.
* `NeighboursKept` follows an edge through `KeptIInv`: while packets keep coming, either the copy of
  the mote at the end has lost no more than the age of the edge and one delay, or a packet that
  will renew it is on the air.  The pools must hold the neighbourhood (`PoolsSuffice`), which
  needs `KHopBound` first; no packet may be lost; and two delays must be less than TTL. The last
  bound is tight: with `TTL = 2 * MaxDelay` TLC finds a mote that purges a neighbour it hears.

### The router

`TypeCorrect` holds under every change of the graph; the lemma `NearestNeighbour` says that a mote with
an own edge whose end it knows hands on to such an end.  `FlightIInv` adds what runicast
provides: one packet or acknowledgement of a transmission in flight, which belongs to it, and
an acknowledgement only after the message was received, if its packets have hashes of their own; and that `last_received_packet_hash` is that of a
packet the mote has processed, or the one it started with.  With it,

* `CustodyKept`, from `CustodyIInv`: each mote that has got a message whose packets have hashes of their
  own has passed it on to another one, is transmitting it, or has given it up.  If nobody
  transmits and nothing is delivered or given up, every holder has passed the message on to a
  holder; by counting, the message has come back to one of them.  Nothing is said of the hashes of
  the other messages, but a message that shares a hash can be lost: in `rout_repeat` the second
  message is dropped without having been received;
* `ArrivesOnce`, from `OnceIInv`: the motes that have received the message form a line along the
  route, of which only the last one can still be transmitting to somebody new, or they have
  closed a circle that does not contain the destination.  A packet that is dropped for a hash
  that collides only ends the line early, so nothing is needed of the hashes.

### One mote

`MemoryProofs` proves each function of `GraphMemory`: it keeps the pointer array in order and its
effect on the set of entries is that of its counterpart in `LocalGraph`.  That
`memb_alloc` finds a block while the counter is below the capacity is the pigeonhole principle
(`FreeBlock`).  `PointersInOrder` follows, whichever allocation fails, since a failed `malloc`
makes `purge` remove the wrong node but remove it properly.

`HopIInv` of `MoteProofs` describes the array while it grows: its entries are different nodes of
the pool other than the mote, so that there are fewer than the pool has nodes (`ArrayNotOverrun`);
each has its exact distance, and the nearer ones come first (`Ranked`).  That a new entry gets the
right distance needs that every nearer node is in the array already: the neighbours of the
entries before the one being explored are (`Covered`), and no entry is more than one hop
farther away than it (`ExploreIInv`).  At the end every entry is covered, so that the array is complete
by induction over the distance (`DistancesExact`).  When `get_hop_counts` gets no memory in the
middle the array lacks nodes, so `~MallocMayFail` is needed.

`MoteViewProofs` proves the refinement.  `ViewIInv` says of every loop how far it has got with
respect to the graph in `before`:

* `MergeIInv`: after n calls the graph is one that `LocalView` allows for the first n entries of the
  packet, and `todo` holds the other calls (`AddView`);
* `AgeIInv`: the edges before place `i` are those of `before` aged and, if expired, left out; the ones
  behind it are as they were; the nodes are those of `before` without the orphans made so far.
  `diff`, cut to sixteen bits, is the delay that the timer was set to (`Elapsed`): this
  needs that the delay is less than 2^16 (`graph-operations.h:45`) and that `ULONG` is a
  multiple of it (`RemoveView`, `LowerView`, `PurgedView`);
* `ReportIInv`: the graph is that of `before`, purged; the sources before place `i` that qualify
  have all their packets among those sent (`Reported`); and of the source at place `i` the
  full packets and the buffer are disjoint and hold the packable edges that have been
  looked at (`CutSoFar`).  A packet leaves only when it is full and an edge is left, so the
  last one is never empty unless nothing, or nothing more, was packable.  That the array and not a search over
  the graph decides what is packable is where `DistancesExact` comes in (`PacksPackable`,
  `AllSources`).

Each action then maps to `Receive`, `Wake` or `Transmit` of `LocalView`, or to a stutter
(`NextView`).

TLC finds no violation of any of these inductive invariants on the configurations of the
passing runs whose assumptions they need.

### Only model-checked

The liveness properties (`Converges`, `DeadForgotten`, `TimePasses`, `DiesOut`, `Returns`), which
are out of the prover's reach, and the findings.  `Discovery` gives each mote the effect that
`LocalView` describes, by the same operators, but that a network of `Mote`s implements
`Discovery` is not stated as one theorem: the two share the operators and not the variables.

## Not modelled

* Positions: a table of constants.  An address outside it is read behind its end
  (`positions.c:19`), with no defined result; `Distance` is defined for every pair of motes.
* The application: it starts discovery and the router and calls `send_message`, which is
  `Send` with any message.
* `close_router` and `p_broadcast_close`: they run when a process exits, which only the test
  firmware makes it do; for the rest of the network this is a `Crash`.  A second `init_graph`
  in the same run of the program is never reached either.
* What follows an unset count of `get_hop_counts` (above).
* Wording and debug output, the byte layout of packets, rssi and lqi, the values of the hashes.
* The tests, scripts and build files.

## Plan

Done: all modules and runs above, and a proof of every safety property that a passing run checks.
What is left:

1. `Mote` with allocations that fail: what still holds of the array and of the packets up to the
   point where the code is undefined.
2. What an overfull pool leaves of `NeighboursKept`: which neighbours are kept when `PoolsSuffice`
   does not hold.
3. `NO_PURGE` in `Discovery`: `KHopsOnly` covers it, the ages do not apply.
