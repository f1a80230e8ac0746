# L2O3: routing, direct peers and their connections

L2O3 (`src/`) is a peer-to-peer virtual network in C.  A node opens a tap
device, connects over TCP to some other nodes, exchanges link-state packets with
them and forwards ethernet frames along the paths it computes.  It is one
process with one thread per connection, one that reads the tap device and one
that accepts connections.  This directory holds TLA+ models of its core, the
TLC runs that check them and TLAPS proofs.

## The system

| part | state | operations | who calls it |
|---|---|---|---|
| path computation (`routing.c`, `compute_paths`) | `path`, `next`, `m_ct` | adjacency matrix, Floyd-Warshall loop | `update_cache`, `rt_dhosts_to_host` |
| routing table (`routing.c`) | sorted array of hosts with their links, the matrices, the exported edges, one rwlock | `rt_lhost_add`, `rt_dhost_add_link`, `rt_dhost_remove`, `rt_update_edges`, `rt_dhosts_to_host`/`rt_hosts_free`, `rt_get_edges`/`rt_edges_free` | all threads |
| direct peers (`dpeer.c`) | one `dp_t` per connection: socket, write lock, remote address, outstanding probe | three set-up functions (named on the command line, found in a link graph, accepted), the loop `dp_th`, the clean-up labels | own thread |
| direct peer group (`dpg.c`) | sorted array of `dp_t`, one rwlock | `dpg_insert`, `dpg_remove`, `dpg_send_linkstate` | peer threads |
| connection limiter (`pcon.c`) | time of the last attempt per address | `pcon_connect` | peer threads that read link graphs |
| tap reader (`vnet.c`) | tap device | `vnet_reader_th`, `vnet_send` (never called) | own thread |
| wire format (`peer_proto.h`, `pkt.c`, `dpeer.c`) | stream of packets per connection | headers, pack and unpack, byte order | peer threads |
| main and listener (`sock.c`) | - | start-up order, accept loop | - |
| arrays, search (`darray.h`, `stdparam.h`), debug (`debug.c`) | - | growth, removal, binary search, printing | everyone |

What makes it hard:

* **Two owners.**  A host of the routing table that is a direct peer does not
  have an address of its own: its `host` pointer leads *into* the `dp_t`, and
  `dp_from_ip_host` computes the `dp_t` back from it.  The group holds another
  pointer.  The thread of the peer frees the `dp_t`.
* **Search by address.**  Both tables are searched by MAC address only, and
  there may be several connections to one node at a time (both ends connect, or
  a link graph names a node that is connecting).
* **Locks across sends.**  `rt_dhosts_to_host` and `rt_get_edges` return with the
  read lock held, which their counterparts release after blocking sends.
* **Three orders of set-up**, each with its own order of clean-up labels.
* **Cached matrices indexed by row** while rows shift.
* **Weights**: 0 is "disconnected" but also a possible rtt, sums are `uint32_t`,
  and next to them there is a "len hack".
* **Link graphs** that arrive over several peers, old, repeated and out of order.
* **Blocking sends in the thread that reads**, with locks held, several threads
  on one connection, and an error path that unlocks twice.
* **A timer and one outstanding probe** per connection, against answers of any age.
* **Descriptors** that are numbers, limited, reused at once and not always closed.

## Modules

| module | models | lines |
|---|---|---|
| `Paths` | the operators of `compute_paths` | routing.c 26-29, 105-250 |
| `PathsProofs` | TLAPS proofs about them; induction over the naturals with sets in the place of predicates | |
| `FloydWarshall` | its triple loop, one relaxation per step, for any number `N` of hosts | routing.c 105-250 |
| `FloydWarshallProofs` | TLAPS proofs about it | |
| `DirectTable` | abstract specification: for each address at most one `dp_t`, set and dropped one at a time | routing.h 90-110 |
| `Routing` | the routing table, one step per operation | routing.c 70-102, 252-1054 |
| `RoutingProofs` | TLAPS proofs about it | |
| `DirectPeers` | the life of the peers, the group, the locks, the users of peers | dpeer.c, dpg.c, vnet.c 32-81 |
| `DirectPeersProofs` | TLAPS proofs about it | |
| `PacketChannel` | abstract specification: a queue of whole packets | dpeer.c 74-84, 236-242 |
| `Wire` | one direction of a connection: write lock, bytes, lengths, errors of `send()`, receiver | dpeer.c 21-84, 155-373, peer_proto.h |
| `WireProofs` | TLAPS proofs about it | |
| `Pcon` | the connection limiter with its array, sorting and bisection, and the packing of addresses | pcon.c, stdparam.h, darray.h 20-71, pkt.c |
| `PconProofs` | TLAPS proofs about it | |
| `Link` | two nodes and their connection: probe timer, link graphs, blocking sends, locks, ends and crashes | dpeer.c 89-152, 466-569, dpg.c 32-56, vnet.c 32-81 |
| `LinkProofs` | TLAPS proofs about it | |
| `Main` | main, the listener, descriptors | sock.c 27-107, 199-261, vnet.c 83-124, 183-254, dpeer.c 394-461 |
| `MainProofs` | TLAPS proofs about it | |
| `MC...` | instances for TLC | |

Operators whose comment calls them a faulty variant are mistakes one could make
in the code; `PROJECT.json` pairs each with the property that notices it.

**Paths, FloydWarshall.**  A matrix is a function of functions, rows are counted
from 1.  `PATH_MAX` stands for `UINT32_MAX` and sums wrap modulo `PATH_MAX + 1`.
`RelaxStep` is one turn of the innermost loop; `Recompute` is the next call,
with the links of one host changed.  `ComputePaths` does a whole round at once;
the invariant `LoopIsComputePaths` shows that this is what the in-place loop
computes, and `Routing` uses it.

**Routing.**  `host` is the sorted array as a function from addresses; a row is a rank.
A link array is a sequence, since `link_add` does not look for duplicates.  `cache` is
what `compute_paths` left, `exported` the set of edges ever appended to `rd->edges`.
`update_cache` is part of every action that calls it, with trimming, path computation
and export in the order of the code. Trimming a host that is not the last one of the
array frees the wrong host (`status` becomes `"corrupt"`).  Trimming the last one
removes one link of each host to it, so that a host with two keeps one to a host that is
gone (`"dangling"`); duplicates are nothing unusual, since `rd->edges` only grows and is
sent as it is.  Both times `compute_paths` reads what was freed, and the behaviour ends
there, as whatever follows is undefined.  A read past the end of a row (`EdgesOf`) is a
nondeterministic choice.  Time stamps have two digits in base `BYTE` so that
`pkt_edges_cmp_src` can compare them in the wrong byte order, as it does on a
little-endian machine. A link graph is a sequence of edges: `SortedEdges` are the orders
`qsort` may leave it in (it need not be stable, and the edges of one source with one
time stamp are equal to `pkt_edges_cmp_src`), `TakeEdge` one turn of the loop of
`rt_update_edges`, `TakeEdges` the loop. The time stamps and rtt that direct links are
given are inputs; a direct link's time stamp is never read again and is left out.
Allocations succeed here.

**DirectPeers.**  `pc[d]` is where the thread of a `dp_t` is.  Three tables each
(`InitialThen`, `InitialElse`, `InitialCleanup` and so on) are the control flow of
`dp_th_initial`, `dp_th_linkstate` and `dp_th_incoming`: the next step, the label an
error jumps to, the order of the labels.  `linked` is the set of `dp_t` that hosts of
the routing table point into, the part of the table that `DirectTable` describes.
`rdReaders` and `dpgReaders` are the holders of the read locks, `using` the peers a
thread is sending to; for a packet to this node that is `Stray`, what `dp_from_ip_host`
makes of the local host.  An operation under a write lock is one step, enabled when
nobody reads.  Three kinds of failure can be switched on by `Faults`: `"nomem"` (an
allocation fails inside the routing table), `"rekey"` (a node found through a link graph
answers with another address than the graph gave, which is copied over the key of its
host), `"mcast"` (a multicast whose source has no path to this node, after which the
lock is released twice).  `happened` is a history variable that records them, so that a
property can say until when it holds.

**Wire.**  A stream is a sequence of runs of bytes of one packet; positions and
lengths are real (a link graph of n edges has 14 + 36 n bytes after its header),
contents are left out.  `SendSome` is one turn of the loop of `dp_psend_data`.
`SendError` and `UnlockAgain` are the two unlocks of the error path.  `Errors`
says how a `send()` fails: `"reset"` (the connection is gone; the next but one
`send()` raises SIGPIPE, which ends the process) or `"nobufs"` (it stays up).
The receiver takes whatever comes first for a header; `"lost"` is the state after
it has taken something else for one.

**Pcon.**  `pcon_connect` step by step: lock, each turn of the bisection, the
decision, unlock, `dp_create_linkstate` outside of the lock.  A host is a number
whose last two digits are the address, so that `Pack` can change their places as
`htonl` and `htons` do to an address that is in network order already.  `now` is
`gettimeofday`, which may be set back and forward, `time` the time that passes,
`ahead` by how much the clock was set forward in all.  `last` is a
history variable: when an attempt was last decided on.

**Link.**  `th[n]` is where the peer thread of node n is: in `epoll_wait` (`"wait"`, or
`"poll"` right after a probe, when a whole second is left), in a send, before an
operation of the routing table, leaving.  `chan[n]` holds the packets on their way to n,
at most `Cap`; a thread whose packet does not fit keeps `wlock` and, if it broadcasts or
forwards, its read lock.  A packet with data is for the node that receives it: its peer
thread takes the read lock and sends to its own host (`"stray"`), which returns, or
waits for ever for what it takes for a mutex (`"hung"`); `Stray` says which are allowed.
A send to a node that has ended fails in two steps, since the lock is released twice and
another sender may take it in between.  Nodes in `Slow` once fire the timer before the
last probe was answered.  A crash closes the socket, the end of a thread does not.

**Main.**  `use` is the descriptor table; the kernel hands out the lowest free
number.  `stage` is where `main` is; every `DIE` is a transition to `"died"`, which
ends all threads.  The threads of connections are reduced to what opens and
closes descriptors; how they get from one to the next is in `DirectPeers`.

How they fit together: `Routing` implements `DirectTable`
(`ImplementsDirectTable`), and `DirectPeers` uses its `linked` as `DirectTable`
allows (`KeepsToDirectTable`), so that the small picture of the routing table in
`DirectPeers` is the one the large model justifies.  `Wire` implements
`PacketChannel` (`DeliversPackets`), which is why `Link` can move whole packets.
`ForwardsToDirect` justifies what `Forward` of `DirectPeers` hands out (members of
`linked` or, for a packet to this node, its own host) and what `RecvData` of `Link`
sends to.

## Runs

| run | instance | shows |
|---|---|---|
| `paths` | 3 hosts, rtt 1, 2 and 5, `PATH_MAX` 5 (every link matrix, sums that wrap, ties of the len hack) | `ConnectedIffLinked`, `NextIsALinkedHop`, `WalkEnds`, `NoShortcuts`, `LoopIsComputePaths` |
| `all_pairs` | the same | violated: hosts two links apart are never connected |
| `routing` | 3 hosts, this node in the middle of the order, 2 `dp_t`, rtt 0, 1 and 3, all link graphs of one edge and many of two | `DirectIffLinked`, `LinksResolve`, `CacheFresh`, `RecomputeAlone`, `ForwardsToDirect`, `NoOldLinksBack`, `ImplementsDirectTable`, `DirectStays` |
| `trim` | one `dp_t` | violated: see below |
| `self` | one `dp_t` | violated: a packet to this node is handed to its own host |
| `peers` | 2 peers, 1 remote address and this node's own, all faults, fairness | `DpgSound`, `NoDanglingHost`, `UsedPeersLive`, `KeepsToDirectTable`, `LinkComesBack` |
| `peers_mcast` | 2 peers, 2 remote addresses, fault `"mcast"` | violated: `HeldWhileUsed`, a thread sends to a freed peer |
| `wire` | 3 senders, 3 packets, link graphs of 0, 1820, 1821 and 5461 edges, a reset at any time | `LockedWhileUp`, `DeliversPackets`, `RejectsOverlongOnly`, `LockComesFree` |
| `pcon` | 2 threads, 2 nodes (one whose address is its own mirror image), 3 units of time, clock set back by 1 and forward by 1 | `Eased`, `SearchRight`, `TableFits` |
| `link` | 2 nodes, a tap reader at one, 4 packets per direction, a late answer, sends to the own host that return or hang, an error at one and crashes of either | `ComesBackIfRead`, `RttMeasured`, `CrashNoticed` |
| `link_blocked` | the same, tap readers at both, sends to the own host return, nothing else | violated: both nodes block for ever |
| `main` | 4 connections, 5 descriptors, all failures | `OwnDescriptors`, `LeaksKnown` |

Bounds.  Three hosts are the least with an intermediate host, and the trimmed
host can be before or after this node.  Two peers allow two connections to one
node, the case in which a removal by address hits the wrong one, and the address of
this node is a second one for searches that miss; the theorems are for any number of
both.  The numbers of edges in `wire` are those around 1820, the most that fit into
16 bits: 1821 give a length that wraps to 34, more than the fixed part of 14, and
5461 one that wraps to 2, so that the receiver's subtraction goes below zero;
one byte and all bytes stand for the ways to divide a part.  In `pcon` the time is
long enough for a second attempt after a pause of more than `EASE`, and three
entries make the bisection go both ways.  In `link` a direction has room for the
probes, answers and link graphs of one stall, as socket buffers of many kilobytes
have, but not for unlimited data; with less room than that even traffic in one
direction blocks both nodes.  In `main` five descriptors are used up by two
connections and what others leave behind.  Symmetry is used in safety runs only
(`routing`, `pcon`, `main`).  `CHECK_DEADLOCK FALSE` is set where a behaviour may
really end: memory corruption (`Routing`), the bound on packets or a killed
process (`Wire`), crashed nodes and the deadlock that is shown (`Link`), exit
(`Main`).

Fairness (`peers`): a send to a peer ends, since the remote node reads or the
connection breaks (a send to `Stray` need not end); a thread that waits for the
write lock of the routing table in order to put its link back gets it if the lock is
free again and again; the remote node answers probes, in less than the second
between two of them.  `LinkComesBack` supposes that the readers leave the locks again
and again (`ReadersPause`), as the default rwlock of glibc prefers readers and
overlapping readers can keep a writer out forever, and that no thread sends to
`Stray` for ever (`StrayEnds`).  Nothing is assumed of set-up and of ends: whether a
thread that ends ever gets both write locks depends on such readers, and
`link_blocked` shows that it may not.

Fairness (`wire`): a `send()` returns in the end, because the remote node reads or
the connection breaks, and a thread goes on after it.  Nobody has to begin a packet.

Fairness (`link`): a thread that can run runs; one that waits for a lock gets it if it
is free again and again; the timer fires (the code's clock is not set back for ever).
Nothing is assumed of the tap devices or of faults, nor which way a send to the own host
goes: the properties exempt a node whose thread is `"hung"`.  A full connection takes
packets again only when the other peer thread reads, which is a step of the model, not
an assumption.

## What the code does not do

Five runs show where the code does not do what its comments say; `PROJECT.json`
quotes the lines.

* `all_pairs` (routing.c:236): `x < path[i][j]` is never true of an entry that is
  0, the value of "disconnected".  Only pairs that have a link are connected.
* `trim` (routing.c:332): after `host_remove` the place of the victim holds the
  next host, which is what `free_host` frees.
* `self` (dpeer.c:275): `path[i][i]` is 1 (routing.c:162) and `next[i][i]` unset, so
  that for a packet to this node, which every data packet is at its receiver,
  `rt_dhosts_to_host` returns the local host (routing.c:984-1006).  It lies in no
  `dp_t`; `dp_recv_packet` and `vnet_reader_th` compute one all the same, lock what
  they take for its mutex and send on what they take for its descriptor.
* `peers_mcast` (routing.c:908): the lock is released by `rt_dhosts_to_host` and,
  as it returns 0, again by `rt_hosts_free`.
* `link_blocked` (dpg.c:49): with traffic in both directions two peer threads can
  block in `send()` on one another, with their read locks held.

Seen while modelling, and in the models, without a run of their own:

* Export: `rd->edges` is only ever appended to, so that edges of earlier graphs are
  sent forever (routing.c:278); a link is left out when the column numbered as the
  link is 0 (routing.c:262).  More than 1820 edges do not fit into a packet
  (dpeer.c:358): the receiver ends the connection (`RejectsOverlongOnly`).  A full
  mesh of 44 nodes has that many, and with old edges fewer nodes do.
* Time stamps are compared in network byte order (routing.c:688), and a newer edge
  of a source can be passed over together with an older one.
* A multicast from the tap device matches no destination (routing.c:917).  As nothing
  calls `vnet_send`, no packet ever reaches a tap device: one for this node is sent
  to its own host instead (`self`).
* `trim_host` removes one link of each host to the victim (routing.c:323); what is
  left of two leads to a host that is gone.  `LinksResolve` says that this is the
  only way to such a link.
* When its first link graph cannot be sent, `dp_th_incoming` takes another peer of
  the same address out of the group (dpeer.c:982); a duplicate connection that
  fails takes the link of the first one along (dpeer.c:852; `LinkComesBack` shows
  that it returns).  The address of a peer is copied from its link graph without a
  lock (dpeer.c:195): when a node found through a link graph answers with another one
  than the graph gave, the key of a host in the sorted table is overwritten, the
  removal of its link misses, and the table is left with a pointer into a freed
  `dp_t` (`"rekey"`; only the group is safe, `DpgSound`).  The same comes of a failing
  allocation after the link was installed (routing.c:674).
* A clock set forward brings two attempts to connect closer together, by as much
  (pcon.c:58); one set back does not (`Eased`).  A host that could not be stored is
  tried whenever it is reported (pcon.c:72).
* Addresses in link graphs have their bytes swapped (pkt.c:16), so that on a
  little-endian machine peers found through them are tried at addresses nobody has
  (`Reported` in `Pcon`).  `pcon_connect` is called for this node itself and for
  peers that are connected, too.
* Descriptors: `dp_th` never closes its socket (dpeer.c:561), `connect_inet` not
  after an error (dpeer.c:457), and a connection whose `pthread_create` failed has
  nobody to close it (dpeer.c:725).  When they are used up, `accept` fails and the
  listener exits the process (sock.c:97), although notes.txt has it return to
  waiting (`LeaksKnown` in `Main`).  The remote end of a connection whose thread has
  ended is not told, and its sends block once the connection is full
  (`ComesBackIfRead` exempts this case).
* A `send()` that fails while the connection stays up lets two senders mix their
  bytes (`Errors = {"nobufs"}` in `Wire`); one on a connection that was reset ends
  the process with SIGPIPE (dpeer.c:28).
* If every answer to a probe takes more than a second, the rtt is never measured
  (dpeer.c:116).  The branch of `dp_th` for an updated link state (dpeer.c:539) is
  never taken.  `random()` is not seeded (vnet.c:188).

## Proofs

Checked by TLAPS for every value of the constants that the named assumptions
allow.  A module that ends in `Proofs` has an inductive invariant `IInv` (or
several), one lemma per action, and the theorems.

The library's induction principles take a predicate as a parameter, which the
provers cannot instantiate.  `PathsProofs` has them with a set instead: a set of
naturals that is not empty has a least element (`LeastNatural`, from
well-foundedness), so that a set with 0 that is closed under successor holds all
naturals (`SetInduction`).  With these the recursive functions inside
`ComputePaths`, `TakeEdges`, `Hops` and `Hop` are shown to exist and to have the
values their definitions say, and loops over them are proved by induction.

`PathsProofs` (assumption: `PATH_MAX >= 2`).  The lemma `PathSumBounds` says that a
sum of two legs, wrapped or not, is never below either leg; so a relaxation that
is taken lowers an entry that was connected already and goes through a host that
is neither end.  One round for k changes neither row k nor column k
(`RoundKeepsCross`).  `ComputePathsGood`: the matrices of any links connect exactly
the linked pairs, an intermediate is linked to both ends, and each hop along `next`
leads to an entry that is smaller in (`path`, `next`), where the second component
is needed for the ties of the len hack.

`FloydWarshallProofs` (also: at least one host, rtt values within the weights): `IInv`
is `TypeOK`, `ConnectedIffLinked` and `NextIsALinkedHop` together with `ClimbBound`: the
last leans on the first two.  A labelling of the hosts in which no link climbs by more
than it costs (`Heights`) bounds every entry from below: a sum of two legs that does not
overflow climbs no more than both, one that does is PATH_MAX, which no climb exceeds,
and two legs of weight 1, which the len hack makes one, cost nothing.  From it follow
`TypeCorrect`, `OnlyLinkedPairsConnected`, `IntermediateIsAdjacent` and
`NoOverflowShortcuts`.  `RoundSoFar` says that in the middle of a round the entries the
loop has passed are those of the round and the others those of the rounds before; as row
and column k are the same in both it does not matter that the loop works in place:
`LoopComputesPaths`.  `WalksEnd` takes the descent from `ComputePathsGood`: a walk of N
hops would meet a host twice.

`RoutingProofs` (assumptions: a finite set of addresses that does not hold 0,
`NoDp` is no peer, rtt values within the weights, link graphs are sequences of
edges).  `Table` is what holds of every table that an operation hands to
`update_cache`: types, this node is the one local host, the hosts with a `dp_t` are
the direct ones, this node has one link to each of these and none to others, and
all links lead to other hosts of the table.  `LinkedDirect` is not inductive alone:
that a link graph cannot give this node a link needs `LocalAlone`, that trimming
leaves its links alone needs that only normal hosts are trimmed and that these have
no link from here.  The loop over a link graph has the invariant `InLoop`, which also
says that the source it is at has a larger time stamp than before the packet.
`IInv` is `TypeOK` with `Table(host)`, `Fresh` and `RecomputeAlone` as long as
trimming has not broken the table.  From it follow `TypeCorrect`, `PeersAreLinked`,
`MatricesAreFresh` and `RecomputesAlone`.  `LinksAreResolved` is about every step,
those that break the table included, except for the freed successor: `Doubled` follows
the loop over a link graph and says that two links from one host to another were there
before or are two edges of the packet, and `Leftover` that trimming leaves a link to
its victim only where there were two.  What an operation does
to the other hosts (`Makes`), and trimming after it (`Trimmed`), gives the action
properties `OldLinksStayAway` and `PeersStayDirect`, and the refinement
`TableKeepsPeers`.  `SendsToPeers` puts it together with `ComputePathsGood`: the
ends that the multicast branch hands out have this node as an entry of `next` in
their column, and an intermediate host is linked to the end.  It also says that a
packet for this node always gets this node's own host.

`DirectPeersProofs` (assumptions: the special values differ): `DpgInv` says where a
thread may be while its `dp_t` is in the group, that members have different
addresses, and which locations have an open socket; it is inductive under all
faults (`TypeCorrect`, `DpgIsSound`).  `TableInv` says that addresses in the routing
table are unique until a key is overwritten, whatever else fails: from it the
refinement `PeersKeepToDirectTable`, in which a step sets or drops one peer of one
address, and `PeersImplementDirectTable` where no key is.  `LinkInv` says where a
thread may be while a host points into its `dp_t`, and needs that addresses and the
results of removals are reliable, that is, that neither `"nomem"` nor `"rekey"` has
happened so far (`KeysKept`): `NoHostDangles`.  `LockInv` ties what a thread uses,
`Stray` apart, to the lock it holds; a step that removes a peer needs that lock free.
Until a failure happens it gives `UsedPeersAreLive`.  Different addresses are needed
because a removal by address must hit the caller's own entry if it has one.

`WireProofs` (any senders, bounds and numbers of edges): `TypeCorrect` holds
whatever `send()` does.  The others suppose that a `send()` fails only when the
connection breaks (`"nobufs" \notin Errors`): with `"nobufs"` they are false, as said
above.  `IInv` adds that nobody is on an error path while the connection is up
(`LockHeld`), that the stream consists of whole packets except for the last run
(`RunsInPlace`), which is what the holder of the lock has sent so far (`LastRun`),
and that the receiver is at a boundary of packets (`Receiving`).  The receiver's
arithmetic on 16 bits is right up to 1820 edges, and above it never agrees
(`EdgesRoundTrip`), so that an overlong graph is always noticed.  From this
follow `LockIsHeld`, `OnlyOverlongRejected` and the refinement
`ConnectionDeliversPackets`.

`PconProofs` (assumptions: finitely many nodes, hosts are numbers, `BYTE` is positive,
the bounds are natural numbers): `IInv` adds to the types that the user of the table
holds the lock (`Locked`), that the array ascends (`Ascending`), that what is left of a
search interval is below the host and what is right of it above (`Searching`), and that
the clock is never ahead of the time that has passed with what it was set forward
(`Behind`, with `Elapsed`), and that an entry's time is behind that of the last attempt
by at most what the clock is behind (`Dated`).  The bisection needs `Ascending`;
`Searching` at the end of a search that fails names the place where `qsort` puts the new
entry (`SortedInserts`), which keeps the array ascending.  `Dated` turns "the entry is
older than `EASE` by the clock" into "the attempt is older than `EASE`".  From it follow
`TypeCorrect`, `SearchIsRight` and `AttemptsAreEased`.  An ascending array has no host
twice, and packing twice gives the address back (`PackTwice`), so that there are at most
two entries for a node (`TableIsBounded`).

`LinkProofs` (assumptions: two nodes, positive bounds): `Numbered` says that a thread
has a number for what it sends next, which the types need; `LocksInUse` that a lock is
held nowhere but where the code is between taking and releasing it, on all ways out
of a send, during the send to the own host and at the ends of threads and nodes.  It
does not say that a thread inside a send still has the lock of the connection: the
second unlock of a failed one may have taken it away.  `TypeCorrect`, `LocksAreInUse`;
`WritersWaitForTap`: a peer thread that wants the write lock can only wait for the tap
reader, so that what blocks for ever in `link_blocked` takes both nodes.

`MainProofs` (assumptions on constants only): `IInv` is `TypeOK`, `OwnDescriptors`,
`LeaksKnown`, that the tap device's descriptor is its own (`TapOwned`), that no thread
runs too early (`NotYet`) and that a connection has one socket and one epoll
descriptor at a time (`Single`).  Without `Single` a close could leave a second socket
behind that nobody knows of.  `TypeCorrect`, `DescriptorsAreOwn`, `LeaksAreKnown`.

Only model-checked: the liveness properties (`LinkComesBack`,
`LockComesFree`, `ComesBackIfRead`, `RttMeasured`, `CrashNoticed`), which are about
fairness and out of the prover's reach, and the five violations.  All other properties
of the runs are theorems.

## Not modelled, and the plan

Not modelled: argument parsing, name resolution, formatting and logging, `vnet_send`,
`vnet_get_mtu` and `svect.h`, which nothing uses, packet types that no node sends.
The second unlock of a dropped multicast when nobody else holds the lock is
undefined, and left out, as is a send to the own host that finds one of the program's
own descriptors in the place of one.  Reading and writing real devices and sockets is I/O.
`DirectPeers` and `Link` are not composed: the one has many peers of a node and no
bytes, the other one connection and its bytes; a model with both is out of TLC's
reach, and what each takes from the other is said above.

Next: in `Routing`, what the export may leave out; in `DirectPeers`, what remains of
`NoDanglingHost` once an allocation has failed; the hypotheses under which `Link` and
`DirectPeers` use one another, as theorems.
