----------------------------- MODULE DirectPeers -----------------------------
(***************************************************************************)
(* The life of the direct peers of one node: the three thread functions    *)
(* of dpeer.c that set up a connection, the peer loop dp_th, the group of  *)
(* direct peers (dpg.c), the part of the routing table that points into    *)
(* them, and the threads that use peers they looked up.                    *)
(*                                                                         *)
(* A dp_t has two owners besides its thread: the dpg, and the HT_DIRECT    *)
(* host of the routing table, whose address is a pointer into the dp_t.    *)
(* Both are found again by MAC address only.  The routing table is kept    *)
(* here as the set of the dp_t its HT_DIRECT hosts point into; module      *)
(* Routing shows that nothing else in the table touches them.              *)
(*                                                                         *)
(* Each operation under a write lock is one step, enabled when no reader   *)
(* holds the lock; the read-locked sections last several steps.            *)
(***************************************************************************)
EXTENDS FiniteSets

CONSTANTS Dp,        \* the dp_t objects that may be allocated
          Vnet,      \* the thread that reads the tap device
          Mac,       \* addresses of remote nodes
          Local,     \* the address of this node
          Junk,      \* 0xFF..FF, before the peer has said who it is
          Stray,     \* what dp_from_ip_host makes of this node's own host,
                     \* which lies in no dp_t
          Faults     \* which of the failures below may happen

(***************************************************************************)
(* "nomem": an allocation fails inside rt_dhost_add_link or                *)
(*          rt_dhost_remove after (or before) the table was changed.       *)
(* "rekey": a node found through the link graph answers with another       *)
(*          address than the graph gave for it, and the key of its host in *)
(*          the routing table is overwritten in place.                     *)
(* "mcast": a multicast packet arrives from a source that has no path to   *)
(*          this node, and rt_dhosts_to_host returns 0 with the lock free. *)
(***************************************************************************)
ASSUME FaultsAssumption == Faults \subseteq {"nomem", "rekey", "mcast"}
ASSUME VnetAssumption == Vnet \notin Dp
ASSUME StrayAssumption == Stray \notin Dp
ASSUME MacAssumption == Local \notin Mac /\ Junk \notin Mac \cup {Local}

VARIABLES kind,        \* which thread function runs the dp_t
          pc,          \* where its thread is
          mac,         \* remote_host.mac
          fd,          \* con_fd: "none", "socket" (not connected), "open" or
                       \* "closed"
          dpg,         \* the direct peer group
          linked,      \* the dp_t that HT_DIRECT hosts point into
          rdReaders,   \* threads that hold rd->lock for reading
          dpgReaders,  \* threads that hold dpg->lock for reading
          using,       \* the dp_t a thread has looked up and sends to
          happened     \* history: the failures there have been

vars ==
  <<kind, pc, mac, fd, dpg, linked, rdReaders, dpgReaders, using, happened>>

Thread == Dp \cup {Vnet}
Kind == {"initial", "linkstate", "incoming"}
Peer == Mac \cup {Local}

Setup == {"start", "hs", "link", "graph", "send", "sending", "insert", "probe"}
Loop == {"loop", "fwd", "relink", "bcast", "bcasting"}
Teardown == {"unlink", "undpg", "closefd"}
LoopExit == {"exit_dpg", "exit_link"}
Location == {"unborn", "free", "freed"} \cup Setup \cup Loop \cup Teardown
              \cup LoopExit

Init ==
  /\ kind = [d \in Dp |-> "incoming"]
  /\ pc = [t \in Thread |-> IF t = Vnet THEN "loop" ELSE "unborn"]
  /\ mac = [d \in Dp |-> Junk]
  /\ fd = [d \in Dp |-> "none"]
  /\ dpg = {}
  /\ linked = {}
  /\ rdReaders = {}
  /\ dpgReaders = {}
  /\ using = [t \in Thread |-> {}]
  /\ happened = {}

-----------------------------------------------------------------------------
(***************************************************************************)
(* The three thread functions: the order of their steps, the label each    *)
(* step jumps to when it fails, and the order of the cleanup labels.       *)
(***************************************************************************)
InitialThen ==
  [start |-> "hs", hs |-> "graph", graph |-> "insert", insert |-> "link",
   link |-> "probe", probe |-> "loop"]

\* A faulty variant of InitialElse: skips cleanup_dpg when it cannot add the
\* link.
InitialElseKeepsDpg ==
  [start |-> "closefd", hs |-> "closefd", graph |-> "closefd",
   insert |-> "closefd", link |-> "closefd", probe |-> "unlink"]

InitialElse ==
  [start |-> "closefd", hs |-> "closefd", graph |-> "closefd",
   insert |-> "closefd", link |-> "undpg", probe |-> "unlink"]

InitialCleanup == [unlink |-> "undpg", undpg |-> "closefd"]

LinkstateThen ==
  [start |-> "hs", hs |-> "link", link |-> "graph", graph |-> "insert",
   insert |-> "probe", probe |-> "loop"]

\* A faulty variant of LinkstateElse: skips cleanup_rt when it cannot join the
\* group.
LinkstateElseKeepsLink ==
  [start |-> "closefd", hs |-> "closefd", link |-> "closefd",
   graph |-> "unlink", insert |-> "closefd", probe |-> "undpg"]

LinkstateElse ==
  [start |-> "closefd", hs |-> "closefd", link |-> "closefd",
   graph |-> "unlink", insert |-> "unlink", probe |-> "undpg"]

LinkstateCleanup == [undpg |-> "unlink", unlink |-> "closefd"]

IncomingThen ==
  [hs |-> "send", sending |-> "insert", insert |-> "link", link |-> "loop"]

IncomingElse ==
  [hs |-> "closefd", sending |-> "undpg", insert |-> "closefd",
   link |-> "undpg"]

IncomingCleanup == [undpg |-> "closefd"]

\* The tables of the function that runs the thread.
Then(k, p) ==
  CASE k = "initial"   -> InitialThen[p]
    [] k = "linkstate" -> LinkstateThen[p]
    [] k = "incoming"  -> IncomingThen[p]

Else(k, p) ==
  CASE k = "initial"   -> InitialElse[p]
    [] k = "linkstate" -> LinkstateElse[p]
    [] k = "incoming"  -> IncomingElse[p]

Cleanup(k, p) ==
  CASE k = "initial"   -> InitialCleanup[p]
    [] k = "linkstate" -> LinkstateCleanup[p]
    [] k = "incoming"  -> IncomingCleanup[p]

Goto(t, p) == pc' = [pc EXCEPT ![t] = p]

\* The failure f happens in this step.
Happens(f) == f \in Faults /\ happened' = happened \cup {f}

-----------------------------------------------------------------------------
(* The operations of dpg.c and of routing.c on the two shared tables.      *)

\* bsearch_dpg: the member with the address of d.
SameMac(S, d) == {e \in S : mac[e] = mac[d]}

(***************************************************************************)
(* find_link_by_addr on the links of the local host.  The addresses are    *)
(* the ones in the dp_t themselves: once one was overwritten in place the  *)
(* arrays are no longer sorted and the search may miss what is there.      *)
(***************************************************************************)
Lookup(d) ==
  {{e} : e \in SameMac(linked, d)} \cup
  (IF SameMac(linked, d) = {} \/ "rekey" \in happened THEN {{}} ELSE {})

\* A faulty variant of rt_dhost_add_link: an existing link is taken over.
rt_dhost_add_link_takes_over(d) ==
  /\ rdReaders = {}
  /\ mac[d] # Local
  /\ \E found \in Lookup(d) : linked' = (linked \ found) \cup {d}
  /\ UNCHANGED happened

\* rt_dhost_add_link for the address of d, returning 0: an existing link is
\* left with the dp_t it points into.
rt_dhost_add_link(d) ==
  /\ rdReaders = {}
  /\ mac[d] # Local
  /\ \E found \in Lookup(d) :
       linked' = IF found = {} THEN linked \cup {d} ELSE linked
  /\ UNCHANGED happened

\* The same, returning an error: the address is this node's own, or an
\* allocation has failed, in the end with the link already installed.
rt_dhost_add_link_fails(d) ==
  /\ rdReaders = {}
  /\ \/ UNCHANGED <<linked, happened>>
     \/ /\ Happens("nomem")
        /\ mac[d] # Local
        /\ SameMac(linked, d) = {}
        /\ linked' = linked \cup {d}

\* A faulty variant of rt_dhost_remove: without the write lock.
rt_dhost_remove_unlocked(d) ==
  \/ (\E found \in Lookup(d) : linked' = linked \ found) /\ UNCHANGED happened
  \/ Happens("nomem") /\ linked' = linked

\* rt_dhost_remove for the address of d.
rt_dhost_remove(d) ==
  /\ rdReaders = {}
  /\ \/ /\ \E found \in Lookup(d) : linked' = linked \ found
        /\ UNCHANGED happened
     \/ Happens("nomem") /\ linked' = linked

dpg_insert(d) ==
  /\ dpgReaders = {}
  /\ SameMac(dpg, d) = {}
  /\ dpg' = dpg \cup {d}

\* There is a peer with this address already, or no memory.
dpg_insert_fails(d) ==
  /\ dpgReaders = {}
  /\ dpg' = dpg

dpg_remove(d) ==
  /\ dpgReaders = {}
  /\ dpg' = dpg \ SameMac(dpg, d)

-----------------------------------------------------------------------------
(* Creation.                                                               *)

Create(d, k, p, m, f) ==
  /\ pc[d] = "unborn"
  /\ kind' = [kind EXCEPT ![d] = k]
  /\ mac' = [mac EXCEPT ![d] = m]
  /\ fd' = [fd EXCEPT ![d] = f]
  /\ Goto(d, p)
  /\ UNCHANGED <<dpg, linked, rdReaders, dpgReaders, using, happened>>

\* main starts at most one peer named on the command line.
dp_create_initial(d) ==
  /\ \A e \in Dp : pc[e] # "unborn" => kind[e] # "initial"
  /\ Create(d, "initial", "start", Junk, "none")

\* A thread that reads a link graph tries to connect to every node in it.
dp_create_linkstate(d) ==
  /\ \E e \in Dp : pc[e] \in {"graph", "loop"}
  /\ \E m \in Peer : Create(d, "linkstate", "start", m, "none")

\* peer_listener accepted a connection.
dp_create_incoming(d) == Create(d, "incoming", "hs", Junk, "open")

-----------------------------------------------------------------------------
(* Setting up a connection.                                                *)

\* connect_host or connect_inet, then dp_send_join.
Connect(d) ==
  /\ pc[d] = "start"
  /\ fd' = [fd EXCEPT ![d] = "open"]
  /\ \/ Goto(d, Then(kind[d], "start"))
     \/ Goto(d, Else(kind[d], "start"))
  /\ UNCHANGED <<kind, mac, dpg, linked, rdReaders, dpgReaders, using,
                 happened>>

\* No socket, or one that cannot be connected: connect_host closes it again,
\* connect_inet does not.
ConnectFails(d) ==
  /\ pc[d] = "start"
  /\ \/ fd' = fd
     \/ fd' = [fd EXCEPT ![d] = IF kind[d] = "linkstate" THEN "socket"
                                                        ELSE "closed"]
  /\ Goto(d, "free")
  /\ UNCHANGED <<kind, mac, dpg, linked, rdReaders, dpgReaders, using,
                 happened>>

\* The first packet: the link graph's header, or the whole join.
Handshake(d) ==
  /\ pc[d] = "hs"
  /\ IF kind[d] = "incoming"
     THEN \E m \in Peer : mac' = [mac EXCEPT ![d] = m]
     ELSE mac' = mac
  /\ Goto(d, Then(kind[d], "hs"))
  /\ UNCHANGED <<kind, fd, dpg, linked, rdReaders, dpgReaders, using,
                 happened>>

HandshakeFails(d) ==
  /\ pc[d] = "hs"
  /\ Goto(d, Else(kind[d], "hs"))
  /\ UNCHANGED <<kind, mac, fd, dpg, linked, rdReaders, dpgReaders, using,
                 happened>>

\* The addresses that the node at the other end may give as its own (input).
Answers(d) ==
  IF d \in linked /\ "rekey" \notin Faults THEN {mac[d]} ELSE Peer

\* The address of the peer, copied into the dp_t without any lock, also when
\* the host of the routing table is found by it.
PopulateMac(d) ==
  \E m \in Answers(d) :
    /\ mac' = [mac EXCEPT ![d] = m]
    /\ IF d \in linked /\ m # mac[d] THEN Happens("rekey")
                                      ELSE UNCHANGED happened

\* dp_read_pkt_link_graph, which ends with rt_update_edges.
ReadGraph(d) ==
  /\ pc[d] = "graph"
  /\ rdReaders = {}
  /\ PopulateMac(d)
  /\ Goto(d, Then(kind[d], "graph"))
  /\ UNCHANGED <<kind, fd, dpg, linked, rdReaders, dpgReaders, using>>

\* The receive fails, or the packet is found bad once the address is copied.
ReadGraphFails(d) ==
  /\ pc[d] = "graph"
  /\ UNCHANGED <<mac, happened>> \/ PopulateMac(d)
  /\ Goto(d, Else(kind[d], "graph"))
  /\ UNCHANGED <<kind, fd, dpg, linked, rdReaders, dpgReaders, using>>

\* dp_send_peer_linkstate, with the routing table read-locked meanwhile.
SendGraph(d) ==
  /\ pc[d] = "send"
  /\ rdReaders' = rdReaders \cup {d}
  /\ Goto(d, "sending")
  /\ UNCHANGED <<kind, mac, fd, dpg, linked, dpgReaders, using, happened>>

SendGraphEnds(d) ==
  /\ pc[d] = "sending"
  /\ rdReaders' = rdReaders \ {d}
  /\ \/ Goto(d, Then(kind[d], "sending"))
     \/ Goto(d, Else(kind[d], "sending"))
  /\ UNCHANGED <<kind, mac, fd, dpg, linked, dpgReaders, using, happened>>

DpgInsert(d) ==
  /\ pc[d] = "insert"
  /\ \/ dpg_insert(d) /\ Goto(d, Then(kind[d], "insert"))
     \/ dpg_insert_fails(d) /\ Goto(d, Else(kind[d], "insert"))
  /\ UNCHANGED <<kind, mac, fd, linked, rdReaders, dpgReaders, using,
                 happened>>

AddLink(d) ==
  /\ pc[d] = "link"
  /\ \/ rt_dhost_add_link(d) /\ Goto(d, Then(kind[d], "link"))
     \/ rt_dhost_add_link_fails(d) /\ Goto(d, Else(kind[d], "link"))
  /\ UNCHANGED <<kind, mac, fd, dpg, rdReaders, dpgReaders, using>>

SendProbe(d) ==
  /\ pc[d] = "probe"
  /\ \/ Goto(d, Then(kind[d], "probe"))
     \/ Goto(d, Else(kind[d], "probe"))
  /\ UNCHANGED <<kind, mac, fd, dpg, linked, rdReaders, dpgReaders, using,
                 happened>>

-----------------------------------------------------------------------------
(* The peer loop dp_th, and the tap reader, which only forwards.           *)

\* rt_dhosts_to_host returns with the lock held and some direct peers or, for
\* a packet to this node itself, this node's own host (ForwardsToDirect in
\* module Routing).
Forward(t) ==
  /\ pc[t] = "loop"
  /\ rdReaders' = rdReaders \cup {t}
  /\ \E S \in (SUBSET linked) \cup {{Stray}} : using' = [using EXCEPT ![t] = S]
  /\ Goto(t, "fwd")
  /\ UNCHANGED <<kind, mac, fd, dpg, linked, dpgReaders, happened>>

\* A faulty variant of ForwardEnds: a failed send ends the thread, of the tap
\* reader too.
ForwardEndsLoop(t) ==
  /\ pc[t] = "fwd"
  /\ rdReaders' = rdReaders \ {t}
  /\ using' = [using EXCEPT ![t] = {}]
  /\ Goto(t, "loop") \/ Goto(t, "exit_dpg")
  /\ UNCHANGED <<kind, mac, fd, dpg, linked, dpgReaders, happened>>

\* The packet has been sent to each of them (or not: what dp_send_data finds
\* in a stray dp_t is undefined); rt_hosts_free.
ForwardEnds(t) ==
  /\ pc[t] = "fwd"
  /\ rdReaders' = rdReaders \ {t}
  /\ using' = [using EXCEPT ![t] = {}]
  /\ Goto(t, "loop")
  /\ UNCHANGED <<kind, mac, fd, dpg, linked, dpgReaders, happened>>

\* rt_dhosts_to_host unlocks and returns 0, and the caller's rt_hosts_free
\* unlocks once more: the hold of some other reader is gone.  (Without other
\* readers the second unlock is undefined; that outcome is left out.)  The tap
\* reader is not exposed to it: this node has a path to itself.
McastDropped(d) ==
  /\ Happens("mcast")
  /\ pc[d] = "loop"
  /\ \E r \in rdReaders : rdReaders' = rdReaders \ {r}
  /\ UNCHANGED <<kind, pc, mac, fd, dpg, linked, dpgReaders, using>>

\* dp_handle_probe_resp receives the outstanding sequence number, and waits
\* for the lock of the routing table.
ProbeResp(d) ==
  /\ pc[d] = "loop"
  /\ Goto(d, "relink")
  /\ UNCHANGED <<kind, mac, fd, dpg, linked, rdReaders, dpgReaders, using,
                 happened>>

\* A faulty variant of Relink: only the rtt of an existing link is updated.
RelinkUpdates(d) ==
  /\ pc[d] = "relink"
  /\ rdReaders = {}
  /\ Goto(d, "loop")
  /\ UNCHANGED <<kind, mac, fd, dpg, linked, rdReaders, dpgReaders, using,
                 happened>>

Relink(d) ==
  /\ pc[d] = "relink"
  /\ rt_dhost_add_link(d)
  /\ Goto(d, "loop")
  /\ UNCHANGED <<kind, mac, fd, dpg, rdReaders, dpgReaders, using>>

RelinkFails(d) ==
  /\ pc[d] = "relink"
  /\ rt_dhost_add_link_fails(d)
  /\ Goto(d, "exit_dpg")
  /\ UNCHANGED <<kind, mac, fd, dpg, rdReaders, dpgReaders, using>>

\* dpg_send_linkstate: the group's lock, then the routing table's.
Broadcast(d) ==
  /\ pc[d] = "loop"
  /\ dpgReaders' = dpgReaders \cup {d}
  /\ Goto(d, "bcast")
  /\ UNCHANGED <<kind, mac, fd, dpg, linked, rdReaders, using, happened>>

BroadcastSends(d) ==
  /\ pc[d] = "bcast"
  /\ rdReaders' = rdReaders \cup {d}
  /\ using' = [using EXCEPT ![d] = dpg]
  /\ Goto(d, "bcasting")
  /\ UNCHANGED <<kind, mac, fd, dpg, linked, dpgReaders, happened>>

BroadcastEnds(d) ==
  /\ pc[d] = "bcasting"
  /\ rdReaders' = rdReaders \ {d}
  /\ dpgReaders' = dpgReaders \ {d}
  /\ using' = [using EXCEPT ![d] = {}]
  /\ Goto(d, "loop")
  /\ UNCHANGED <<kind, mac, fd, dpg, linked, happened>>

\* A receive or a send fails, or the peer has closed the connection.
LoopFails(d) ==
  /\ pc[d] = "loop"
  /\ Goto(d, "exit_dpg")
  /\ UNCHANGED <<kind, mac, fd, dpg, linked, rdReaders, dpgReaders, using,
                 happened>>

-----------------------------------------------------------------------------
(* The end of a peer.                                                      *)

\* dpg_remove, under cleanup_1 of dp_th or a cleanup_dpg label.
LeaveDpg(d) ==
  /\ dpg_remove(d)
  /\ \/ pc[d] = "exit_dpg" /\ Goto(d, "exit_link")
     \/ pc[d] = "undpg" /\ Goto(d, Cleanup(kind[d], "undpg"))
  /\ UNCHANGED <<kind, mac, fd, linked, rdReaders, dpgReaders, using,
                 happened>>

\* rt_dhost_remove, under cleanup_1 of dp_th or a cleanup_rt label.
RemoveLink(d) ==
  /\ rt_dhost_remove(d)
  /\ \/ pc[d] = "exit_link" /\ Goto(d, "free")
     \/ pc[d] = "unlink" /\ Goto(d, Cleanup(kind[d], "unlink"))
  /\ UNCHANGED <<kind, mac, fd, dpg, rdReaders, dpgReaders, using>>

CloseFd(d) ==
  /\ pc[d] = "closefd"
  /\ fd' = [fd EXCEPT ![d] = "closed"]
  /\ Goto(d, "free")
  /\ UNCHANGED <<kind, mac, dpg, linked, rdReaders, dpgReaders, using,
                 happened>>

dp_cleanup_1(d) ==
  /\ pc[d] = "free"
  /\ Goto(d, "freed")
  /\ UNCHANGED <<kind, mac, fd, dpg, linked, rdReaders, dpgReaders, using,
                 happened>>

-----------------------------------------------------------------------------
SetupStep(d) ==
  \/ dp_create_initial(d) \/ dp_create_linkstate(d) \/ dp_create_incoming(d)
  \/ Connect(d) \/ ConnectFails(d)
  \/ Handshake(d) \/ HandshakeFails(d)
  \/ ReadGraph(d) \/ ReadGraphFails(d)
  \/ SendGraph(d) \/ SendGraphEnds(d)
  \/ DpgInsert(d) \/ AddLink(d) \/ SendProbe(d)

LoopStep(d) ==
  \/ ProbeResp(d) \/ Relink(d) \/ RelinkFails(d) \/ LoopFails(d)
  \/ Broadcast(d) \/ BroadcastSends(d) \/ BroadcastEnds(d)
  \/ McastDropped(d)

TeardownStep(d) ==
  LeaveDpg(d) \/ RemoveLink(d) \/ CloseFd(d) \/ dp_cleanup_1(d)

ForwardStep(t) == Forward(t) \/ ForwardEnds(t)

Next ==
  \/ \E d \in Dp : SetupStep(d) \/ LoopStep(d) \/ TeardownStep(d)
  \/ \E t \in Thread : ForwardStep(t)

Spec == Init /\ [][Next]_vars

(***************************************************************************)
(* Fairness for the liveness property: a thread that can run runs, a send  *)
(* to a peer ends (the remote node reads, or the connection breaks; what   *)
(* is sent to the stray dp_t may wait for its mutex for ever), a thread    *)
(* that waits for a write lock gets it if the lock is free again and       *)
(* again, and the remote node answers probes.                              *)
(***************************************************************************)
Fairness ==
  /\ \A t \in Thread : WF_vars(Stray \notin using[t] /\ ForwardEnds(t))
  /\ \A d \in Dp :
       /\ WF_vars(SendGraphEnds(d) \/ BroadcastSends(d) \/ BroadcastEnds(d))
       /\ SF_vars(ProbeResp(d))
       /\ SF_vars(Relink(d) \/ RelinkFails(d))

FairSpec == Spec /\ Fairness

-----------------------------------------------------------------------------
TypeOK ==
  /\ kind \in [Dp -> Kind]
  /\ pc \in [Thread -> Location]
  /\ pc[Vnet] \in {"loop", "fwd"}
  /\ mac \in [Dp -> Peer \cup {Junk}]
  /\ fd \in [Dp -> {"none", "socket", "open", "closed"}]
  /\ dpg \subseteq Dp
  /\ linked \subseteq Dp
  /\ rdReaders \subseteq Thread
  /\ dpgReaders \subseteq Dp
  /\ using \in [Thread -> SUBSET (Dp \cup {Stray})]
  /\ happened \subseteq Faults

Live(d) == pc[d] \notin {"unborn", "freed"}

(***************************************************************************)
(* dpg_insert and dpg_remove find peers by address, and every way out of   *)
(* a thread function goes through the right labels: the group never holds  *)
(* a dp_t that is about to be freed, nor two with one address, although    *)
(* dpg_remove may take out another dp_t than the caller's.                 *)
(***************************************************************************)
DpgSound ==
  /\ \A d \in dpg : Live(d) /\ pc[d] \notin {"closefd", "free"}
  /\ \A d, e \in dpg : mac[d] = mac[e] => d = e

(***************************************************************************)
(* rt_dhost_add_link keeps a pointer into the dp_t, and rt_dhost_remove    *)
(* finds it by address: when dp_cleanup_1 frees a dp_t, no host of the     *)
(* routing table points into it any more, whoever removed the link, until  *)
(* an allocation fails in the table or a key is overwritten.               *)
(***************************************************************************)
NoDanglingHost ==
  happened \subseteq {"mcast"} => \A d \in linked : Live(d)

(***************************************************************************)
(* routing.h:120: "a lock is held between the call to this function and    *)
(* rt_hosts_free".  That lock is what keeps the peers a thread got from    *)
(* rt_dhosts_to_host, or walks in dpg_send_linkstate, from being freed     *)
(* while it sends to them, and their sockets from being closed, so that    *)
(* the descriptor might already be that of another connection.  (It is     *)
(* about peers only: for a packet to this node rt_dhosts_to_host hands out *)
(* no peer, ForwardsOnlyToPeers in module Routing.)                        *)
(***************************************************************************)
HeldWhileUsed ==
  \A t \in Thread : \A d \in using[t] \ {Stray} : Live(d) /\ fd[d] = "open"

(***************************************************************************)
(* The lock does so for every peer that the forwarding threads and the     *)
(* broadcasts use, as long as none of the three failures has happened.     *)
(***************************************************************************)
UsedPeersLive == happened = {} => HeldWhileUsed

\* The table as module DirectTable describes it: the peer it points into for
\* each address, or Vnet, which is none.
Owner ==
  [m \in Mac |-> IF \E d \in linked : mac[d] = m
                THEN CHOOSE d \in linked : mac[d] = m ELSE Vnet]

DT == INSTANCE DirectTable WITH NoDp <- Vnet, owner <- Owner

(***************************************************************************)
(* Whatever the threads do, and although allocations fail and locks are    *)
(* released twice, they use the routing table as module DirectTable        *)
(* allows: a second connection to one node never takes over the host of    *)
(* the first, and no step hands a host from one dp_t to another, unless a  *)
(* key has been overwritten.  It is the specification that the whole table *)
(* implements (ImplementsDirectTable in module Routing).                   *)
(***************************************************************************)
KeepsToDirectTable == DT!Init /\ [][DT!Next \/ "rekey" \in happened']_Owner

\* The locks a thread waits for are free again and again.
ReadersPause == []<>(rdReaders = {}) /\ []<>(dpgReaders = {})

\* No thread sends to the stray dp_t for ever (one that does has lost its hold
\* if ReadersPause is to be true).
StrayEnds == \A t \in Thread : []<>(Stray \notin using[t])

(***************************************************************************)
(* A duplicate connection that fails takes the link of the live peer with  *)
(* it (cleanup_rt removes by address).  The next probe response of the     *)
(* live peer puts the link back, unless that peer leaves its loop, as long *)
(* as readers leave the locks now and then (glibc prefers readers, so that *)
(* overlapping readers, or one that waits for ever for the mutex of the    *)
(* stray dp_t, hold off rt_dhost_add_link).                                *)
(***************************************************************************)
LinkComesBack ==
  ReadersPause /\ StrayEnds =>
    \A d \in Dp :
      pc[d] \in Loop ~> pc[d] \notin Loop \/ SameMac(linked, d) # {}
=============================================================================
