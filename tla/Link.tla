-------------------------------- MODULE Link --------------------------------
(***************************************************************************)
(* Two nodes and the connection between them, from the moment both peer    *)
(* threads have entered dp_th: the probe timer, link graphs, the threads   *)
(* that read the tap devices, sends that block while the connection is     *)
(* full, the locks that are held meanwhile, and the end of a thread or of  *)
(* a whole node.                                                           *)
(*                                                                         *)
(* A packet is sent in one step (lock dp->wlock, put it into the           *)
(* connection, unlock) when there is room, and otherwise in two: lock and  *)
(* block; send and unlock.  Operations of the routing table under its      *)
(* write lock are one step, enabled when nobody reads.                     *)
(***************************************************************************)
EXTENDS Integers, Sequences, FiniteSets

CONSTANTS Node,      \* the two nodes
          Taps,      \* the nodes whose tap device has packets for the other
          Cap,       \* how many packets a direction of the connection holds
          Slow,      \* bound: the nodes that once get a late answer
          LinkMult,  \* DP_TIMEOUT_LINK_MULT
          Leaving,   \* the nodes whose peer thread may meet an error
          Crashing,  \* the nodes that may crash
          Stray      \* what may come of a send to this node's own host

ASSUME NodeAssumption == Cardinality(Node) = 2 /\ Taps \subseteq Node
ASSUME BoundsAssumption == {Cap, LinkMult} \subseteq Nat \ {0} /\ Slow \subseteq Node
ASSUME FaultsAssumption == Leaving \subseteq Node /\ Crashing \subseteq Node

\* dp_from_ip_host makes a dp_t of this node's own host, which lies in none:
\* the send returns, well or not, or waits for ever for what it takes for the
\* mutex.  (That it ends the process is a Crash; that what it takes for the
\* descriptor is one of the program's own is left out.)
ASSUME StrayAssumption == Stray \subseteq {"returns", "hangs"} /\ Stray # {}

Other(n) == CHOOSE m \in Node : m # n

\* Sequence numbers.  dp_send_probe_req takes them from rand(): that one of a
\* probe still under way is drawn again (1 in 65536) is left out.
Seqs == {1, 2}

Packet == [type : {"req", "resp"}, seq : Seqs] \cup [type : {"graph", "data"}]

VARIABLES th,     \* where the peer thread of a node is
          tap,    \* where its tap reader is
          todo,   \* the sequence number that the peer thread has to answer
          wlock,  \* the holder of dp->wlock
          rd,     \* the threads that hold rd->lock for reading
          chan,   \* the packets on their way to a node
          seq,    \* dp->probe_seq
          ct,     \* probe_ct
          late    \* the nodes that have got their late answer

vars == <<th, tap, todo, wlock, rd, chan, seq, ct, late>>

\* In epoll_wait; the sends of the peer thread, and those that have failed; its
\* end and that of the node; all in which it does not read any more.
Waiting == {"wait", "poll"}
Sending == {"probe", "graph", "resp"}
Failed == {"failed", "graph_failed"}
Ended == {"gone", "dead"}
Lost == Ended \cup {"hung"}

Init ==
  /\ th = [n \in Node |-> "probe"]
  /\ tap = [n \in Node |-> IF n \in Taps THEN "read" ELSE "none"]
  /\ todo = [n \in Node |-> 0]
  /\ wlock = [n \in Node |-> "none"]
  /\ rd = [n \in Node |-> {}]
  /\ chan = [n \in Node |-> <<>>]
  /\ seq = [n \in Node |-> 1]
  /\ ct = [n \in Node |-> 0]
  /\ late = {}

Goto(n, p) == th' = [th EXCEPT ![n] = p]

Full(n) == th[n] # "dead" /\ Len(chan[n]) >= Cap

\* dp_psend_start has the lock and send() blocks.
Blocks(n, who) ==
  /\ wlock[n] = "none"
  /\ Full(Other(n))
  /\ wlock' = [wlock EXCEPT ![n] = who]

\* send() has put the whole packet into the connection.
Sent(n, who, p) ==
  /\ wlock[n] \in {"none", who}
  /\ th[Other(n)] # "dead" /\ ~Full(Other(n))
  /\ chan' = [chan EXCEPT ![Other(n)] = Append(@, p)]
  /\ wlock' = [wlock EXCEPT ![n] = "none"]

\* send() fails, because the other node is no more, and dp_psend_data unlocks.
\* (That it may also end this node with SIGPIPE is a Crash here.)
NotSent(n, who) ==
  /\ wlock[n] \in {"none", who}
  /\ th[Other(n)] = "dead"
  /\ wlock' = [wlock EXCEPT ![n] = "none"]

\* dp_psend_start unlocks once more, whoever has the lock by now.
SecondUnlock(n) == wlock' = [wlock EXCEPT ![n] = "none"]

-----------------------------------------------------------------------------
(* The timer.                                                              *)

\* How many probes of n wait for an answer, wherever they are.
Unanswered(n) ==
  LET Of(q, type) == {i \in DOMAIN q : q[i].type = type}
  IN  Cardinality(Of(chan[Other(n)], "req")) + Cardinality(Of(chan[n], "resp"))
        + IF th[Other(n)] = "resp" THEN 1 ELSE 0

\* A second has passed: a new sequence number, whether or not the last probe
\* has been answered.  Right after a probe (in "poll") there is a second left:
\* epoll_wait returns a packet if there is one.
Timer(n) ==
  /\ th[n] = "wait" \/ (th[n] = "poll" /\ chan[n] = <<>>)
  /\ \/ Unanswered(n) = 0 /\ UNCHANGED late
     \/ Unanswered(n) > 0 /\ n \in Slow \ late /\ late' = late \cup {n}
  /\ seq' = [seq EXCEPT ![n] = 3 - @]
  /\ Goto(n, "probe")
  /\ UNCHANGED <<tap, todo, wlock, rd, chan, ct>>

SendBlocks(n) ==
  /\ th[n] \in Sending
  /\ Blocks(n, "peer")
  /\ UNCHANGED <<th, tap, todo, rd, chan, seq, ct, late>>

\* A faulty variant of SendProbe: probe_ct is not set back.
SendProbeCounts(n) ==
  /\ th[n] = "probe"
  /\ Sent(n, "peer", [type |-> "req", seq |-> seq[n]])
  /\ ct' = [ct EXCEPT ![n] = @ + 1]
  /\ Goto(n, "poll")
  /\ UNCHANGED <<tap, todo, rd, seq, late>>

\* The end of dp_send_probe_req.  Every LinkMult-th time dpg_send_linkstate
\* follows, which takes the read lock of the routing table.
SendProbe(n) ==
  /\ th[n] = "probe"
  /\ Sent(n, "peer", [type |-> "req", seq |-> seq[n]])
  /\ ct' = [ct EXCEPT ![n] = (@ + 1) % LinkMult]
  /\ IF ct[n] = 0
     THEN Goto(n, "graph") /\ rd' = [rd EXCEPT ![n] = @ \cup {"peer"}]
     ELSE Goto(n, "poll") /\ UNCHANGED rd
  /\ UNCHANGED <<tap, todo, seq, late>>

\* A faulty variant of SendGraph: without rt_edges_free.
SendGraphKeepsLock(n) ==
  /\ th[n] = "graph"
  /\ Sent(n, "peer", [type |-> "graph"])
  /\ Goto(n, "poll")
  /\ UNCHANGED <<tap, todo, rd, seq, ct, late>>

\* The end of dpg_send_linkstate.
SendGraph(n) ==
  /\ th[n] = "graph"
  /\ Sent(n, "peer", [type |-> "graph"])
  /\ rd' = [rd EXCEPT ![n] = @ \ {"peer"}]
  /\ Goto(n, "poll")
  /\ UNCHANGED <<tap, todo, seq, ct, late>>

-----------------------------------------------------------------------------
(* dp_recv_packet.                                                         *)

Take(n, type) ==
  /\ th[n] \in Waiting
  /\ chan[n] # <<>>
  /\ Head(chan[n]).type = type
  /\ chan' = [chan EXCEPT ![n] = Tail(@)]

\* dp_handle_probe_req
RecvProbeReq(n) ==
  /\ Take(n, "req")
  /\ todo' = [todo EXCEPT ![n] = Head(chan[n]).seq]
  /\ Goto(n, "resp")
  /\ UNCHANGED <<tap, wlock, rd, seq, ct, late>>

\* A faulty variant of SendResp: with the number of the own probe.
SendRespOwn(n) ==
  /\ th[n] = "resp"
  /\ Sent(n, "peer", [type |-> "resp", seq |-> seq[n]])
  /\ todo' = [todo EXCEPT ![n] = 0]
  /\ Goto(n, "wait")
  /\ UNCHANGED <<tap, rd, seq, ct, late>>

SendResp(n) ==
  /\ th[n] = "resp"
  /\ Sent(n, "peer", [type |-> "resp", seq |-> todo[n]])
  /\ todo' = [todo EXCEPT ![n] = 0]
  /\ Goto(n, "wait")
  /\ UNCHANGED <<tap, rd, seq, ct, late>>

\* dp_handle_probe_resp: only the answer to the last probe counts.
RecvProbeResp(n) ==
  /\ Take(n, "resp")
  /\ Goto(n, IF Head(chan[n]).seq = seq[n] THEN "relink" ELSE "wait")
  /\ UNCHANGED <<tap, todo, wlock, rd, seq, ct, late>>

\* dp_read_pkt_link_graph
RecvGraph(n) ==
  /\ Take(n, "graph")
  /\ Goto(n, "update")
  /\ UNCHANGED <<tap, todo, wlock, rd, seq, ct, late>>

\* rt_dhost_add_link with the new rtt, or rt_update_edges.
UpdateTable(n) ==
  /\ th[n] \in {"relink", "update"}
  /\ rd[n] = {}
  /\ Goto(n, "wait")
  /\ UNCHANGED <<tap, todo, wlock, rd, chan, seq, ct, late>>

\* A packet for this node: rt_dhosts_to_host answers with this node's own host
\* (ForwardsToDirect in module Routing) and keeps the read lock.
RecvData(n) ==
  /\ Take(n, "data")
  /\ Goto(n, "stray")
  /\ rd' = [rd EXCEPT ![n] = @ \cup {"peer"}]
  /\ UNCHANGED <<tap, todo, wlock, seq, ct, late>>

\* dp_send_data returns; rt_hosts_free.
StrayReturns(n) ==
  /\ "returns" \in Stray
  /\ th[n] = "stray"
  /\ Goto(n, "wait")
  /\ rd' = [rd EXCEPT ![n] = @ \ {"peer"}]
  /\ UNCHANGED <<tap, todo, wlock, chan, seq, ct, late>>

StrayHangs(n) ==
  /\ "hangs" \in Stray
  /\ th[n] = "stray"
  /\ Goto(n, "hung")
  /\ UNCHANGED <<tap, todo, wlock, rd, chan, seq, ct, late>>

-----------------------------------------------------------------------------
(* The tap reader.                                                         *)

\* rt_dhosts_to_host answers with the peer and keeps the read lock.
TapRead(n) ==
  /\ tap[n] = "read"
  /\ th[n] # "gone"
  /\ tap' = [tap EXCEPT ![n] = "send"]
  /\ rd' = [rd EXCEPT ![n] = @ \cup {"tap"}]
  /\ UNCHANGED <<th, todo, wlock, chan, seq, ct, late>>

TapBlocks(n) ==
  /\ tap[n] = "send"
  /\ Blocks(n, "tap")
  /\ UNCHANGED <<th, tap, todo, rd, chan, seq, ct, late>>

\* dp_send_data has sent the packet; rt_hosts_free.
TapSend(n) ==
  /\ tap[n] = "send"
  /\ Sent(n, "tap", [type |-> "data"])
  /\ tap' = [tap EXCEPT ![n] = "read"]
  /\ rd' = [rd EXCEPT ![n] = @ \ {"tap"}]
  /\ UNCHANGED <<th, todo, seq, ct, late>>

TapSendFails(n) ==
  /\ tap[n] = "send"
  /\ NotSent(n, "tap")
  /\ tap' = [tap EXCEPT ![n] = "failed"]
  /\ UNCHANGED <<th, todo, rd, chan, seq, ct, late>>

\* A faulty variant of TapFailed: no rt_hosts_free after an error.
TapFailedKeepsLock(n) ==
  /\ tap[n] = "failed"
  /\ SecondUnlock(n)
  /\ tap' = [tap EXCEPT ![n] = "read"]
  /\ UNCHANGED <<th, todo, rd, chan, seq, ct, late>>

\* The error is logged; rt_hosts_free.
TapFailed(n) ==
  /\ tap[n] = "failed"
  /\ SecondUnlock(n)
  /\ tap' = [tap EXCEPT ![n] = "read"]
  /\ rd' = [rd EXCEPT ![n] = @ \ {"tap"}]
  /\ UNCHANGED <<th, todo, chan, seq, ct, late>>

-----------------------------------------------------------------------------
(* Ends.                                                                   *)

\* The peer thread meets an error of its own: an unknown destination of a
\* packet (dpeer.c:266), a bad link graph (200), no memory.
Exit(n) ==
  /\ n \in Leaving
  /\ th[n] \in Waiting
  /\ Goto(n, "leave")
  /\ UNCHANGED <<tap, todo, wlock, rd, chan, seq, ct, late>>

\* The other node has ended, and all that it sent has been read.
RecvEof(n) ==
  /\ th[n] \in Waiting
  /\ chan[n] = <<>>
  /\ th[Other(n)] = "dead"
  /\ Goto(n, "leave")
  /\ UNCHANGED <<tap, todo, wlock, rd, chan, seq, ct, late>>

\* A send to a node that has ended.
SendFails(n) ==
  /\ th[n] \in Sending
  /\ NotSent(n, "peer")
  /\ Goto(n, IF th[n] = "graph" THEN "graph_failed" ELSE "failed")
  /\ todo' = [todo EXCEPT ![n] = 0]
  /\ UNCHANGED <<tap, rd, chan, seq, ct, late>>

\* dpg_send_linkstate does not look at the result (and when it was the edges
\* that could not be sent there is no second unlock), the others leave the
\* loop.
Failure(n) ==
  /\ \/ /\ th[n] = "failed"
        /\ SecondUnlock(n)
        /\ Goto(n, "leave")
        /\ UNCHANGED rd
     \/ /\ th[n] = "graph_failed"
        /\ SecondUnlock(n) \/ UNCHANGED wlock
        /\ Goto(n, "poll")
        /\ rd' = [rd EXCEPT ![n] = @ \ {"peer"}]
  /\ UNCHANGED <<tap, todo, chan, seq, ct, late>>

\* cleanup_1 of dp_th: out of both tables, dp freed.  con_fd stays open.
Leave(n) ==
  /\ th[n] = "leave"
  /\ rd[n] = {}
  /\ Goto(n, "gone")
  /\ seq' = [seq EXCEPT ![n] = 0]
  /\ ct' = [ct EXCEPT ![n] = 0]
  /\ UNCHANGED <<tap, todo, wlock, rd, chan, late>>

\* The process ends, and the kernel closes its sockets.
Crash(n) ==
  /\ n \in Crashing
  /\ th[n] # "dead"
  /\ Goto(n, "dead")
  /\ tap' = [tap EXCEPT ![n] = "none"]
  /\ todo' = [todo EXCEPT ![n] = 0]
  /\ wlock' = [wlock EXCEPT ![n] = "none"]
  /\ rd' = [rd EXCEPT ![n] = {}]
  /\ chan' = [chan EXCEPT ![n] = <<>>]
  /\ seq' = [seq EXCEPT ![n] = 0]
  /\ ct' = [ct EXCEPT ![n] = 0]
  /\ UNCHANGED late

-----------------------------------------------------------------------------
Receive(n) ==
  \/ RecvProbeReq(n) \/ RecvProbeResp(n) \/ RecvGraph(n) \/ RecvData(n)
  \/ RecvEof(n)

Send(n) ==
  \/ SendProbe(n) \/ SendGraph(n) \/ SendResp(n) \/ SendFails(n) \/ Failure(n)

\* What the peer thread does once it has left epoll_wait.
Work(n) ==
  \/ SendBlocks(n) \/ Send(n) \/ UpdateTable(n) \/ Leave(n)
  \/ StrayReturns(n) \/ StrayHangs(n)

TapWork(n) == TapBlocks(n) \/ TapSend(n) \/ TapSendFails(n) \/ TapFailed(n)

Next ==
  \E n \in Node :
    Timer(n) \/ Receive(n) \/ Work(n) \/ TapRead(n) \/ TapWork(n) \/ Exit(n) \/ Crash(n)

Spec == Init /\ [][Next]_vars

(***************************************************************************)
(* A thread that can run runs, and a thread that waits for a lock gets it  *)
(* if it is free again and again; the timer fires.  Nothing is assumed of  *)
(* the tap device.                                                         *)
(***************************************************************************)
Fairness ==
  /\ \A n \in Node : SF_vars(Work(n) \/ Receive(n)) /\ SF_vars(Timer(n))
  /\ \A n \in Taps : SF_vars(TapWork(n))

FairSpec == Spec /\ Fairness

-----------------------------------------------------------------------------
TypeOK ==
  /\ th \in [Node -> {"relink", "update", "leave", "stray"}
                       \cup Waiting \cup Sending \cup Failed \cup Lost]
  /\ tap \in [Node -> {"none", "read", "send", "failed"}]
  /\ todo \in [Node -> {0} \cup Seqs]
  /\ wlock \in [Node -> {"none", "peer", "tap"}]
  /\ rd \in [Node -> SUBSET {"peer", "tap"}]
  /\ chan \in [Node -> Seq(Packet)]
  /\ \A n \in Node : Len(chan[n]) <= Cap
  /\ seq \in [Node -> {0} \cup Seqs]
  /\ ct \in [Node -> 0..(LinkMult - 1)]
  /\ late \subseteq Slow

(***************************************************************************)
(* notes.txt:57: the direct peer thread "Waits for the state of its peer   *)
(* connection fd to change, or for a timeout to occour": whatever it does  *)
(* in between (dp_th), it comes back there, or has ended.                  *)
(***************************************************************************)
ComesBack ==
  \A n \in Node : []<>(th[n] \in Waiting \cup Ended)

(***************************************************************************)
(* The same, as far as it is true: as long as the peer thread of the other *)
(* node is there to read, and neither waits for ever in a send to its own  *)
(* host.  A send that blocks in dp_psend_data, with the read lock held,    *)
(* holds up the peer thread, but not for ever.                             *)
(***************************************************************************)
ComesBackIfRead ==
  \A n \in Node :
    []<>(th[n] \in Waiting \cup Lost \/ th[Other(n)] \in {"gone", "hung"})

(***************************************************************************)
(* dp_handle_probe_resp measures the rtt of the link again and again,      *)
(* although every probe overwrites probe_seq, answers to earlier ones may  *)
(* still be on their way, and each packet for the node itself takes the    *)
(* read lock; provided that from some time on answers take less than the   *)
(* second between probes (Slow), and both threads are there.               *)
(***************************************************************************)
RttMeasured ==
  \A n \in Node : []<>(th[n] = "relink" \/ \E m \in Node : th[m] \in Lost)

(***************************************************************************)
(* notes.txt:61: "if error (remote peer closed connection, etc) remove the *)
(* connection".  When a node ends, the peer thread of the other one leaves *)
(* dp_th, whatever it was doing: reading what is left in the connection,   *)
(* blocked in send(), or waiting for a lock that its blocked tap reader    *)
(* holds; unless one of the packets left is for this node itself and the   *)
(* send to its own host hangs.                                             *)
(***************************************************************************)
CrashNoticed ==
  \A n \in Node : th[Other(n)] = "dead" ~> th[n] \in Lost
=============================================================================
