-------------------------------- MODULE Wire --------------------------------
(***************************************************************************)
(* One direction of one connection: the threads of a node that send to a   *)
(* direct peer (its own thread, threads that forward or broadcast, the tap *)
(* reader), the write lock of the dp_t, the byte stream, and the receiver  *)
(* at the other end.                                                       *)
(*                                                                         *)
(* A packet is a string of bytes of which only positions count.  The       *)
(* stream is a sequence of runs [id, pkt, lo, hi]: the bytes lo + 1 to hi  *)
(* of one packet, as long as they follow one another.  A packet that       *)
(* arrives whole is one run.                                               *)
(***************************************************************************)
EXTENDS Integers, Sequences

CONSTANTS Sender,      \* threads that send to this peer
          Nobody,      \* no thread
          DataLen,     \* lengths of data packets
          EdgeCount,   \* numbers of edges in the link graphs that are sent
          Errors,      \* which failures of send() may happen
          MaxSends     \* bound on the number of packets begun

(***************************************************************************)
(* "reset":  the connection is gone.  The next send() may fail once, and   *)
(*           the one after it raises SIGPIPE (no MSG_NOSIGNAL, no handler).*)
(* "nobufs": a send() fails and the connection stays up.                   *)
(***************************************************************************)
ASSUME ErrorsAssumption == Errors \subseteq {"reset", "nobufs"}
ASSUME NobodyAssumption == Nobody \notin Sender
ASSUME MaxSendsAssumption == MaxSends \in Nat
ASSUME LengthAssumption ==
  /\ DataLen \subseteq 1..(2 ^ 16 - 1)
  /\ EdgeCount \subseteq 0..(2 ^ 16 - 1)

\* enum pkt_len
PL_HEADER == 4
PL_PROBE == 2
PL_LINK_GRAPH_STATIC == 14
PL_EDGE == 36

U16(n) == n % 2 ^ 16

Packet ==
  [type : {"probe"}, n : {PL_PROBE}] \cup [type : {"data"}, n : DataLen]
    \cup [type : {"graph"}, n : EdgeCount]

\* The byte counts of the calls of dp_psend_data for a packet.
Parts(p) ==
  IF p.type = "graph"
  THEN <<PL_HEADER, PL_LINK_GRAPH_STATIC, PL_EDGE * p.n>>
  ELSE <<PL_HEADER, p.n>>

\* A faulty variant of HeaderLen: the part before the edges is not counted.
HeaderLenEdges(p) == U16(IF p.type = "graph" THEN PL_EDGE * p.n ELSE p.n)

\* The length in the header, a uint16_t.
HeaderLen(p) ==
  U16(IF p.type = "graph" THEN PL_EDGE * p.n + PL_LINK_GRAPH_STATIC ELSE p.n)

(***************************************************************************)
(* The number of edges that the receiver computes from that length.  The   *)
(* subtraction is one of size_t: below 14 it gives a number near 2^64,     *)
(* whose quotient by 36 ends in the sixteen bits 0xC71C.                   *)
(***************************************************************************)
EdgesOfLen(len) ==
  IF len >= PL_LINK_GRAPH_STATIC
  THEN U16((len - PL_LINK_GRAPH_STATIC) \div PL_EDGE)
  ELSE 50972

VARIABLES wlock,      \* the holder of dp->wlock
          pc,         \* of a sender: "idle", "send", "sent", "unlock2"
          out,        \* of a sender: id, packet, part, bytes of it left
          sends,      \* how many packets were begun
          conn,       \* "up", "reset", "broken" or "killed"
          stream,     \* the bytes on their way
          rx,         \* the receiver: "header", "body", "rejected", "ended", or
                      \* "lost" (it has lost the boundaries of packets)
          delivered   \* the packets it has taken, in order

vars == <<wlock, pc, out, sends, conn, stream, rx, delivered>>

Idle == [id |-> 0, pkt |-> [type |-> "probe", n |-> PL_PROBE], part |-> 1, left |-> 0]

Init ==
  /\ wlock = Nobody
  /\ pc = [s \in Sender |-> "idle"]
  /\ out = [s \in Sender |-> Idle]
  /\ sends = 0
  /\ conn = "up"
  /\ stream = <<>>
  /\ rx = "header"
  /\ delivered = <<>>

-----------------------------------------------------------------------------
(* Senders.                                                                *)

\* dp_psend_start takes the lock.
dp_psend_start(s, p) ==
  /\ conn # "killed"
  /\ pc[s] = "idle"
  /\ sends < MaxSends
  /\ wlock = Nobody
  /\ wlock' = s
  /\ sends' = sends + 1
  /\ out' = [out EXCEPT ![s] = [id |-> sends + 1, pkt |-> p, part |-> 1,
                                left |-> PL_HEADER]]
  /\ pc' = [pc EXCEPT ![s] = "send"]
  /\ UNCHANGED <<conn, stream, rx, delivered>>

SumTo(q, n) ==
  LET sum[i \in 0..n] == IF i = 0 THEN 0 ELSE sum[i - 1] + q[i] IN sum[n]

\* How many bytes of its packet a sender has sent.
Position(o) == SumTo(Parts(o.pkt), o.part) - o.left

\* The next k bytes of what s sends, joined to the run they continue.
Put(s, k) ==
  LET o == out[s]
      pos == Position(o)
      run == [id |-> o.id, pkt |-> o.pkt, lo |-> pos, hi |-> pos + k]
      n == Len(stream)
  IN  IF k = 0 THEN stream
      ELSE IF n > 0 /\ stream[n].id = o.id /\ stream[n].hi = pos
           THEN [stream EXCEPT ![n].hi = pos + k]
           ELSE Append(stream, run)

\* send() takes some of the bytes: one byte, or all that are left, stand for
\* all the ways to divide them.
Amounts(o) ==
  IF o.left = Parts(o.pkt)[o.part] /\ o.left > 0 THEN {1, o.left} ELSE {o.left}

LastPart(o) == o.part = Len(Parts(o.pkt))

\* A faulty variant of SendSome: dp_send_linkstate sends its first two parts
\* with dp_send_packet, which unlocks.
SendSomeUnlocks(s) ==
  /\ pc[s] = "send"
  /\ conn = "up"
  /\ \E k \in Amounts(out[s]) :
       /\ stream' = Put(s, k)
       /\ IF k < out[s].left
          THEN /\ out' = [out EXCEPT ![s].left = @ - k]
               /\ UNCHANGED <<pc, wlock>>
          ELSE IF LastPart(out[s])
          THEN /\ pc' = [pc EXCEPT ![s] = "sent"]
               /\ UNCHANGED <<out, wlock>>
          ELSE /\ out' = [out EXCEPT ![s].part = @ + 1,
                                     ![s].left = Parts(out[s].pkt)[out[s].part + 1]]
               /\ wlock' = IF out[s].part = 2 THEN Nobody ELSE wlock
               /\ UNCHANGED pc
  /\ UNCHANGED <<sends, conn, rx, delivered>>

\* One turn of the loop of dp_psend_data, and the way to the next call of it.
SendSome(s) ==
  /\ pc[s] = "send"
  /\ conn = "up"
  /\ \E k \in Amounts(out[s]) :
       /\ stream' = Put(s, k)
       /\ IF k < out[s].left
          THEN /\ out' = [out EXCEPT ![s].left = @ - k]
               /\ UNCHANGED pc
          ELSE IF LastPart(out[s])
          THEN /\ pc' = [pc EXCEPT ![s] = "sent"]
               /\ UNCHANGED out
          ELSE /\ out' = [out EXCEPT ![s].part = @ + 1,
                                     ![s].left = Parts(out[s].pkt)[out[s].part + 1]]
               /\ UNCHANGED pc
  /\ UNCHANGED <<wlock, sends, conn, rx, delivered>>

\* The end of dp_send_packet and of dp_send_linkstate.
Unlock(s) ==
  /\ conn # "killed"
  /\ pc[s] = "sent"
  /\ wlock' = Nobody
  /\ pc' = [pc EXCEPT ![s] = "idle"]
  /\ out' = [out EXCEPT ![s] = Idle]
  /\ UNCHANGED <<sends, conn, stream, rx, delivered>>

\* A faulty variant of SendError: dp_psend_data leaves the lock to its callers.
SendErrorKeepsLock(s) ==
  /\ pc' = [pc EXCEPT ![s] = IF out[s].part <= 2 THEN "unlock2" ELSE "idle"]
  /\ out' = [out EXCEPT ![s] = Idle]
  /\ UNCHANGED wlock

(***************************************************************************)
(* dp_psend_data unlocks and returns -1.  Its calls for the header and the *)
(* first data are in dp_psend_start, which is going to unlock once more;   *)
(* the one for the edges is in dp_send_linkstate, which returns.           *)
(***************************************************************************)
SendError(s) ==
  /\ wlock' = Nobody
  /\ pc' = [pc EXCEPT ![s] = IF out[s].part <= 2 THEN "unlock2" ELSE "idle"]
  /\ out' = [out EXCEPT ![s] = Idle]

SendFails(s) ==
  /\ pc[s] = "send"
  /\ \/ conn = "up" /\ "nobufs" \in Errors /\ conn' = conn
     \/ conn = "reset" /\ conn' = "broken"
  /\ SendError(s)
  /\ UNCHANGED <<sends, stream, rx, delivered>>

\* The second unlock.  A mutex of the default type is freed by whoever
\* unlocks it.
UnlockAgain(s) ==
  /\ conn # "killed"
  /\ pc[s] = "unlock2"
  /\ wlock' = Nobody
  /\ pc' = [pc EXCEPT ![s] = "idle"]
  /\ UNCHANGED <<out, sends, conn, stream, rx, delivered>>

\* SIGPIPE ends the process.
SendKills(s) ==
  /\ pc[s] = "send"
  /\ conn = "broken"
  /\ conn' = "killed"
  /\ UNCHANGED <<wlock, pc, out, sends, stream, rx, delivered>>

-----------------------------------------------------------------------------
(* The connection and the receiver.                                        *)

\* The kernel reports a reset to one call; a receive may have had it.
Reset ==
  /\ "reset" \in Errors
  /\ conn = "up"
  /\ conn' \in {"reset", "broken"}
  /\ UNCHANGED <<wlock, pc, out, sends, stream, rx, delivered>>

\* MSG_WAITALL: the next n bytes are there, in this run or beyond it.
Arrived(n) == Len(stream) > 1 \/ (stream # <<>> /\ stream[1].hi - stream[1].lo >= n)

\* They are all of one run.
InRun(n) == stream[1].hi - stream[1].lo >= n

\* dp_recv_header.  Bytes that are not a header are taken for one.
dp_recv_header ==
  /\ rx = "header"
  /\ Arrived(PL_HEADER)
  /\ IF stream[1].lo = 0 /\ InRun(PL_HEADER)
     THEN rx' = "body" /\ stream' = [stream EXCEPT ![1].lo = PL_HEADER]
     ELSE rx' = "lost" /\ UNCHANGED stream
  /\ UNCHANGED <<wlock, pc, out, sends, conn, delivered>>

\* How much the handler reads: the probes have a fixed length.
BodyLen(p) == IF p.type = "probe" THEN PL_PROBE ELSE HeaderLen(p)

\* A faulty variant of Accepted: edge_ct is not looked at, as peer_proto.h:104
\* suggests.
AcceptedAny(p) == TRUE

\* dp_read_pkt_link_graph compares the number of edges with the length.
Accepted(p) ==
  p.type = "graph" => EdgesOfLen(HeaderLen(p)) = U16(p.n)

\* The packet that the handler makes of the bytes it has read.
Read(p) ==
  IF p.type = "graph" THEN [p EXCEPT !.n = EdgesOfLen(HeaderLen(p))] ELSE p

\* What is left of the stream.
Rest(n) ==
  IF stream[1].hi - stream[1].lo = n THEN Tail(stream)
  ELSE [stream EXCEPT ![1].lo = @ + n]

\* The handlers of dp_recv_packet: the body is read, and taken or rejected.
dp_recv_packet ==
  LET p == stream[1].pkt IN
  /\ rx = "body"
  /\ Arrived(BodyLen(p))
  /\ IF ~InRun(BodyLen(p))
     THEN rx' = "lost" /\ UNCHANGED <<stream, delivered>>
     ELSE IF Accepted(p)
     THEN /\ rx' = "header"
          /\ stream' = Rest(BodyLen(p))
          /\ delivered' = Append(delivered, Read(p))
     ELSE rx' = "rejected" /\ UNCHANGED <<stream, delivered>>
  /\ UNCHANGED <<wlock, pc, out, sends, conn>>

\* The receive fails or ends early: the thread leaves its loop.
RecvFails ==
  /\ conn # "up"
  /\ rx \in {"header", "body"}
  /\ rx' = "ended"
  /\ UNCHANGED <<wlock, pc, out, sends, conn, stream, delivered>>

-----------------------------------------------------------------------------
SendStep(s) ==
  \/ \E p \in Packet : dp_psend_start(s, p)
  \/ SendSome(s) \/ Unlock(s) \/ SendFails(s) \/ UnlockAgain(s) \/ SendKills(s)

RecvStep == dp_recv_header \/ dp_recv_packet \/ RecvFails

Next == Reset \/ RecvStep \/ \E s \in Sender : SendStep(s)

Spec == Init /\ [][Next]_vars

\* A thread that can go on does: send() returns in the end, since the remote
\* node reads or the connection breaks.  Nobody has to begin a packet.
Fairness ==
  \A s \in Sender :
    WF_vars(SendSome(s) \/ Unlock(s) \/ SendFails(s) \/ UnlockAgain(s)
              \/ SendKills(s))

FairSpec == Spec /\ Fairness

-----------------------------------------------------------------------------
Run == [id : 1..MaxSends, pkt : Packet, lo : Nat, hi : Nat]

TypeOK ==
  /\ wlock \in Sender \cup {Nobody}
  /\ pc \in [Sender -> {"idle", "send", "sent", "unlock2"}]
  /\ out \in [Sender -> [id : 0..MaxSends, pkt : [type : {"probe", "data", "graph"}, n : Nat],
                         part : 1..3, left : Nat]]
  /\ sends \in 0..MaxSends
  /\ conn \in {"up", "reset", "broken", "killed"}
  /\ stream \in Seq(Run)
  /\ rx \in {"header", "body", "rejected", "lost", "ended"}
  /\ delivered \in Seq(Packet)

(***************************************************************************)
(* dpeer.c:21 and 40: a thread calls dp_psend_data with dp->wlock held,    *)
(* from the first byte of its packet to the last.  So it is until a send() *)
(* has failed; after that the second unlock takes the lock from whoever    *)
(* has it.                                                                 *)
(***************************************************************************)
LockedWhileUp ==
  conn = "up" => \A s \in Sender : pc[s] \in {"send", "sent"} => wlock = s

\* A run that is a packet from its first byte on, or from the end of the header
\* that the receiver has taken: any other run is a piece that is out of place.
InPlace(i) == stream[i].lo = 0 \/ (i = 1 /\ stream[i].lo = PL_HEADER)

\* The packets of the stream, the one being read included.
Queue ==
  [i \in DOMAIN stream |-> IF InPlace(i) THEN stream[i].pkt ELSE stream[i]]

PC == INSTANCE PacketChannel WITH queue <- Queue

(***************************************************************************)
(* Threads that share a connection do not mix up their packets, however    *)
(* send() divides the bytes, and the receiver never takes the middle of a  *)
(* packet for a header, nor a link graph for a shorter one, even when the  *)
(* length was cut to 16 bits: the stream is the queue of PacketChannel.    *)
(***************************************************************************)
DeliversPackets == PC!Spec

(***************************************************************************)
(* A packet of this program is never rejected by this program, except for  *)
(* a link graph of more than 1820 edges, whose length does not fit into    *)
(* the header: the receiver's thread then gives up the connection.         *)
(***************************************************************************)
RejectsOverlongOnly ==
  /\ rx # "lost"
  /\ rx = "rejected" => stream[1].pkt.n > 1820

(***************************************************************************)
(* No error path keeps wlock: a thread that waits in dp_psend_start can    *)
(* get it again and again, unless the process is killed.                   *)
(***************************************************************************)
LockComesFree == []<>(wlock = Nobody \/ conn = "killed")
=============================================================================
