---------------------------- MODULE PacketChannel ----------------------------
(***************************************************************************)
(* What one direction of a connection promises to the two peer threads at  *)
(* its ends: packets that several threads send arrive whole, in the order  *)
(* they were begun, and none arrives that was not sent.  The connection    *)
(* may break at any time, so nothing says that a packet does arrive.       *)
(***************************************************************************)
EXTENDS Sequences

CONSTANT Packet      \* the packets that may be sent

VARIABLES queue,     \* sent and not yet delivered
          delivered  \* what dp_recv_packet has taken out, in order

vars == <<queue, delivered>>

Init == queue = <<>> /\ delivered = <<>>

Send(p) ==
  /\ queue' = Append(queue, p)
  /\ UNCHANGED delivered

Deliver ==
  /\ queue # <<>>
  /\ delivered' = Append(delivered, Head(queue))
  /\ queue' = Tail(queue)

Next == Deliver \/ \E p \in Packet : Send(p)

Spec == Init /\ [][Next]_vars
=============================================================================
