----------------------------- MODULE WireProofs -----------------------------
(***************************************************************************)
(* Proofs about Wire, for any number of senders, any lengths of packets    *)
(* that the types of the fields allow and any division of the bytes by     *)
(* send(): who holds the lock, which packets are rejected, and that the    *)
(* stream of bytes implements the queue of PacketChannel.                  *)
(*                                                                         *)
(* All but the type invariant are about connections on which a send()      *)
(* fails only when the connection is gone: "nobufs" is not in Errors.      *)
(***************************************************************************)
EXTENDS Wire, SequenceTheorems, TLAPS

\* How many bytes a packet has, its header included.
Total(p) ==
  IF p.type = "graph" THEN PL_HEADER + PL_LINK_GRAPH_STATIC + PL_EDGE * p.n
  ELSE PL_HEADER + p.n

\* A sender in dp_psend_data is in its packet, and has bytes left unless it is
\* at the end of a link graph without edges.
Sending(o) ==
  /\ o.id \in 1..sends
  /\ o.pkt \in Packet
  /\ o.part \in 1..Len(Parts(o.pkt))
  /\ o.left \in 0..Parts(o.pkt)[o.part]
  /\ o.left = 0 => Position(o) = Total(o.pkt)

SendersInPacket == \A s \in Sender : pc[s] = "send" => Sending(out[s])

\* As long as the connection is up, nobody is on an error path, and the one
\* who sends has the lock.
LockHeld ==
  conn = "up" =>
    \A s \in Sender : pc[s] # "unlock2" /\ (pc[s] \in {"send", "sent"} => wlock = s)

\* The last run of the stream is what o has sent of its packet so far.
LastIs(o) ==
  /\ stream # <<>>
  /\ stream[Len(stream)].id = o.id
  /\ stream[Len(stream)].pkt = o.pkt
  /\ stream[Len(stream)].hi = Position(o)

Whole(r) == r.hi = Total(r.pkt)

\* Every run is a packet from its first byte on, less the header if the
\* receiver has it, and all runs but the last are whole.
RunsInPlace ==
  \A i \in 1..Len(stream) :
    /\ i > 1 \/ rx = "header" => stream[i].lo = 0
    /\ i = 1 /\ rx \in {"body", "rejected"} => stream[i].lo = PL_HEADER
    /\ InPlace(i)
    /\ stream[i].lo <= stream[i].hi /\ 0 < stream[i].hi
    /\ stream[i].hi <= Total(stream[i].pkt)
    /\ i < Len(stream) => Whole(stream[i])

\* As long as the connection is up, the last run is whole unless somebody is
\* sending it, and a packet that is sent in part is the last run.
LastRun ==
  conn = "up" =>
    /\ \/ stream = <<>>
       \/ Whole(stream[Len(stream)])
       \/ \E s \in Sender : pc[s] = "send" /\ LastIs(out[s])
    /\ \A s \in Sender :
         pc[s] = "send" /\ Position(out[s]) \in 1..(Total(out[s].pkt) - 1) =>
           LastIs(out[s])

\* The receiver is at a boundary of packets, and knows why it rejects one.
Receiving ==
  /\ rx # "lost"
  /\ rx \in {"body", "rejected"} => stream # <<>>
  /\ rx = "rejected" => ~Accepted(stream[1].pkt)

\* Holds whatever send() does.
TInv == TypeOK /\ SendersInPacket

IInv == TInv /\ LockHeld /\ RunsInPlace /\ LastRun /\ Receiving

-----------------------------------------------------------------------------
(* Lengths.                                                                *)

LEMMA U16Values ==
  /\ 2 ^ 16 = 65536
  /\ \A m \in Nat : m <= 65535 => U16(m) = m
  /\ \A m \in Nat : U16(m) \in Nat /\ U16(m) <= 65535 /\ U16(m) <= m
<1>1. 2 ^ 16 = 65536
  OBVIOUS
<1>2. \A m \in Nat : m <= 65535 => m % 65536 = m
  OBVIOUS
<1>3. \A m \in Nat : /\ m % 65536 \in Nat /\ m % 65536 <= 65535
                     /\ m % 65536 <= m
  OBVIOUS
<1> QED
  BY <1>1, <1>2, <1>3 DEF U16

LEMMA PacketFields ==
  ASSUME NEW p \in Packet
  PROVE  /\ p.type \in {"probe", "data", "graph"}
         /\ p.n \in Nat /\ p.n <= 65535
         /\ p.type = "probe" => p.n = 2
         /\ p = [type |-> p.type, n |-> p.n]
         /\ Total(p) \in Nat /\ Total(p) >= 4
         /\ Len(Parts(p)) \in {2, 3}
         /\ Parts(p)[1] = 4
         /\ p.type # "graph" => /\ Len(Parts(p)) = 2
                                /\ Parts(p)[2] = p.n /\ Total(p) = 4 + p.n
         /\ p.type = "graph" => /\ Len(Parts(p)) = 3
                                /\ Parts(p)[2] = 14 /\ Parts(p)[3] = 36 * p.n
                                /\ Total(p) = 18 + 36 * p.n
         /\ \A i \in 1..Len(Parts(p)) : Parts(p)[i] \in Nat
<1>1. \A m \in DataLen \cup EdgeCount : m \in Nat /\ m <= 65535
  <2> DEFINE top == 2 ^ 16 - 1
  <2>1. top \in Nat /\ top <= 65535
    BY U16Values
  <2>2. DataLen \subseteq 1..top /\ EdgeCount \subseteq 0..top
    BY LengthAssumption
  <2> HIDE DEF top
  <2> QED
    BY <2>1, <2>2
<1>2. /\ p.type \in {"probe", "data", "graph"}
      /\ p.n \in DataLen \cup EdgeCount \cup {2}
      /\ p.type = "probe" => p.n = 2
      /\ p = [type |-> p.type, n |-> p.n]
  BY DEF Packet, PL_PROBE
<1>3. p.n \in Nat /\ p.n <= 65535
  BY <1>1, <1>2
<1> QED
  BY <1>2, <1>3 DEF Total, Parts, PL_HEADER, PL_LINK_GRAPH_STATIC, PL_EDGE

LEMMA PartsSum ==
  ASSUME NEW p \in Packet
  PROVE  /\ Len(Parts(p)) \in {2, 3}
         /\ \A i \in 1..Len(Parts(p)) : Parts(p)[i] \in Nat
         /\ Parts(p)[1] = 4
         /\ Total(p) \in Nat
         /\ Len(Parts(p)) = 2 => Total(p) = 4 + Parts(p)[2]
         /\ Len(Parts(p)) = 3 => Total(p) = 4 + Parts(p)[2] + Parts(p)[3]
<1>1. CASE p.type = "graph"
  BY <1>1, PacketFields, SMTT(30)
<1>2. CASE p.type # "graph"
  BY <1>2, PacketFields
<1> QED
  BY <1>1, <1>2

\* The length in the header is right up to 1820 edges; above, the number of
\* edges that the receiver computes is a different one.
LEMMA EdgesRoundTrip ==
  ASSUME NEW n \in Nat, n <= 65535
  PROVE  /\ U16(36 * n + 14) <= 36 * n + 14
         /\ U16(36 * n + 14) \in Nat /\ U16(36 * n + 14) <= 65535
         /\ n <= 1820 => /\ U16(36 * n + 14) = 36 * n + 14
                         /\ EdgesOfLen(U16(36 * n + 14)) = n
         /\ n > 1820 => EdgesOfLen(U16(36 * n + 14)) # n
<1>1. /\ U16(36 * n + 14) <= 36 * n + 14
      /\ U16(36 * n + 14) \in Nat /\ U16(36 * n + 14) <= 65535
  BY U16Values
<1>2. CASE n <= 1820
  <2>1. U16(36 * n + 14) = 36 * n + 14
    <3>1. 36 * n + 14 \in Nat /\ 36 * n + 14 <= 65535
      BY <1>2
    <3> QED
      BY <3>1, U16Values
  <2>2. (36 * n + 14 - 14) \div 36 = n
    OBVIOUS
  <2>3. U16(n) = n
    BY U16Values
  <2> QED
    BY <1>1, <1>2, <2>1, <2>2, <2>3 DEF EdgesOfLen, PL_EDGE, PL_LINK_GRAPH_STATIC
<1>3. CASE n > 1820
  <2> DEFINE len == U16(36 * n + 14)
  <2>1. CASE len >= 14
    <3>1. (len - 14) \div 36 \in Nat /\ (len - 14) \div 36 <= 1820
      BY <1>1, <2>1
    <3>2. U16((len - 14) \div 36) <= 1820
      BY <3>1, U16Values
    <3> QED
      BY <1>1, <1>3, <2>1, <3>2 DEF EdgesOfLen, PL_EDGE, PL_LINK_GRAPH_STATIC
  <2>2. CASE ~(len >= 14)
    <3>1. n # 50972
      <4> SUFFICES ASSUME n = 50972 PROVE FALSE
        OBVIOUS
      <4>1. (36 * n + 14) % 65536 = 65534
        OBVIOUS
      <4> QED
        BY <4>1, <2>2, U16Values DEF U16
    <3> QED
      BY <1>1, <1>3, <2>2, <3>1 DEF EdgesOfLen, PL_EDGE, PL_LINK_GRAPH_STATIC
  <2> QED
    BY <2>1, <2>2, <1>1, <1>3
<1> QED
  BY <1>1, <1>2, <1>3

\* A whole packet holds all that the handler reads; the handlers take exactly
\* the packets whose body has that length, and take them as they were sent.
LEMMA BodyFits ==
  ASSUME NEW p \in Packet
  PROVE  /\ BodyLen(p) \in Nat
         /\ BodyLen(p) <= Total(p) - 4
         /\ Accepted(p) => BodyLen(p) = Total(p) - 4 /\ Read(p) = p
         /\ ~Accepted(p) => p.n > 1820
<1>1. CASE p.type = "graph"
  <2>1. HeaderLen(p) = U16(36 * p.n + 14)
    BY <1>1 DEF HeaderLen, PL_EDGE, PL_LINK_GRAPH_STATIC
  <2>2. U16(p.n) = p.n
    BY PacketFields, U16Values
  <2>3. /\ p.n > 1820 => ~Accepted(p)
        /\ p.n <= 1820 => Accepted(p) /\ HeaderLen(p) = 36 * p.n + 14
        /\ HeaderLen(p) \in Nat /\ HeaderLen(p) <= 36 * p.n + 14
    BY <1>1, <2>1, <2>2, PacketFields, EdgesRoundTrip DEF Accepted
  <2>4. Accepted(p) => Read(p) = p
    <3> SUFFICES ASSUME Accepted(p) PROVE Read(p) = p
      OBVIOUS
    <3>1. EdgesOfLen(HeaderLen(p)) = p.n
      BY <1>1, <2>2 DEF Accepted
    <3>2. Read(p) = [p EXCEPT !.n = p.n]
      BY <1>1, <3>1 DEF Read
    <3> QED
      BY <3>2, PacketFields
  <2> QED
    BY <1>1, <2>3, <2>4, PacketFields DEF BodyLen
<1>2. CASE p.type # "graph"
  BY <1>2, PacketFields, U16Values DEF BodyLen, Accepted, Read, HeaderLen, PL_PROBE
<1> QED
  BY <1>1, <1>2

-----------------------------------------------------------------------------
(* Positions.                                                              *)

LEMMA SumToParts ==
  ASSUME NEW q, NEW n \in {1, 2, 3}, \A i \in 1..n : q[i] \in Nat
  PROVE  SumTo(q, n) = IF n = 1 THEN q[1] ELSE IF n = 2 THEN q[1] + q[2]
                       ELSE q[1] + q[2] + q[3]
<1> DEFINE f == [i \in 0..n |-> IF i = 0 THEN 0 ELSE IF i = 1 THEN q[1]
                                ELSE IF i = 2 THEN q[1] + q[2]
                                ELSE q[1] + q[2] + q[3]]
           g == CHOOSE h : h = [i \in 0..n |-> IF i = 0 THEN 0 ELSE h[i - 1] + q[i]]
<1>1. f = [i \in 0..n |-> IF i = 0 THEN 0 ELSE f[i - 1] + q[i]]
  OBVIOUS
<1> HIDE DEF f
<1>2. g = [i \in 0..n |-> IF i = 0 THEN 0 ELSE g[i - 1] + q[i]]
  BY <1>1
<1>3. SumTo(q, n) = g[n]
  BY DEF SumTo
<1> HIDE DEF g
<1>4. \A i \in 0..n : g[i] = IF i = 0 THEN 0 ELSE g[i - 1] + q[i]
  BY <1>2
<1> QED
  BY <1>3, <1>4

LEMMA PositionIs ==
  ASSUME NEW o, o.pkt \in Packet, o.part \in 1..Len(Parts(o.pkt)), o.left \in Nat
  PROVE  Position(o) = (IF o.part = 1 THEN 4
                        ELSE IF o.part = 2 THEN 4 + Parts(o.pkt)[2]
                        ELSE Total(o.pkt)) - o.left
<1> DEFINE q == Parts(o.pkt)
           k == o.part
<1>1. /\ Len(q) \in {2, 3} /\ \A i \in 1..Len(q) : q[i] \in Nat
      /\ q[1] = 4
      /\ Len(q) = 3 => Total(o.pkt) = 4 + q[2] + q[3]
  BY PartsSum
<1>2. k \in 1..Len(q)
  OBVIOUS
<1>3. Position(o) = SumTo(q, k) - o.left
  BY DEF Position
<1> HIDE DEF q, k
<1>4. k \in {1, 2, 3} /\ k <= Len(q)
  BY <1>1, <1>2
<1>5. \A i \in 1..k : q[i] \in Nat
  BY <1>1, <1>4
<1>6. SumTo(q, k) = IF k = 1 THEN q[1] ELSE IF k = 2 THEN q[1] + q[2]
                    ELSE q[1] + q[2] + q[3]
  BY <1>4, <1>5, SumToParts
<1>7. SumTo(q, k) = IF k = 1 THEN 4 ELSE IF k = 2 THEN 4 + q[2] ELSE Total(o.pkt)
  BY <1>1, <1>4, <1>6
<1> QED
  BY <1>3, <1>7 DEF q, k

\* Where a sender is in its packet, and where it is after the rest of a part.
LEMMA PositionRange ==
  ASSUME NEW o, o.pkt \in Packet, o.part \in 1..Len(Parts(o.pkt)),
         o.left \in 0..Parts(o.pkt)[o.part]
  PROVE  /\ Position(o) \in 0..Total(o.pkt)
         /\ Position(o) + o.left <= Total(o.pkt)
         /\ LastPart(o) => Position(o) + o.left = Total(o.pkt)
<1> DEFINE q == Parts(o.pkt)
           k == o.part
           m == o.left
           t == Total(o.pkt)
<1>1. /\ Len(q) \in {2, 3} /\ \A i \in 1..Len(q) : q[i] \in Nat
      /\ q[1] = 4 /\ t \in Nat
      /\ Len(q) = 2 => t = 4 + q[2]
      /\ Len(q) = 3 => t = 4 + q[2] + q[3]
  BY PartsSum
<1>2. k \in 1..Len(q) /\ m \in 0..q[k] /\ (LastPart(o) <=> k = Len(q))
  BY DEF LastPart
<1>3. m \in Nat
  BY <1>1, <1>2
<1>4. Position(o) = (IF k = 1 THEN 4 ELSE IF k = 2 THEN 4 + q[2] ELSE t) - m
  BY <1>3, PositionIs
<1> HIDE DEF q, k, m, t
<1>5. k \in {1, 2, 3} /\ k <= Len(q) /\ q[k] \in Nat /\ m <= q[k]
  BY <1>1, <1>2, <1>3
<1>6. Position(o) \in 0..t /\ Position(o) + m <= t /\ (k = Len(q) => Position(o) + m = t)
  <2>1. CASE k = 1
    <3>1. q[1] = 4 /\ q[2] \in Nat /\ k # Len(q)
      BY <1>1, <2>1
    <3>2. t \in Nat /\ t >= 4
      BY <1>1, <3>1
    <3> QED
      BY <1>3, <1>4, <1>5, <2>1, <3>1, <3>2
  <2>2. CASE k = 2
    <3>1. q[2] \in Nat /\ t \in Nat
      BY <1>1
    <3>2. t >= 4 + q[2] /\ (k = Len(q) => t = 4 + q[2])
      BY <1>1, <2>2, <3>1, SMTT(30)
    <3> QED
      BY <1>3, <1>4, <1>5, <2>2, <3>1, <3>2
  <2>3. CASE k = 3
    <3>1. q[2] \in Nat /\ q[3] \in Nat /\ t = 4 + q[2] + q[3] /\ k = Len(q)
      BY <1>1, <1>5, <2>3
    <3> QED
      BY <1>3, <1>4, <1>5, <2>3, <3>1, SMTT(30)
  <2> QED
    BY <1>5, <2>1, <2>2, <2>3
<1> QED
  BY <1>2, <1>6 DEF q, k, m, t

\* The header and the first data are never empty.
LEMMA EmptyPart ==
  ASSUME NEW p \in Packet, NEW i \in 1..Len(Parts(p)), Parts(p)[i] = 0
  PROVE  i = Len(Parts(p))
<1>2. CASE p.type = "graph"
  <2>1. Len(Parts(p)) = 3 /\ Parts(p)[1] = 4 /\ Parts(p)[2] = 14
    BY <1>2, PacketFields
  <2> QED
    BY <2>1
<1>3. CASE p.type # "graph"
  <2>1. Len(Parts(p)) = 2 /\ Parts(p)[1] = 4
    BY <1>3, PacketFields
  <2> QED
    BY <2>1
<1> QED
  BY <1>2, <1>3

\* A sender goes on to the next part where it has ended the one before.
LEMMA NextPart ==
  ASSUME NEW o, o.pkt \in Packet, o.part \in 1..Len(Parts(o.pkt)),
         o.left \in 0..Parts(o.pkt)[o.part], ~LastPart(o),
         NEW o2, o2.pkt = o.pkt, o2.part = o.part + 1,
         o2.left = Parts(o.pkt)[o.part + 1]
  PROVE  /\ o2.part \in 1..Len(Parts(o2.pkt))
         /\ o2.left \in 0..Parts(o2.pkt)[o2.part]
         /\ Position(o2) = Position(o) + o.left
         /\ o2.left = 0 => Position(o2) = Total(o2.pkt)
<1> DEFINE q == Parts(o.pkt)
           k == o.part
           m == o.left
<1>1. /\ Len(q) \in {2, 3} /\ \A i \in 1..Len(q) : q[i] \in Nat
      /\ q[1] = 4 /\ Total(o.pkt) \in Nat
      /\ Len(q) = 3 => Total(o.pkt) = 4 + q[2] + q[3]
  BY PartsSum
<1>2. k \in 1..Len(q) /\ m \in 0..q[k] /\ k # Len(q)
  BY DEF LastPart
<1>3. m \in Nat
  BY <1>1, <1>2
<1>4. Position(o) = (IF k = 1 THEN 4 ELSE IF k = 2 THEN 4 + q[2] ELSE Total(o.pkt)) - m
  BY <1>3, PositionIs
<1>5. k + 1 \in 1..Len(q) /\ k \in {1, 2}
  <2> HIDE DEF q, k
  <2>1. CASE Len(q) = 2
    BY <1>2, <2>1
  <2>2. CASE Len(q) = 3
    BY <1>2, <2>2
  <2> QED
    BY <1>1, <2>1, <2>2
<1>6. q[k + 1] \in Nat
  BY <1>1, <1>5
<1>7. o2.part \in 1..Len(Parts(o2.pkt)) /\ o2.left \in 0..Parts(o2.pkt)[o2.part]
  BY <1>5, <1>6
<1>8. Position(o2) =
        (IF k + 1 = 1 THEN 4 ELSE IF k + 1 = 2 THEN 4 + q[2] ELSE Total(o.pkt)) - q[k + 1]
  BY <1>6, <1>7, PositionIs
<1>9. Position(o2) = Position(o) + o.left
  <2>1. Position(o2) = Position(o) + m
    <3> HIDE DEF q, k, m
    <3>1. CASE k = 1
      BY <1>1, <1>3, <1>4, <1>6, <1>8, <3>1
    <3>2. CASE k = 2
      <4>1. Len(q) = 3 /\ q[2] \in Nat /\ q[3] \in Nat
        BY <1>1, <1>5, <3>2, SMTT(30)
      <4> QED
        BY <1>1, <1>3, <1>4, <1>8, <3>2, <4>1
    <3> QED
      BY <1>5, <3>1, <3>2
  <2> QED
    BY <2>1
<1>10. ASSUME o2.left = 0
       PROVE  Position(o2) = Total(o2.pkt)
  <2>1. LastPart(o2)
    BY <1>5, <1>10, EmptyPart DEF LastPart
  <2>2. Position(o2) \in 0..Total(o2.pkt) /\ Position(o2) + o2.left = Total(o2.pkt)
    BY <1>7, <2>1, PositionRange
  <2> QED
    BY <1>10, <2>2
<1> QED
  BY <1>7, <1>9, <1>10

-----------------------------------------------------------------------------
(* Senders: types and positions.                                           *)

\* One turn of the loop of dp_psend_data.
LEMMA SendSomeEffect ==
  ASSUME TypeOK, SendersInPacket, NEW s \in Sender, SendSome(s)
  PROVE  \E k \in Nat :
           /\ stream' = Put(s, k)
           /\ k = 0 => Position(out[s]) = Total(out[s].pkt)
           /\ Position(out[s]) + k <= Total(out[s].pkt)
           /\ \A t \in Sender \ {s} : out'[t] = out[t] /\ pc'[t] = pc[t]
           /\ out'[s].id = out[s].id /\ out'[s].pkt = out[s].pkt
           /\ \/ /\ pc'[s] = "sent" /\ out' = out
                 /\ Position(out[s]) + k = Total(out[s].pkt)
              \/ /\ pc' = pc /\ Sending(out[s])'
                 /\ Position(out'[s]) = Position(out[s]) + k
<1> DEFINE o == out[s]
<1>0. /\ o \in [id : 0..MaxSends, pkt : [type : {"probe", "data", "graph"}, n : Nat],
                part : 1..3, left : Nat]
      /\ pc \in [Sender -> {"idle", "send", "sent", "unlock2"}]
      /\ DOMAIN out = Sender
  BY DEF TypeOK
<1>1. Sending(o) /\ o.left \in Nat
  BY <1>0 DEF SendersInPacket, SendSome
<1>2. PICK k \in Amounts(o) :
        /\ stream' = Put(s, k)
        /\ IF k < o.left
           THEN /\ out' = [out EXCEPT ![s].left = @ - k]
                /\ UNCHANGED pc
           ELSE IF LastPart(o)
           THEN /\ pc' = [pc EXCEPT ![s] = "sent"]
                /\ UNCHANGED out
           ELSE /\ out' = [out EXCEPT ![s].part = @ + 1,
                                      ![s].left = Parts(o.pkt)[o.part + 1]]
                /\ UNCHANGED pc
  BY DEF SendSome
<1>3. k \in Nat /\ k <= o.left /\ (k = 0 => o.left = 0)
  BY <1>1, <1>2 DEF Amounts
<1>4. /\ Position(o) \in 0..Total(o.pkt)
      /\ Position(o) + o.left <= Total(o.pkt)
      /\ LastPart(o) => Position(o) + o.left = Total(o.pkt)
      /\ Total(o.pkt) \in Nat
  BY <1>1, PositionRange, PartsSum DEF Sending
<1>5. k = 0 => Position(o) = Total(o.pkt)
  BY <1>1, <1>3 DEF Sending
<1>6. Position(o) + k <= Total(o.pkt)
  BY <1>1, <1>3, <1>4
<1>7. sends' = sends
  BY DEF SendSome
<1>8. CASE k < o.left
  <2>1. /\ out'[s] = [o EXCEPT !.left = @ - k]
        /\ \A t \in Sender \ {s} : out'[t] = out[t] /\ pc'[t] = pc[t]
    BY <1>0, <1>2, <1>8
  <2>2. /\ out'[s].id = o.id /\ out'[s].pkt = o.pkt /\ out'[s].part = o.part
        /\ out'[s].left = o.left - k
    BY <1>0, <2>1
  <2>3. Parts(o.pkt)[o.part] \in Nat
    BY <1>1, PartsSum DEF Sending
  <2>4. o.left - k \in 0..Parts(o.pkt)[o.part] /\ o.left - k \in Nat /\ o.left - k # 0
    BY <1>1, <1>3, <1>8, <2>3 DEF Sending
  <2>5. Position(out'[s]) = Position(o) + k
    <3> DEFINE b == IF o.part = 1 THEN 4 ELSE IF o.part = 2 THEN 4 + Parts(o.pkt)[2]
                    ELSE Total(o.pkt)
               o2 == out'[s]
    <3>1. Position(o) = b - o.left
      BY <1>1, PositionIs DEF Sending
    <3>2. o2.pkt \in Packet /\ o2.part \in 1..Len(Parts(o2.pkt)) /\ o2.left \in Nat
      BY <1>1, <2>2, <2>4 DEF Sending
    <3>3. Position(o2) = b - (o.left - k)
      <4> HIDE DEF o2
      <4>1. Position(o2) = (IF o2.part = 1 THEN 4
                            ELSE IF o2.part = 2 THEN 4 + Parts(o2.pkt)[2]
                            ELSE Total(o2.pkt)) - o2.left
        BY <3>2, PositionIs
      <4> QED
        BY <4>1, <2>2 DEF o2
    <3>4. b \in Nat
      BY <1>1, <1>4, PartsSum DEF Sending
    <3> HIDE DEF b, o2
    <3>5. Position(o2) = Position(o) + k
      BY <1>1, <1>3, <3>1, <3>3, <3>4
    <3> QED
      BY <3>5 DEF o2
  <2>6. Sending(out[s])'
    BY <1>1, <1>7, <2>2, <2>4 DEF Sending
  <2> QED
    BY <1>2, <1>3, <1>5, <1>6, <1>8, <2>1, <2>2, <2>5, <2>6
<1>9. CASE ~(k < o.left) /\ LastPart(o)
  <2>1. k = o.left
    BY <1>1, <1>3, <1>9
  <2>2. /\ out' = out /\ pc'[s] = "sent"
        /\ \A t \in Sender \ {s} : out'[t] = out[t] /\ pc'[t] = pc[t]
    BY <1>0, <1>2, <1>9
  <2> QED
    BY <1>2, <1>3, <1>4, <1>5, <1>6, <1>9, <2>1, <2>2
<1>10. CASE ~(k < o.left) /\ ~LastPart(o)
  <2>1. k = o.left
    BY <1>1, <1>3, <1>10
  <2>2. /\ out'[s] = [o EXCEPT !.part = @ + 1, !.left = Parts(o.pkt)[o.part + 1]]
        /\ \A t \in Sender \ {s} : out'[t] = out[t] /\ pc'[t] = pc[t]
    BY <1>0, <1>2, <1>10
  <2>3. /\ out'[s].id = o.id /\ out'[s].pkt = o.pkt /\ out'[s].part = o.part + 1
        /\ out'[s].left = Parts(o.pkt)[o.part + 1]
    BY <1>0, <2>2
  <2>4. /\ out'[s].part \in 1..Len(Parts(out'[s].pkt))
        /\ out'[s].left \in 0..Parts(out'[s].pkt)[out'[s].part]
        /\ Position(out'[s]) = Position(o) + o.left
        /\ out'[s].left = 0 => Position(out'[s]) = Total(out'[s].pkt)
    BY <1>1, <1>10, <2>3, NextPart DEF Sending
  <2>5. Sending(out[s])'
    BY <1>1, <1>7, <2>3, <2>4 DEF Sending
  <2> QED
    BY <1>2, <1>3, <1>5, <1>6, <1>10, <2>1, <2>2, <2>3, <2>4, <2>5
<1> QED
  BY <1>8, <1>9, <1>10

\* The stream z is the stream with k more bytes in its last run.
Longer(z, k) ==
  LET n == Len(stream) IN
  /\ z \in Seq(Run) /\ Len(z) = n
  /\ \A i \in 1..(n - 1) : z[i] = stream[i]
  /\ z[n].id = stream[n].id /\ z[n].pkt = stream[n].pkt
  /\ z[n].lo = stream[n].lo /\ z[n].hi = stream[n].hi + k

RunOf(o, k) ==
  [id |-> o.id, pkt |-> o.pkt, lo |-> Position(o), hi |-> Position(o) + k]

Continues(o) ==
  /\ stream # <<>>
  /\ stream[Len(stream)].id = o.id /\ stream[Len(stream)].hi = Position(o)

\* What the bytes of a sender do to the stream: nothing, more of the last run,
\* or a new run.
LEMMA PutEffect ==
  ASSUME TypeOK, NEW s \in Sender, Sending(out[s]), NEW k \in Nat
  PROVE  /\ Put(s, k) \in Seq(Run)
         /\ k = 0 => Put(s, k) = stream
         /\ k # 0 /\ Continues(out[s]) => Longer(Put(s, k), k)
         /\ k # 0 /\ ~Continues(out[s]) => Put(s, k) = Append(stream, RunOf(out[s], k))
         /\ RunOf(out[s], k) \in Run
<1> DEFINE o == out[s]
           n == Len(stream)
<1>1. stream \in Seq(Run) /\ sends \in 0..MaxSends
  BY DEF TypeOK
<1>2. /\ o.id \in 1..MaxSends /\ o.pkt \in Packet
      /\ Position(o) \in 0..Total(o.pkt) /\ Total(o.pkt) \in Nat
  BY <1>1, MaxSendsAssumption, PositionRange, PartsSum DEF Sending
<1>3. Position(o) \in Nat /\ Position(o) + k \in Nat
  BY <1>2
<1>4. RunOf(o, k) \in Run
  BY <1>2, <1>3 DEF Run, RunOf
<1>5. CASE k = 0
  BY <1>1, <1>4, <1>5 DEF Put
<1>6. CASE k # 0 /\ ~Continues(o)
  <2>1. stream # <<>> <=> n > 0
    BY <1>1
  <2>2. Put(s, k) = Append(stream, RunOf(o, k))
    BY <1>6, <2>1 DEF Put, RunOf, Continues
  <2>3. Append(stream, RunOf(o, k)) \in Seq(Run)
    BY <1>1, <1>4
  <2> QED
    BY <1>4, <1>6, <2>2, <2>3
<1>7. CASE k # 0 /\ Continues(o)
  <2>1. stream # <<>> /\ n > 0 /\ stream[n].id = o.id /\ stream[n].hi = Position(o)
    BY <1>1, <1>7 DEF Continues
  <2>2. n \in 1..Len(stream) /\ stream[n] \in Run
    BY <1>1, <2>1
  <2> DEFINE r == [stream[n] EXCEPT !.hi = Position(o) + k]
  <2>3. Put(s, k) = [stream EXCEPT ![n] = r]
    BY <1>7, <2>1 DEF Put
  <2>4. /\ r \in Run /\ r.id = stream[n].id /\ r.pkt = stream[n].pkt
        /\ r.lo = stream[n].lo /\ r.hi = stream[n].hi + k
    BY <2>1, <2>2, <1>3 DEF Run
  <2> HIDE DEF r
  <2>5. /\ Put(s, k) \in Seq(Run) /\ Len(Put(s, k)) = n
        /\ \A i \in 1..n : Put(s, k)[i] = IF i = n THEN r ELSE stream[i]
    BY <1>1, <2>2, <2>3, <2>4, ExceptSeq
  <2>6. Longer(Put(s, k), k)
    BY <2>2, <2>4, <2>5 DEF Longer
  <2> QED
    BY <1>4, <1>7, <2>5, <2>6
<1> QED
  BY <1>5, <1>6, <1>7

-----------------------------------------------------------------------------
(* Type correctness, whatever send() does.                                 *)

LEMMA TInvSendSome ==
  ASSUME TInv, NEW s \in Sender, SendSome(s)
  PROVE  TInv'
<1>1. TypeOK /\ SendersInPacket
  BY DEF TInv
<1>2. PICK k \in Nat :
           /\ stream' = Put(s, k)
           /\ \A t \in Sender \ {s} : out'[t] = out[t] /\ pc'[t] = pc[t]
           /\ \/ pc'[s] = "sent" /\ out' = out
              \/ pc' = pc /\ Sending(out[s])'
  BY <1>1, SendSomeEffect
<1>3. UNCHANGED <<wlock, sends, conn, rx, delivered>> /\ pc[s] = "send"
  BY DEF SendSome
<1>4. Sending(out[s])
  BY <1>1, <1>3 DEF SendersInPacket
<1>5. stream' \in Seq(Run)
  BY <1>1, <1>2, <1>4, PutEffect
<1>6. /\ out' \in [Sender -> [id : 0..MaxSends,
                              pkt : [type : {"probe", "data", "graph"}, n : Nat],
                              part : 1..3, left : Nat]]
      /\ pc' \in [Sender -> {"idle", "send", "sent", "unlock2"}]
  <2>1. PICK j \in Amounts(out[s]) :
        IF j < out[s].left
           THEN /\ out' = [out EXCEPT ![s].left = @ - j]
                /\ UNCHANGED pc
           ELSE IF LastPart(out[s])
           THEN /\ pc' = [pc EXCEPT ![s] = "sent"]
                /\ UNCHANGED out
           ELSE /\ out' = [out EXCEPT ![s].part = @ + 1,
                              ![s].left = Parts(out[s].pkt)[out[s].part + 1]]
                /\ UNCHANGED pc
    BY DEF SendSome
  <2>2. j \in Nat
    BY <1>1, <2>1 DEF Amounts, TypeOK
  <2>3. ~LastPart(out[s]) => /\ out[s].part + 1 \in 1..3
                             /\ Parts(out[s].pkt)[out[s].part + 1] \in Nat
    <3> DEFINE q == Parts(out[s].pkt)
               m == out[s].part
    <3>1. Len(q) \in {2, 3} /\ (\A i \in 1..Len(q) : q[i] \in Nat) /\ m \in 1..Len(q)
      BY <1>4, PartsSum DEF Sending
    <3>2. ~LastPart(out[s]) => m # Len(q)
      BY DEF LastPart
    <3> HIDE DEF q, m
    <3>3. ~LastPart(out[s]) => m + 1 \in 1..3 /\ q[m + 1] \in Nat
      BY <3>1, <3>2
    <3> QED
      BY <3>3 DEF q, m
  <2> DEFINE O == [id : 0..MaxSends, pkt : [type : {"probe", "data", "graph"}, n : Nat],
                   part : 1..3, left : Nat]
  <2>4. out \in [Sender -> O] /\ pc \in [Sender -> {"idle", "send", "sent", "unlock2"}]
    BY <1>1 DEF TypeOK
  <2>5. CASE j < out[s].left
    <3>1. out' = [out EXCEPT ![s].left = @ - j] /\ pc' = pc
      BY <2>1, <2>5
    <3>2. out[s].left - j \in Nat
      BY <2>2, <2>4, <2>5
    <3> QED
      BY <2>4, <3>1, <3>2
  <2>6. CASE ~(j < out[s].left) /\ LastPart(out[s])
    <3>1. pc' = [pc EXCEPT ![s] = "sent"] /\ out' = out
      BY <2>1, <2>6
    <3> QED
      BY <2>4, <3>1
  <2>7. CASE ~(j < out[s].left) /\ ~LastPart(out[s])
    <3>1. /\ out' = [out EXCEPT ![s].part = @ + 1,
                               ![s].left = Parts(out[s].pkt)[out[s].part + 1]]
          /\ pc' = pc
      BY <2>1, <2>7
    <3> DEFINE m == out[s].part + 1
               n == Parts(out[s].pkt)[m]
               r == [id |-> out[s].id, pkt |-> out[s].pkt, part |-> m, left |-> n]
    <3>2. m \in 1..3 /\ n \in Nat
      BY <2>3, <2>7
    <3>3. out' = [out EXCEPT ![s].part = m, ![s].left = n]
      BY <3>1
    <3> HIDE DEF m, n
    <3>4. out[s] \in O
      BY <2>4
    <3>5. r \in O
      BY ONLY <3>2, <3>4
    <3>6. out' = [out EXCEPT ![s] = r]
      <4>1. \A t \in Sender : t # s => out'[t] = out[t]
        BY ONLY <2>4, <3>3
      <4>2. out'[s] = r
        BY ONLY <2>4, <3>3, <3>4, <3>5, s \in Sender
      <4> QED
        BY ONLY <2>4, <3>3, <4>1, <4>2
    <3> HIDE DEF r, O
    <3>7. out' \in [Sender -> O]
      BY ONLY <2>4, <3>5, <3>6
    <3> QED
      BY <2>4, <3>1, <3>7 DEF O
  <2> QED
    BY <2>5, <2>6, <2>7
<1>7. TypeOK'
  BY <1>1, <1>3, <1>5, <1>6 DEF TypeOK
<1>8. SendersInPacket'
  <2> SUFFICES ASSUME NEW t \in Sender, pc'[t] = "send"
               PROVE  Sending(out[t])'
    BY DEF SendersInPacket
  <2>1. CASE t = s
    BY <1>2, <2>1
  <2>2. CASE t # s
    BY <1>1, <1>2, <1>3, <2>2 DEF SendersInPacket, Sending
  <2> QED
    BY <2>1, <2>2
<1> QED
  BY <1>7, <1>8 DEF TInv

LEMMA TInvStart ==
  ASSUME TInv, NEW s \in Sender, NEW p \in Packet, dp_psend_start(s, p)
  PROVE  TInv'
<1> USE DEF dp_psend_start
<1>1. TypeOK /\ SendersInPacket
  BY DEF TInv
<1> DEFINE o == [id |-> sends + 1, pkt |-> p, part |-> 1, left |-> PL_HEADER]
<1>2. p \in [type : {"probe", "data", "graph"}, n : Nat]
  BY PacketFields
<1>3. sends' = sends + 1 /\ sends + 1 \in 1..MaxSends /\ sends \in Nat
  BY <1>1, MaxSendsAssumption DEF TypeOK
<1>4. o \in [id : 0..MaxSends, pkt : [type : {"probe", "data", "graph"}, n : Nat],
             part : 1..3, left : Nat]
  BY <1>2, <1>3, MaxSendsAssumption DEF PL_HEADER
<1>5. out' = [out EXCEPT ![s] = o] /\ pc' = [pc EXCEPT ![s] = "send"]
  OBVIOUS
<1>6. TypeOK'
  BY <1>1, <1>3, <1>4, <1>5, MaxSendsAssumption DEF TypeOK
<1>7. out'[s] = o /\ \A t \in Sender \ {s} : out'[t] = out[t] /\ pc'[t] = pc[t]
  BY <1>1, <1>5 DEF TypeOK
<1>8. Sending(out[s])'
  <2>1. 1 \in 1..Len(Parts(p)) /\ Parts(p)[1] = 4
    BY PartsSum
  <2> QED
    BY <1>3, <1>7, <2>1 DEF Sending, PL_HEADER
<1>9. ASSUME NEW t \in Sender, t # s, pc'[t] = "send"
      PROVE  Sending(out[t])'
  <2>1. Sending(out[t]) /\ out'[t] = out[t]
    BY <1>1, <1>7, <1>9 DEF SendersInPacket
  <2> QED
    BY <1>3, <2>1 DEF Sending
<1> QED
  BY <1>6, <1>8, <1>9 DEF TInv, SendersInPacket

\* Unlock, SendFails, UnlockAgain: a sender is idle again, or on its way to it.
LEMMA TInvQuits ==
  ASSUME TInv, NEW s \in Sender, NEW q \in {"idle", "unlock2"},
         wlock' = Nobody,
         pc' = [pc EXCEPT ![s] = q],
         out' = [out EXCEPT ![s] = Idle] \/ out' = out,
         conn' \in {"up", "reset", "broken", "killed"},
         UNCHANGED <<sends, stream, rx, delivered>>
  PROVE  TInv'
<1>1. TypeOK /\ SendersInPacket
  BY DEF TInv
<1>2. Idle \in [id : 0..MaxSends, pkt : [type : {"probe", "data", "graph"}, n : Nat],
                part : 1..3, left : Nat]
  BY MaxSendsAssumption DEF Idle, PL_PROBE
<1>3. TypeOK'
  <2> HIDE DEF Idle
  <2> QED
    BY <1>1, <1>2 DEF TypeOK
<1>4. SendersInPacket'
  <2> SUFFICES ASSUME NEW t \in Sender, pc'[t] = "send"
               PROVE  Sending(out[t])'
    BY DEF SendersInPacket
  <2>1. t # s /\ pc[t] = "send" /\ out'[t] = out[t]
    BY <1>1 DEF TypeOK
  <2> QED
    BY <1>1, <2>1 DEF SendersInPacket, Sending
<1> QED
  BY <1>3, <1>4 DEF TInv

LEMMA TInvSendStep ==
  ASSUME TInv, NEW s \in Sender, SendStep(s)
  PROVE  TInv'
<1>1. CASE \E p \in Packet : dp_psend_start(s, p)
  BY <1>1, TInvStart
<1>2. CASE SendSome(s)
  BY <1>2, TInvSendSome
<1>3. CASE Unlock(s)
  BY <1>3, TInvQuits DEF Unlock, TInv, TypeOK
<1>4. CASE SendFails(s)
  <2>1. PICK q \in {"idle", "unlock2"} : pc' = [pc EXCEPT ![s] = q]
    BY <1>4 DEF SendFails, SendError
  <2>2. /\ wlock' = Nobody /\ out' = [out EXCEPT ![s] = Idle]
        /\ conn' \in {"up", "reset", "broken", "killed"}
        /\ UNCHANGED <<sends, stream, rx, delivered>>
    BY <1>4 DEF SendFails, SendError
  <2> QED
    BY <2>1, <2>2, TInvQuits
<1>5. CASE UnlockAgain(s)
  BY <1>5, TInvQuits DEF UnlockAgain, TInv, TypeOK
<1>6. CASE SendKills(s)
  BY <1>6 DEF SendKills, TInv, TypeOK, SendersInPacket, Sending
<1> QED
  BY <1>1, <1>2, <1>3, <1>4, <1>5, <1>6 DEF SendStep

LEMMA TInvStream ==
  ASSUME TInv, UNCHANGED <<wlock, pc, out, sends>>,
         conn' \in {"up", "reset", "broken", "killed"}, stream' \in Seq(Run),
         rx' \in {"header", "body", "rejected", "lost", "ended"},
         delivered' \in Seq(Packet)
  PROVE  TInv'
  BY DEF TInv, TypeOK, SendersInPacket, Sending

\* Bytes are taken from the first run.
LEMMA TakeFromFirst ==
  ASSUME stream \in Seq(Run), stream # <<>>, NEW m \in Nat, NEW z,
         z = [stream EXCEPT ![1].lo = m]
  PROVE  /\ z \in Seq(Run) /\ Len(z) = Len(stream) /\ z # <<>>
         /\ z[1].lo = m /\ z[1].hi = stream[1].hi /\ z[1].pkt = stream[1].pkt
         /\ z[1].id = stream[1].id
         /\ \A i \in 2..Len(stream) : z[i] = stream[i]
<1> DEFINE r == [stream[1] EXCEPT !.lo = m]
<1>1. 1 \in 1..Len(stream) /\ stream[1] \in Run
  OBVIOUS
<1>2. z = [stream EXCEPT ![1] = r]
  OBVIOUS
<1>3. /\ r \in Run /\ r.lo = m /\ r.hi = stream[1].hi /\ r.pkt = stream[1].pkt
      /\ r.id = stream[1].id
  BY <1>1 DEF Run
<1> HIDE DEF r
<1>4. z \in Seq(Run) /\ Len(z) = Len(stream)
      /\ \A i \in 1..Len(stream) : z[i] = IF i = 1 THEN r ELSE stream[i]
  BY <1>1, <1>2, <1>3, ExceptSeq
<1> QED
  BY <1>1, <1>3, <1>4

LEMMA TInvRecv ==
  ASSUME TInv, RecvStep
  PROVE  TInv'
<1>1. TypeOK
  BY DEF TInv
<1>2. CASE dp_recv_header
  <2>1. stream # <<>>
    BY <1>1, <1>2 DEF dp_recv_header, Arrived, TypeOK
  <2>2. stream' \in Seq(Run)
    BY <1>1, <1>2, <2>1, TakeFromFirst DEF dp_recv_header, TypeOK, PL_HEADER
  <2> QED
    BY <1>1, <1>2, <2>2, TInvStream DEF dp_recv_header, TypeOK
<1>3. CASE dp_recv_packet
  <2> DEFINE p == stream[1].pkt
  <2>1. stream \in Seq(Run) /\ stream # <<>> /\ stream[1] \in Run
    BY <1>1, <1>3 DEF dp_recv_packet, Arrived, TypeOK
  <2>2. p \in Packet /\ stream[1].lo \in Nat /\ BodyLen(p) \in Nat
    BY <2>1, BodyFits DEF Run
  <2>3. Rest(BodyLen(p)) \in Seq(Run)
    <3>1. Tail(stream) \in Seq(Run)
      BY <2>1
    <3> DEFINE m == stream[1].lo + BodyLen(p)
               z == [stream EXCEPT ![1].lo = m]
    <3>2. m \in Nat
      BY <2>2
    <3>3. z \in Seq(Run)
      <4> HIDE DEF m
      <4> QED
        BY <2>1, <3>2, TakeFromFirst
    <3>4. Rest(BodyLen(p)) \in {Tail(stream), z}
      BY DEF Rest
    <3> QED
      BY <3>1, <3>3, <3>4
  <2>4. Accepted(p) => Append(delivered, Read(p)) \in Seq(Packet)
    BY <1>1, <2>2, BodyFits DEF TypeOK
  <2>5. stream' \in Seq(Run) /\ delivered' \in Seq(Packet)
    BY <1>1, <1>3, <2>3, <2>4 DEF dp_recv_packet, TypeOK
  <2> QED
    BY <1>1, <1>3, <2>5, TInvStream DEF dp_recv_packet, TypeOK
<1>4. CASE RecvFails
  BY <1>1, <1>4, TInvStream DEF RecvFails, TypeOK
<1> QED
  BY <1>2, <1>3, <1>4 DEF RecvStep

LEMMA TInvAlways == Spec => []TInv
<1>1. Init => TInv
  <2> SUFFICES ASSUME Init PROVE TInv
    OBVIOUS
  <2>1. Idle \in [id : 0..MaxSends, pkt : [type : {"probe", "data", "graph"}, n : Nat],
                  part : 1..3, left : Nat]
    BY MaxSendsAssumption DEF Idle, PL_PROBE
  <2> QED
    BY <2>1, MaxSendsAssumption DEF Init, TInv, TypeOK, SendersInPacket
<1>2. TInv /\ [Next]_vars => TInv'
  <2> SUFFICES ASSUME TInv, [Next]_vars PROVE TInv'
    OBVIOUS
  <2>1. CASE Reset
    BY <2>1, TInvStream DEF Reset, TInv, TypeOK
  <2>2. CASE UNCHANGED vars
    BY <2>2 DEF vars, TInv, TypeOK, SendersInPacket, Sending
  <2> QED
    BY <2>1, <2>2, TInvRecv, TInvSendStep DEF Next
<1> QED
  BY <1>1, <1>2, PTL DEF Spec

(***************************************************************************)
(* Type correctness of senders, stream and receiver (dp_psend_start,       *)
(* dp_psend_data, dp_recv_packet), whatever send() does: what is delivered *)
(* is always a packet of this program.                                     *)
(***************************************************************************)
THEOREM TypeCorrect == Spec => []TypeOK
<1>1. TInv => TypeOK
  BY DEF TInv
<1> QED
  BY <1>1, TInvAlways, PTL

-----------------------------------------------------------------------------
(* The invariant, where send() fails only when the connection is gone.     *)

\* While the holder of the lock sends, or nobody holds it, no other sends.
LEMMA OneSends ==
  ASSUME LockHeld, conn = "up", NEW t \in Sender, pc[t] \in {"send", "sent"}
  PROVE  wlock = t /\ wlock # Nobody
  BY NobodyAssumption DEF LockHeld

LEMMA StreamSame ==
  ASSUME RunsInPlace, Receiving, UNCHANGED <<stream, rx>>
  PROVE  RunsInPlace' /\ Receiving'
  BY DEF RunsInPlace, Receiving, InPlace, Whole

LEMMA NotUp ==
  ASSUME conn' # "up"
  PROVE  LockHeld' /\ LastRun'
  BY DEF LockHeld, LastRun

LEMMA StartHolds ==
  ASSUME IInv, NEW s \in Sender, NEW p \in Packet, dp_psend_start(s, p)
  PROVE  IInv'
<1>1. TInv'
  BY TInvStart DEF IInv
<1>2. RunsInPlace' /\ Receiving'
  BY StreamSame DEF IInv, dp_psend_start
<1>3. /\ out'[s] = [id |-> sends + 1, pkt |-> p, part |-> 1, left |-> PL_HEADER]
      /\ pc'[s] = "send" /\ wlock' = s /\ conn' = conn /\ stream' = stream
      /\ \A t \in Sender \ {s} : out'[t] = out[t] /\ pc'[t] = pc[t]
  BY DEF IInv, TInv, TypeOK, dp_psend_start
<1>4. CASE conn = "up"
  <2>1. \A t \in Sender : pc[t] \notin {"send", "sent", "unlock2"}
    BY <1>4, OneSends DEF IInv, dp_psend_start, LockHeld
  <2>2. LockHeld'
    BY <1>3, <2>1 DEF LockHeld
  <2>3. stream = <<>> \/ Whole(stream[Len(stream)])
    BY <1>4, <2>1 DEF IInv, LastRun
  <2>4. Position(out'[s]) = 0
    <3> DEFINE o == out'[s]
    <3>1. o.pkt \in Packet /\ o.part = 1 /\ o.left = 4
      BY <1>3 DEF PL_HEADER
    <3>2. o.part \in 1..Len(Parts(o.pkt))
      BY <3>1, PartsSum
    <3> HIDE DEF o
    <3>3. Position(o) = 4 - o.left
      BY <3>1, <3>2, PositionIs
    <3> QED
      BY <3>1, <3>3 DEF o
  <2>5. LastRun'
    BY <1>3, <2>1, <2>3, <2>4 DEF LastRun, Whole
  <2> QED
    BY <1>1, <1>2, <2>2, <2>5 DEF IInv
<1>5. CASE conn # "up"
  BY <1>1, <1>2, <1>3, <1>5, NotUp DEF IInv
<1> QED
  BY <1>4, <1>5

LEMMA UnlockHolds ==
  ASSUME IInv, NEW s \in Sender, Unlock(s)
  PROVE  IInv'
<1>1. TInv'
  BY TInvSendStep DEF IInv, SendStep
<1>2. RunsInPlace' /\ Receiving'
  BY StreamSame DEF IInv, Unlock
<1>3. /\ pc'[s] = "idle" /\ pc[s] = "sent" /\ conn' = conn /\ stream' = stream
      /\ \A t \in Sender \ {s} : out'[t] = out[t] /\ pc'[t] = pc[t]
  BY DEF IInv, TInv, TypeOK, Unlock
<1>4. CASE conn = "up"
  <2>1. \A t \in Sender \ {s} : pc[t] \notin {"send", "sent", "unlock2"}
    BY <1>3, <1>4, OneSends DEF IInv, LockHeld
  <2>2. LockHeld'
    BY <1>3, <2>1 DEF LockHeld
  <2>3. stream = <<>> \/ Whole(stream[Len(stream)])
    BY <1>3, <1>4, <2>1 DEF IInv, LastRun
  <2>4. LastRun'
    BY <1>3, <2>1, <2>3 DEF LastRun, Whole
  <2> QED
    BY <1>1, <1>2, <2>2, <2>4 DEF IInv
<1>5. CASE conn # "up"
  BY <1>1, <1>2, <1>3, <1>5, NotUp DEF IInv
<1> QED
  BY <1>4, <1>5

\* What a sender that has the lock does to the stream: the last run is whole
\* before it begins, and is its own from then on.
LEMMA PutInPlace ==
  ASSUME IInv, NEW s \in Sender, pc[s] = "send", conn = "up",
         NEW k \in Nat, k = 0 => Position(out[s]) = Total(out[s].pkt),
         Position(out[s]) + k <= Total(out[s].pkt)
  PROVE  \/ /\ Put(s, k) = stream
            /\ Position(out[s]) + k = Total(out[s].pkt)
            /\ stream = <<>> \/ Whole(stream[Len(stream)])
         \/ LastIs(out[s]) /\ Longer(Put(s, k), k)
         \/ /\ k > 0 /\ Position(out[s]) = 0
            /\ stream = <<>> \/ Whole(stream[Len(stream)])
            /\ RunOf(out[s], k) \in Run
            /\ Put(s, k) = Append(stream, RunOf(out[s], k))
<1> DEFINE o == out[s]
           n == Len(stream)
<1>1. TypeOK /\ Sending(o)
  BY DEF IInv, TInv, SendersInPacket
<1>2. /\ Position(o) \in 0..Total(o.pkt) /\ Total(o.pkt) \in Nat
      /\ stream \in Seq(Run)
  BY <1>1, PositionRange, PartsSum DEF Sending, TypeOK
<1>3. \A t \in Sender \ {s} : pc[t] # "send"
  BY OneSends DEF IInv
<1>4. /\ stream = <<>> \/ Whole(stream[n]) \/ LastIs(o)
      /\ Position(o) \in 1..(Total(o.pkt) - 1) => LastIs(o)
  BY <1>3 DEF IInv, LastRun
<1>5. CASE k = 0
  <2>1. Put(s, k) = stream
    BY <1>5 DEF Put
  <2>2. stream = <<>> \/ Whole(stream[n])
    BY <1>4, <1>5 DEF LastIs, Whole
  <2>3. Position(o) + k = Total(o.pkt)
    BY <1>2, <1>5
  <2> QED
    BY <2>1, <2>2, <2>3
<1>6. CASE k > 0 /\ Position(o) > 0
  <2>1. LastIs(o)
    BY <1>2, <1>4, <1>6
  <2>2. Continues(o)
    BY <2>1 DEF LastIs, Continues
  <2> QED
    BY <1>1, <1>6, <2>1, <2>2, PutEffect
<1>7. CASE k > 0 /\ Position(o) = 0
  <2>1. stream # <<>> => stream[n].hi # 0
    <3> SUFFICES ASSUME stream # <<>> PROVE stream[n].hi # 0
      OBVIOUS
    <3>1. n \in 1..Len(stream) /\ stream[n] \in Run
      BY <1>2
    <3> QED
      BY <3>1 DEF IInv, RunsInPlace
  <2>2. ~Continues(o) /\ ~LastIs(o)
    BY <1>7, <2>1 DEF LastIs, Continues
  <2> QED
    BY <1>1, <1>4, <1>7, <2>2, PutEffect
<1> QED
  BY <1>2, <1>5, <1>6, <1>7

LEMMA SendSomeHolds ==
  ASSUME IInv, NEW s \in Sender, SendSome(s)
  PROVE  IInv'
<1> DEFINE o == out[s]
           n == Len(stream)
<1>1. TInv' /\ TInv
  BY TInvSendSome DEF IInv
<1>2. UNCHANGED <<wlock, sends, conn, rx, delivered>> /\ pc[s] = "send" /\ conn = "up"
  BY DEF SendSome
<1>3. PICK k \in Nat :
           /\ stream' = Put(s, k)
           /\ k = 0 => Position(o) = Total(o.pkt)
           /\ Position(o) + k <= Total(o.pkt)
           /\ \A t \in Sender \ {s} : out'[t] = out[t] /\ pc'[t] = pc[t]
           /\ out'[s].id = o.id /\ out'[s].pkt = o.pkt
           /\ \/ /\ pc'[s] = "sent" /\ out' = out
                 /\ Position(o) + k = Total(o.pkt)
              \/ pc' = pc /\ Position(out'[s]) = Position(o) + k
  BY <1>1, SendSomeEffect DEF TInv
<1>4. /\ wlock = s
      /\ \A t \in Sender \ {s} : pc[t] \notin {"send", "sent", "unlock2"}
  BY <1>2, OneSends DEF IInv, LockHeld
<1>5. /\ Position(o) \in Nat /\ Total(o.pkt) \in Nat /\ o.pkt \in Packet
      /\ stream \in Seq(Run) /\ stream' \in Seq(Run)
  <2>1. Sending(o)
    BY <1>1, <1>2 DEF TInv, SendersInPacket
  <2> QED
    BY <1>1, <2>1, PositionRange, PartsSum DEF TInv, TypeOK, Sending
<1>6. LockHeld'
  BY <1>2, <1>3, <1>4 DEF LockHeld
<1>7. \/ /\ stream' = stream
         /\ Position(o) + k = Total(o.pkt)
         /\ stream = <<>> \/ Whole(stream[n])
      \/ LastIs(o) /\ Longer(stream', k)
      \/ /\ k > 0 /\ Position(o) = 0
         /\ stream = <<>> \/ Whole(stream[n])
         /\ RunOf(o, k) \in Run
         /\ stream' = Append(stream, RunOf(o, k))
  BY <1>2, <1>3, PutInPlace
\* It is enough to know the last run.
<1>8. ASSUME \/ /\ stream' = <<>> \/ Whole(stream'[Len(stream')])
                /\ Position(o) + k = Total(o.pkt)
             \/ /\ stream' # <<>> /\ stream'[Len(stream')].id = o.id
                /\ stream'[Len(stream')].pkt = o.pkt
                /\ stream'[Len(stream')].hi = Position(o) + k
      PROVE  LastRun'
  <2>1. CASE pc'[s] = "sent"
    <3>1. stream' = <<>> \/ Whole(stream'[Len(stream')])
      BY <1>3, <1>8, <1>2, <2>1 DEF Whole
    <3>2. \A t \in Sender : pc'[t] # "send"
      BY <1>3, <1>4, <2>1
    <3> QED
      BY <3>1, <3>2 DEF LastRun, Whole
  <2>2. CASE pc'[s] # "sent"
    <3>1. pc' = pc /\ Position(out'[s]) = Position(o) + k
      BY <1>3, <2>2
    <3>2. \/ /\ stream' = <<>> \/ Whole(stream'[Len(stream')])
             /\ Position(out'[s]) = Total(out'[s].pkt)
          \/ LastIs(out[s])'
      BY <1>3, <1>8, <3>1 DEF LastIs
    <3>3. Position(out'[s]) = Total(out'[s].pkt) =>
            Position(out'[s]) \notin 1..(Total(out'[s].pkt) - 1)
      BY <1>3, <1>5
    <3> QED
      BY <1>2, <1>4, <3>1, <3>2, <3>3 DEF LastRun, Whole
  <2> QED
    BY <2>1, <2>2
<1>9. CASE /\ stream' = stream
           /\ Position(o) + k = Total(o.pkt)
           /\ stream = <<>> \/ Whole(stream[n])
  <2>1. RunsInPlace' /\ Receiving'
    BY <1>2, <1>9, StreamSame DEF IInv
  <2>2. LastRun'
    BY <1>8, <1>9
  <2> QED
    BY <1>1, <1>6, <2>1, <2>2 DEF IInv
<1>10. CASE LastIs(o) /\ Longer(stream', k)
  <2>1. /\ stream # <<>> /\ n \in 1..n /\ n \in Nat /\ Len(stream') = n /\ stream' # <<>>
        /\ stream[n].pkt = o.pkt /\ stream[n].hi = Position(o) /\ stream[n].id = o.id
        /\ \A i \in 1..(n - 1) : stream'[i] = stream[i]
        /\ stream'[n].id = o.id /\ stream'[n].pkt = o.pkt
        /\ stream'[n].lo = stream[n].lo /\ stream'[n].hi = Position(o) + k
    BY <1>5, <1>10 DEF LastIs, Longer
  <2>2. LastRun'
    BY <1>8, <2>1
  <2>3. RunsInPlace'
    <3> SUFFICES ASSUME NEW i \in 1..n
                 PROVE  /\ i > 1 \/ rx' = "header" => stream'[i].lo = 0
                        /\ i = 1 /\ rx' \in {"body", "rejected"} => stream'[i].lo = PL_HEADER
                        /\ stream'[i].lo = 0 \/ (i = 1 /\ stream'[i].lo = PL_HEADER)
                        /\ stream'[i].lo <= stream'[i].hi /\ 0 < stream'[i].hi
                        /\ stream'[i].hi <= Total(stream'[i].pkt)
                        /\ i < n => Whole(stream'[i])
      BY <2>1 DEF RunsInPlace, InPlace, Whole
    <3>1. /\ i > 1 \/ rx = "header" => stream[i].lo = 0
          /\ i = 1 /\ rx \in {"body", "rejected"} => stream[i].lo = PL_HEADER
          /\ stream[i].lo = 0 \/ (i = 1 /\ stream[i].lo = PL_HEADER)
          /\ stream[i].lo <= stream[i].hi /\ 0 < stream[i].hi
          /\ stream[i].hi <= Total(stream[i].pkt)
          /\ i < n => Whole(stream[i])
      BY DEF IInv, RunsInPlace, InPlace
    <3>2. CASE i # n
      <4>1. stream'[i] = stream[i] /\ rx' = rx
        BY <1>2, <2>1, <3>2
      <4> QED
        BY <3>1, <4>1
    <3>3. CASE i = n
      <4>0. stream[n] \in Run
        BY <1>5, <2>1
      <4>1. stream[n].lo \in Nat
        BY <4>0 DEF Run
      <4>2. /\ stream'[i].lo = stream[i].lo /\ rx' = rx
            /\ stream'[i].hi = Position(o) + k /\ stream[i].hi = Position(o)
            /\ stream'[i].pkt = o.pkt
        BY <1>2, <2>1, <3>3
      <4>3. stream'[i].lo <= stream'[i].hi /\ 0 < stream'[i].hi
        BY <1>5, <3>1, <3>3, <4>1, <4>2
      <4>4. stream'[i].hi <= Total(stream'[i].pkt)
        BY <1>3, <4>2
      <4> QED
        BY <3>1, <3>3, <4>2, <4>3, <4>4
    <3> QED
      BY <3>2, <3>3
  <2>4. Receiving'
    <3>1. stream'[1].pkt = stream[1].pkt
      <4>1. 1 \in 1..n
        BY <2>1
      <4> QED
        BY <2>1, <4>1
    <3> QED
      BY <1>2, <2>1, <3>1 DEF IInv, Receiving
  <2> QED
    BY <1>1, <1>6, <2>2, <2>3, <2>4 DEF IInv
<1>11. CASE /\ k > 0 /\ Position(o) = 0
            /\ stream = <<>> \/ Whole(stream[n])
            /\ RunOf(o, k) \in Run
            /\ stream' = Append(stream, RunOf(o, k))
  <2> DEFINE r == RunOf(o, k)
  <2>1. r.id = o.id /\ r.pkt = o.pkt /\ r.lo = 0 /\ r.hi = k
    BY <1>11 DEF RunOf
  <2>2. r \in Run /\ stream' = Append(stream, r)
    BY <1>11
  <2> HIDE DEF r
  <2>3. /\ n \in Nat /\ Len(stream') = n + 1 /\ stream' # <<>> /\ stream'[n + 1] = r
        /\ \A i \in 1..n : stream'[i] = stream[i]
    BY <1>5, <2>2
  <2>4. LastRun'
    BY <1>8, <1>11, <2>1, <2>3
  <2>5. RunsInPlace'
    <3> SUFFICES ASSUME NEW i \in 1..(n + 1)
                 PROVE  /\ i > 1 \/ rx' = "header" => stream'[i].lo = 0
                        /\ i = 1 /\ rx' \in {"body", "rejected"} => stream'[i].lo = PL_HEADER
                        /\ stream'[i].lo = 0 \/ (i = 1 /\ stream'[i].lo = PL_HEADER)
                        /\ stream'[i].lo <= stream'[i].hi /\ 0 < stream'[i].hi
                        /\ stream'[i].hi <= Total(stream'[i].pkt)
                        /\ i < n + 1 => Whole(stream'[i])
      BY <2>3 DEF RunsInPlace, InPlace, Whole
    <3>1. CASE i = n + 1
      <4>1. rx \in {"body", "rejected"} => n > 0
        BY <1>5, <2>3 DEF IInv, Receiving
      <4>2. stream'[i].lo = 0 /\ stream'[i].hi = k /\ stream'[i].pkt = o.pkt /\ rx' = rx
        BY <1>2, <2>1, <2>3, <3>1
      <4>3. k <= Total(o.pkt)
        BY <1>3, <1>11
      <4> QED
        BY <1>11, <2>3, <3>1, <4>1, <4>2, <4>3
    <3>2. CASE i # n + 1
      <4>1. i \in 1..n /\ stream'[i] = stream[i] /\ rx' = rx
        BY <1>2, <2>3, <3>2
      <4>2. i = n => Whole(stream[i])
        BY <1>11, <4>1
      <4>3. /\ i > 1 \/ rx = "header" => stream[i].lo = 0
            /\ i = 1 /\ rx \in {"body", "rejected"} => stream[i].lo = PL_HEADER
            /\ stream[i].lo = 0 \/ (i = 1 /\ stream[i].lo = PL_HEADER)
            /\ stream[i].lo <= stream[i].hi /\ 0 < stream[i].hi
            /\ stream[i].hi <= Total(stream[i].pkt)
            /\ i < n => Whole(stream[i])
        BY <4>1 DEF IInv, RunsInPlace, InPlace
      <4>4. Whole(stream[i])
        BY <2>3, <4>1, <4>2, <4>3
      <4> QED
        BY <4>1, <4>3, <4>4
    <3> QED
      BY <3>1, <3>2
  <2>6. Receiving'
    <3>1. rx \in {"body", "rejected"} => stream'[1] = stream[1]
      BY <1>5, <2>3 DEF IInv, Receiving
    <3> QED
      BY <1>2, <2>3, <3>1 DEF IInv, Receiving
  <2> QED
    BY <1>1, <1>6, <2>4, <2>5, <2>6 DEF IInv
<1> QED
  BY <1>7, <1>9, <1>10, <1>11

LEMMA SendStepHolds ==
  ASSUME IInv, "nobufs" \notin Errors, NEW s \in Sender, SendStep(s)
  PROVE  IInv'
<1>1. TInv'
  BY TInvSendStep DEF IInv
<1>2. CASE SendFails(s)
  <2>1. conn' = "broken" /\ UNCHANGED <<stream, rx>>
    BY <1>2 DEF SendFails
  <2> QED
    BY <1>1, <2>1, NotUp, StreamSame DEF IInv
<1>3. CASE UnlockAgain(s)
  <2>1. conn' # "up" /\ UNCHANGED <<stream, rx>>
    BY <1>3 DEF UnlockAgain, IInv, LockHeld
  <2> QED
    BY <1>1, <2>1, NotUp, StreamSame DEF IInv
<1>4. CASE SendKills(s)
  <2>1. conn' # "up" /\ UNCHANGED <<stream, rx>>
    BY <1>4 DEF SendKills
  <2> QED
    BY <1>1, <2>1, NotUp, StreamSame DEF IInv
<1> QED
  BY <1>2, <1>3, <1>4, StartHolds, SendSomeHolds, UnlockHolds DEF SendStep

-----------------------------------------------------------------------------
(* The receiver.                                                           *)

\* The first run, when there is one.
LEMMA FirstRun ==
  ASSUME IInv, stream # <<>>
  PROVE  /\ stream \in Seq(Run) /\ Len(stream) \in Nat /\ 1 \in 1..Len(stream)
         /\ stream[1] \in Run /\ stream[1].pkt \in Packet
         /\ stream[1].lo \in Nat /\ stream[1].hi \in Nat
         /\ rx = "header" => stream[1].lo = 0
         /\ rx \in {"body", "rejected"} => stream[1].lo = 4
         /\ stream[1].lo <= stream[1].hi
         /\ stream[1].hi <= Total(stream[1].pkt)
         /\ Len(stream) > 1 => Whole(stream[1])
<1>1. stream \in Seq(Run)
  BY DEF IInv, TInv, TypeOK
<1>2. 1 \in 1..Len(stream) /\ stream[1] \in Run /\ Len(stream) \in Nat
  BY <1>1
<1>3. stream[1].pkt \in Packet /\ stream[1].lo \in Nat /\ stream[1].hi \in Nat
  BY <1>2 DEF Run
<1> QED
  BY <1>1, <1>2, <1>3 DEF IInv, RunsInPlace, PL_HEADER

\* A header is always at the beginning of a packet, and in one run.
LEMMA HeaderInPlace ==
  ASSUME IInv, dp_recv_header
  PROVE  /\ stream # <<>> /\ stream[1].lo = 0 /\ 4 <= stream[1].hi
         /\ rx' = "body" /\ stream' = [stream EXCEPT ![1].lo = 4]
<1>1. stream # <<>>
  BY DEF dp_recv_header, Arrived, IInv, TInv, TypeOK
<1>2. stream[1].lo = 0 /\ stream[1].hi \in Nat
  BY <1>1, FirstRun DEF dp_recv_header
<1>3. stream[1].hi >= 4
  <2>1. CASE Len(stream) > 1
    BY <1>1, <2>1, FirstRun, PacketFields DEF Whole
  <2>2. CASE ~(Len(stream) > 1)
    BY <1>2, <2>2 DEF dp_recv_header, Arrived, PL_HEADER
  <2> QED
    BY <2>1, <2>2
<1>4. InRun(PL_HEADER)
  BY <1>2, <1>3 DEF InRun, PL_HEADER
<1> QED
  BY <1>1, <1>2, <1>3, <1>4 DEF dp_recv_header, PL_HEADER

\* The body of a packet is in one run; if the handler takes it, nothing of
\* the run is left.
LEMMA BodyInPlace ==
  ASSUME IInv, dp_recv_packet
  PROVE  /\ stream # <<>>
         /\ \/ /\ Accepted(stream[1].pkt) /\ Whole(stream[1])
               /\ rx' = "header" /\ stream' = Tail(stream)
               /\ delivered' = Append(delivered, stream[1].pkt)
            \/ /\ ~Accepted(stream[1].pkt)
               /\ rx' = "rejected" /\ UNCHANGED <<stream, delivered>>
<1> DEFINE p == stream[1].pkt
<1>1. stream # <<>> /\ rx = "body"
  BY DEF dp_recv_packet, IInv, Receiving
<1>2. /\ stream[1].lo = 4 /\ stream[1].hi \in Nat /\ p \in Packet
      /\ stream[1].hi <= Total(p) /\ Len(stream) > 1 => Whole(stream[1])
  BY <1>1, FirstRun
<1>3. Total(p) \in Nat
  BY <1>2, PacketFields
<1>4. BodyLen(p) \in Nat /\ BodyLen(p) <= Total(p) - 4
  BY <1>2, BodyFits
<1>5. InRun(BodyLen(p))
  <2>1. CASE Len(stream) > 1
    BY <1>1, <1>2, <1>3, <1>4, <2>1, FirstRun DEF InRun, Whole
  <2>2. CASE ~(Len(stream) > 1)
    BY <2>2 DEF dp_recv_packet, Arrived, InRun
  <2> QED
    BY <2>1, <2>2
<1>6. CASE Accepted(p)
  <2>1. BodyLen(p) = Total(p) - 4 /\ Read(p) = p
    BY <1>2, <1>6, BodyFits
  <2>2. stream[1].hi = Total(p) /\ stream[1].hi - stream[1].lo = BodyLen(p)
    <3>1. stream[1].hi - 4 >= Total(p) - 4
      BY <1>2, <1>5, <2>1 DEF InRun
    <3> QED
      BY <1>1, <1>2, <1>3, <2>1, <3>1, FirstRun
  <2>3. Rest(BodyLen(p)) = Tail(stream)
    BY <2>2 DEF Rest
  <2> QED
    BY <1>1, <1>5, <1>6, <2>1, <2>2, <2>3 DEF dp_recv_packet, Whole
<1>7. CASE ~Accepted(p)
  BY <1>1, <1>5, <1>7 DEF dp_recv_packet
<1> QED
  BY <1>6, <1>7

LEMMA HeaderHolds ==
  ASSUME IInv, dp_recv_header
  PROVE  IInv'
<1> DEFINE n == Len(stream)
<1>1. TInv'
  BY TInvRecv DEF IInv, RecvStep
<1>2. /\ stream # <<>> /\ stream[1].lo = 0 /\ 4 <= stream[1].hi
      /\ rx = "header" /\ rx' = "body" /\ stream' = [stream EXCEPT ![1].lo = 4]
      /\ UNCHANGED <<wlock, pc, out, conn>>
  BY HeaderInPlace DEF dp_recv_header
<1>3. stream \in Seq(Run) /\ n \in Nat /\ n >= 1
  BY <1>2, FirstRun
<1>4. /\ Len(stream') = n /\ stream' # <<>>
      /\ stream'[1].lo = 4 /\ stream'[1].hi = stream[1].hi
      /\ stream'[1].pkt = stream[1].pkt /\ stream'[1].id = stream[1].id
      /\ \A i \in 2..n : stream'[i] = stream[i]
  BY <1>2, <1>3, TakeFromFirst
<1>5. \A i \in 1..n : /\ stream'[i].hi = stream[i].hi /\ stream'[i].pkt = stream[i].pkt
                      /\ stream'[i].id = stream[i].id
                      /\ Whole(stream[i]) <=> Whole(stream'[i])
  <2> SUFFICES ASSUME NEW i \in 1..n
               PROVE  /\ stream'[i].hi = stream[i].hi /\ stream'[i].pkt = stream[i].pkt
                      /\ stream'[i].id = stream[i].id
    BY DEF Whole
  <2>1. i = 1 \/ i \in 2..n
    BY <1>3
  <2> QED
    BY <1>4, <2>1
<1>6. RunsInPlace'
  <2> SUFFICES ASSUME NEW i \in 1..n
               PROVE  /\ i > 1 => stream'[i].lo = 0
                      /\ i = 1 => stream'[i].lo = 4
                      /\ stream'[i].lo <= stream'[i].hi /\ 0 < stream'[i].hi
                      /\ stream'[i].hi <= Total(stream'[i].pkt)
                      /\ i < n => Whole(stream'[i])
    BY <1>2, <1>4 DEF RunsInPlace, InPlace, Whole, PL_HEADER
  <2>1. /\ i > 1 => stream[i].lo = 0
        /\ stream[i].lo <= stream[i].hi /\ 0 < stream[i].hi
        /\ stream[i].hi <= Total(stream[i].pkt)
        /\ i < n => Whole(stream[i])
    BY DEF IInv, RunsInPlace
  <2>2. CASE i = 1
    BY <1>2, <1>4, <1>5, <2>1, <2>2
  <2>3. CASE i # 1
    <3>1. stream'[i] = stream[i] /\ i > 1
      BY <1>3, <1>4, <2>3
    <3> QED
      BY <2>1, <2>3, <3>1
  <2> QED
    BY <2>2, <2>3
<1>7. LastRun'
  <2>1. n \in 1..n
    BY <1>3
  <2>2. /\ \A o : LastIs(o) => /\ stream'[Len(stream')].id = o.id
                               /\ stream'[Len(stream')].pkt = o.pkt
                               /\ stream'[Len(stream')].hi = Position(o)
        /\ Whole(stream[n]) => Whole(stream'[Len(stream')])
    BY <1>4, <1>5, <2>1 DEF LastIs
  <2> QED
    BY <1>2, <1>4, <2>2 DEF IInv, LastRun, LastIs, Whole
<1>8. LockHeld' /\ Receiving'
  BY <1>2, <1>4 DEF IInv, LockHeld, Receiving
<1> QED
  BY <1>1, <1>6, <1>7, <1>8 DEF IInv

LEMMA PacketHolds ==
  ASSUME IInv, dp_recv_packet
  PROVE  IInv'
<1> DEFINE n == Len(stream)
<1>1. TInv'
  BY TInvRecv DEF IInv, RecvStep
<1>2. UNCHANGED <<wlock, pc, out, conn>> /\ rx = "body" /\ stream # <<>>
  BY BodyInPlace DEF dp_recv_packet
<1>3. LockHeld'
  BY <1>2 DEF IInv, LockHeld
<1>4. CASE ~Accepted(stream[1].pkt) /\ rx' = "rejected" /\ UNCHANGED stream
  <2>1. LastRun'
    BY <1>2, <1>4 DEF IInv, LastRun, LastIs, Whole
  <2>2. RunsInPlace'
    BY <1>2, <1>4 DEF IInv, RunsInPlace, InPlace, Whole
  <2>3. Receiving'
    BY <1>2, <1>4 DEF Receiving
  <2> QED
    BY <1>1, <1>3, <2>1, <2>2, <2>3 DEF IInv
<1>5. CASE Whole(stream[1]) /\ rx' = "header" /\ stream' = Tail(stream)
  <2>1. /\ n \in Nat /\ n >= 1 /\ Len(stream') = n - 1
        /\ \A i \in 1..(n - 1) : stream'[i] = stream[i + 1]
    BY <1>2, <1>5, FirstRun
  <2>2. RunsInPlace'
    <3> SUFFICES ASSUME NEW i \in 1..(n - 1)
                 PROVE  /\ stream'[i].lo = 0
                        /\ stream'[i].lo <= stream'[i].hi /\ 0 < stream'[i].hi
                        /\ stream'[i].hi <= Total(stream'[i].pkt)
                        /\ i < n - 1 => Whole(stream'[i])
      BY <1>5, <2>1 DEF RunsInPlace, InPlace, Whole
    <3>1. stream'[i] = stream[i + 1] /\ i + 1 \in 1..n /\ i + 1 > 1
      BY <2>1
    <3>2. /\ stream[i + 1].lo = 0
          /\ stream[i + 1].lo <= stream[i + 1].hi /\ 0 < stream[i + 1].hi
          /\ stream[i + 1].hi <= Total(stream[i + 1].pkt)
          /\ i + 1 < n => Whole(stream[i + 1])
      BY <3>1 DEF IInv, RunsInPlace
    <3> QED
      BY <2>1, <3>1, <3>2
  <2>3. Receiving'
    BY <1>5 DEF Receiving
  <2>4. LastRun'
    <3> SUFFICES ASSUME conn = "up" PROVE LastRun'
      BY <1>2, NotUp
    <3>1. CASE n = 1
      <4>1. stream' = <<>>
        BY <1>1, <2>1, <3>1 DEF TInv, TypeOK
      <4>2. ASSUME NEW s \in Sender, pc[s] = "send",
                   Position(out[s]) \in 1..(Total(out[s].pkt) - 1)
            PROVE  FALSE
        <5>1. LastIs(out[s])
          BY <4>2 DEF IInv, LastRun
        <5>2. Position(out[s]) = Total(out[s].pkt)
          BY <1>5, <3>1, <5>1 DEF LastIs, Whole
        <5>3. Total(out[s].pkt) \in Nat
          BY <4>2, PartsSum DEF IInv, TInv, SendersInPacket, Sending
        <5> QED
          BY <4>2, <5>2, <5>3
      <4> QED
        BY <1>2, <4>1, <4>2 DEF LastRun
    <3>2. CASE n > 1
      <4>1. /\ stream' # <<>> /\ stream'[Len(stream')] = stream[n]
        <5>1. n - 1 \in 1..(n - 1) /\ (n - 1) + 1 = n
          BY <2>1, <3>2
        <5> QED
          BY <1>1, <2>1, <3>2, <5>1 DEF TInv, TypeOK
      <4> QED
        BY <1>2, <4>1 DEF IInv, LastRun, LastIs, Whole
    <3> QED
      BY <2>1, <3>1, <3>2
  <2> QED
    BY <1>1, <1>3, <2>2, <2>3, <2>4 DEF IInv
<1> QED
  BY <1>4, <1>5, BodyInPlace

LEMMA IInvStep ==
  ASSUME IInv, "nobufs" \notin Errors, [Next]_vars
  PROVE  IInv'
<1>1. CASE Reset
  <2>1. TInv'
    BY <1>1, TInvStream DEF Reset, IInv, TInv, TypeOK
  <2>2. conn' # "up" /\ UNCHANGED <<stream, rx>>
    BY <1>1 DEF Reset
  <2> QED
    BY <2>1, <2>2, NotUp, StreamSame DEF IInv
<1>2. CASE RecvFails
  <2>1. TInv'
    BY <1>2, TInvRecv DEF RecvStep, IInv
  <2>2. conn' # "up" /\ UNCHANGED stream /\ rx' = "ended"
    BY <1>2 DEF RecvFails
  <2>3. RunsInPlace'
    BY <2>2 DEF IInv, RunsInPlace, InPlace, Whole
  <2>4. Receiving'
    BY <2>2 DEF Receiving
  <2> QED
    BY <2>1, <2>2, <2>3, <2>4, NotUp DEF IInv
<1>3. CASE UNCHANGED vars
  <2>1. TInv'
    BY <1>3 DEF vars, IInv, TInv, TypeOK, SendersInPacket, Sending
  <2>2. LockHeld' /\ LastRun'
    BY <1>3 DEF vars, IInv, LockHeld, LastRun, LastIs, Whole
  <2> QED
    BY <1>3, <2>1, <2>2, StreamSame DEF vars, IInv
<1> QED
  BY <1>1, <1>2, <1>3, HeaderHolds, PacketHolds, SendStepHolds DEF Next, RecvStep

LEMMA IInvInit == Init => IInv
<1> SUFFICES ASSUME Init PROVE IInv
  OBVIOUS
<1>1. TInv
  <2>1. Idle \in [id : 0..MaxSends, pkt : [type : {"probe", "data", "graph"}, n : Nat],
                  part : 1..3, left : Nat]
    BY MaxSendsAssumption DEF Idle, PL_PROBE
  <2> QED
    BY <2>1, MaxSendsAssumption DEF Init, TInv, TypeOK, SendersInPacket
<1>2. LockHeld /\ LastRun /\ Receiving
  BY DEF Init, LockHeld, LastRun, Receiving
<1>3. RunsInPlace
  BY DEF Init, RunsInPlace
<1> QED
  BY <1>1, <1>2, <1>3 DEF IInv

LEMMA IInvAlways ==
  ASSUME "nobufs" \notin Errors
  PROVE  Spec => []IInv
<1>1. IInv /\ [Next]_vars => IInv'
  BY IInvStep
<1> QED
  BY <1>1, IInvInit, PTL DEF Spec

(***************************************************************************)
(* On a connection on which a send() fails only when the connection is     *)
(* gone, a thread holds dp->wlock from the first byte of its packet to the *)
(* last (dp_psend_start, dp_psend_data, dpeer.c:21 and 40), for any number *)
(* of threads.                                                             *)
(***************************************************************************)
THEOREM LockIsHeld ==
  ASSUME "nobufs" \notin Errors
  PROVE  Spec => []LockedWhileUp
<1>1. IInv => LockedWhileUp
  BY DEF IInv, LockHeld, LockedWhileUp
<1> QED
  BY <1>1, IInvAlways, PTL

(***************************************************************************)
(* The receiver never loses the boundaries of packets, and rejects none    *)
(* but link graphs of more than 1820 edges, for every number of edges that *)
(* edge_ct can hold.                                                       *)
(***************************************************************************)
THEOREM OnlyOverlongRejected ==
  ASSUME "nobufs" \notin Errors
  PROVE  Spec => []RejectsOverlongOnly
<1>1. IInv => RejectsOverlongOnly
  <2> SUFFICES ASSUME IInv PROVE RejectsOverlongOnly
    OBVIOUS
  <2>1. ASSUME rx = "rejected" PROVE stream[1].pkt.n > 1820
    <3>1. stream # <<>> /\ ~Accepted(stream[1].pkt)
      BY <2>1 DEF IInv, Receiving
    <3>2. stream[1].pkt \in Packet
      BY <3>1, FirstRun
    <3> QED
      BY <3>1, <3>2, BodyFits
  <2> QED
    BY <2>1 DEF IInv, Receiving, RejectsOverlongOnly
<1> QED
  BY <1>1, IInvAlways, PTL

-----------------------------------------------------------------------------
(* The stream implements the queue.                                        *)

LEMMA QueueIs ==
  ASSUME RunsInPlace, stream \in Seq(Run)
  PROVE  Queue = [i \in 1..Len(stream) |-> stream[i].pkt]
<1>1. DOMAIN stream = 1..Len(stream)
  OBVIOUS
<1> QED
  BY <1>1 DEF RunsInPlace, Queue

LEMMA AppendIs ==
  ASSUME NEW S, NEW q \in Seq(S), NEW e \in S
  PROVE  Append(q, e) = [i \in 1..(Len(q) + 1) |-> IF i = Len(q) + 1 THEN e ELSE q[i]]
<1> DEFINE z == [i \in 1..(Len(q) + 1) |-> IF i = Len(q) + 1 THEN e ELSE q[i]]
<1>1. z \in Seq(S) /\ Len(z) = Len(q) + 1
  OBVIOUS
<1>2. /\ Append(q, e) \in Seq(S) /\ Len(Append(q, e)) = Len(q) + 1
      /\ \A i \in 1..(Len(q) + 1) : Append(q, e)[i] = z[i]
  BY AppendProperties
<1> HIDE DEF z
<1>3. Append(q, e) = z
  BY <1>1, <1>2, SeqEqual
<1> QED
  BY <1>3 DEF z

LEMMA TailIs ==
  ASSUME NEW S, NEW q \in Seq(S), q # <<>>
  PROVE  Tail(q) = [i \in 1..(Len(q) - 1) |-> q[i + 1]]
<1> DEFINE z == [i \in 1..(Len(q) - 1) |-> q[i + 1]]
<1>0. Len(q) \in Nat /\ Len(q) - 1 \in Nat /\ \A i \in 1..(Len(q) - 1) : q[i + 1] \in S
  OBVIOUS
<1>1. z \in Seq(S) /\ Len(z) = Len(q) - 1
  BY <1>0
<1>2. /\ Tail(q) \in Seq(S) /\ Len(Tail(q)) = Len(q) - 1
      /\ \A i \in 1..(Len(q) - 1) : Tail(q)[i] = z[i]
  BY HeadTailProperties
<1> HIDE DEF z
<1>3. Tail(q) = z
  BY <1>1, <1>2, SeqEqual
<1> QED
  BY <1>3 DEF z

LEMMA RefinesStep ==
  ASSUME IInv, IInv', [Next]_vars
  PROVE  [PC!Next]_(PC!vars)
<1> DEFINE n == Len(stream)
<1>0. stream \in Seq(Run) /\ stream' \in Seq(Run) /\ n \in Nat /\ delivered \in Seq(Packet)
  BY DEF IInv, TInv, TypeOK
<1>1. Queue = [i \in 1..n |-> stream[i].pkt]
  BY <1>0, QueueIs DEF IInv
<1>9. Queue \in Seq(Packet) /\ Len(Queue) = n /\ \A i \in 1..n : Queue[i] = stream[i].pkt
  <2>1. \A i \in 1..n : stream[i] \in Run
    BY <1>0
  <2>2. \A i \in 1..n : stream[i].pkt \in Packet
    BY <2>1 DEF Run
  <2> QED
    BY <1>0, <1>1, <2>2
<1>2. Queue' = [i \in 1..Len(stream') |-> stream'[i].pkt]
  <2>1. /\ DOMAIN stream' = 1..Len(stream')
        /\ \A i \in 1..Len(stream') : InPlace(i)'
    BY <1>0 DEF IInv, RunsInPlace
  <2> QED
    BY <2>1 DEF Queue
<1>3. ASSUME Len(stream') = n, \A i \in 1..n : stream'[i].pkt = stream[i].pkt,
             delivered' = delivered
      PROVE  UNCHANGED PC!vars
  BY <1>1, <1>2, <1>3 DEF PC!vars
<1>4. CASE \E s \in Sender : SendSome(s)
  <2>1. PICK s \in Sender : SendSome(s)
    BY <1>4
  <2>2. TypeOK /\ SendersInPacket /\ pc[s] = "send" /\ conn = "up" /\ delivered' = delivered
    BY <2>1 DEF IInv, TInv, SendSome
  <2>3. PICK k \in Nat : /\ stream' = Put(s, k)
                         /\ k = 0 => Position(out[s]) = Total(out[s].pkt)
                         /\ Position(out[s]) + k <= Total(out[s].pkt)
    BY <2>1, <2>2, SendSomeEffect
  <2>4. CASE stream' = stream
    BY <1>3, <2>2, <2>4
  <2>5. CASE LastIs(out[s]) /\ Longer(stream', k)
    <3>1. /\ Len(stream') = n /\ \A i \in 1..(n - 1) : stream'[i] = stream[i]
          /\ stream'[n].pkt = stream[n].pkt
      BY <2>5 DEF Longer
    <3>2. \A i \in 1..n : stream'[i].pkt = stream[i].pkt
      BY <1>0, <3>1
    <3> QED
      BY <1>3, <2>2, <3>1, <3>2
  <2>6. CASE RunOf(out[s], k) \in Run /\ stream' = Append(stream, RunOf(out[s], k))
    <3> DEFINE r == RunOf(out[s], k)
               p == r.pkt
    <3>1. p \in Packet
      BY <2>6 DEF Run
    <3>2. r \in Run /\ stream' = Append(stream, r)
      BY <2>6
    <3> HIDE DEF r
    <3>3. Len(stream') = n + 1 /\ stream'[n + 1] = r /\ \A i \in 1..n : stream'[i] = stream[i]
      BY <1>0, <3>2
    <3>4. Queue' = Append(Queue, p)
      <4> HIDE DEF p
      <4>1. Append(Queue, p) = [i \in 1..(n + 1) |-> IF i = n + 1 THEN p ELSE Queue[i]]
        BY <1>9, <3>1, AppendIs
      <4>2. \A i \in 1..(n + 1) :
              stream'[i].pkt = IF i = n + 1 THEN p ELSE Queue[i]
        BY <1>0, <1>9, <3>3 DEF p
      <4> QED
        BY <1>2, <3>3, <4>1, <4>2
    <3>5. PC!Send(p)
      BY <2>2, <3>4 DEF PC!Send
    <3> QED
      BY <3>1, <3>5 DEF PC!Next
  <2> QED
    BY <2>2, <2>3, <2>4, <2>5, <2>6, PutInPlace
<1>5. CASE dp_recv_header
  <2>1. /\ stream # <<>> /\ stream' = [stream EXCEPT ![1].lo = 4]
        /\ delivered' = delivered
    BY <1>5, HeaderInPlace DEF dp_recv_header
  <2>2. /\ Len(stream') = n /\ stream'[1].pkt = stream[1].pkt
        /\ \A i \in 2..n : stream'[i] = stream[i]
    BY <1>0, <2>1, TakeFromFirst
  <2>3. \A i \in 1..n : stream'[i].pkt = stream[i].pkt
    BY <1>0, <2>2
  <2> QED
    BY <1>3, <2>1, <2>2, <2>3
<1>6. CASE dp_recv_packet
  <2>1. CASE UNCHANGED <<stream, delivered>>
    BY <1>3, <2>1
  <2>2. CASE ~UNCHANGED <<stream, delivered>>
    <3>1. /\ stream # <<>> /\ stream' = Tail(stream)
          /\ delivered' = Append(delivered, stream[1].pkt)
      BY <1>6, <2>2, BodyInPlace
    <3>2. n >= 1 /\ Len(stream') = n - 1 /\ \A i \in 1..(n - 1) : stream'[i] = stream[i + 1]
      BY <1>0, <3>1
    <3>4. Queue # <<>> /\ Head(Queue) = stream[1].pkt
      BY <1>9, <3>2
    <3>5. Queue' = Tail(Queue)
      <4>1. Tail(Queue) = [i \in 1..(n - 1) |-> Queue[i + 1]]
        BY <1>9, <3>4, TailIs
      <4>2. \A i \in 1..(n - 1) : stream'[i].pkt = Queue[i + 1]
        BY <1>0, <1>9, <3>2
      <4> QED
        BY <1>2, <3>2, <4>1, <4>2
    <3>6. PC!Deliver
      BY <3>1, <3>4, <3>5 DEF PC!Deliver
    <3> QED
      BY <3>6 DEF PC!Next
  <2> QED
    BY <2>1, <2>2
<1>7. CASE UNCHANGED <<stream, delivered>>
  BY <1>3, <1>7
<1>8. \/ \E s \in Sender : SendSome(s)
      \/ dp_recv_header \/ dp_recv_packet
      \/ UNCHANGED <<stream, delivered>>
  BY DEF Next, vars, RecvStep, SendStep, Reset, RecvFails, dp_psend_start, Unlock,
         SendFails, UnlockAgain, SendKills
<1> QED
  BY <1>4, <1>5, <1>6, <1>7, <1>8

(***************************************************************************)
(* One direction of a connection implements PacketChannel: for any number  *)
(* of threads that share it, any packets and any way in which send()       *)
(* divides them, packets arrive whole and in the order they were begun,    *)
(* and the receiver delivers nothing that was not sent.                    *)
(***************************************************************************)
THEOREM ConnectionDeliversPackets ==
  ASSUME "nobufs" \notin Errors
  PROVE  Spec => DeliversPackets
<1>1. Init => PC!Init
  <2> SUFFICES ASSUME Init PROVE PC!Init
    OBVIOUS
  <2>1. Queue = <<>> /\ delivered = <<>>
    BY DEF Init, Queue
  <2> QED
    BY <2>1 DEF PC!Init
<1>2. IInv /\ IInv' /\ [Next]_vars => [PC!Next]_(PC!vars)
  BY RefinesStep
<1> QED
  BY <1>1, <1>2, IInvAlways, PTL DEF Spec, DeliversPackets, PC!Spec
=============================================================================
