----------------------------- MODULE LinkProofs -----------------------------
(***************************************************************************)
(* The connection between two nodes (dp_th, dpg_send_linkstate and the tap *)
(* reader), for any capacity, any multiple of the timer and any faults.    *)
(***************************************************************************)
EXTENDS Link, SequenceTheorems, FiniteSetTheorems, TLAPS

\* As long as a thread is there its last probe has a number; a thread that is
\* to answer a probe has one to answer with.
Numbered ==
  \A n \in Node :
    /\ th[n] \notin Ended => seq[n] \in Seqs
    /\ th[n] = "resp" => todo[n] \in Seqs

(***************************************************************************)
(* The locks of a node are held nowhere but where the code is between      *)
(* taking and releasing them: the read lock of the routing table by the    *)
(* peer thread inside dpg_send_linkstate or while it sends to this node's  *)
(* own host, and by the tap reader that sends, the lock of the connection  *)
(* by a thread that is inside a send.  (Whether a thread inside a send     *)
(* still has the lock of the connection is not said: the second unlock of  *)
(* dp_psend_start may take it away.)                                       *)
(***************************************************************************)
LocksInUse ==
  \A n \in Node :
    /\ "peer" \in rd[n] <=> th[n] \in {"graph", "graph_failed", "stray", "hung"}
    /\ "tap" \in rd[n] <=> tap[n] \in {"send", "failed"}
    /\ wlock[n] = "peer" => th[n] \in Sending
    /\ wlock[n] = "tap" => tap[n] = "send"

IInv == TypeOK /\ Numbered /\ LocksInUse

\* The two parts of TypeOK: the connections, and all the rest.
ChannelsOK(c) ==
  c \in [Node -> Seq(Packet)] /\ \A n \in Node : Len(c[n]) <= Cap

ThreadsOK ==
  /\ th \in [Node -> {"relink", "update", "leave", "stray"}
                       \cup Waiting \cup Sending \cup Failed \cup Lost]
  /\ tap \in [Node -> {"none", "read", "send", "failed"}]
  /\ todo \in [Node -> {0} \cup Seqs]
  /\ wlock \in [Node -> {"none", "peer", "tap"}]
  /\ rd \in [Node -> SUBSET {"peer", "tap"}]
  /\ seq \in [Node -> {0} \cup Seqs]
  /\ ct \in [Node -> 0..(LinkMult - 1)]
  /\ late \subseteq Slow

LEMMA TypeParts ==
  /\ TypeOK <=> ThreadsOK /\ ChannelsOK(chan)
  /\ TypeOK' <=> ThreadsOK' /\ ChannelsOK(chan')
  BY DEF TypeOK, ThreadsOK, ChannelsOK

LEMMA OtherIsNode == \A n \in Node : Other(n) \in Node /\ Other(n) # n
<1> SUFFICES ASSUME NEW n \in Node PROVE \E m \in Node : m # n
  BY DEF Other
<1> SUFFICES ASSUME Node = {n} PROVE FALSE
  OBVIOUS
<1>1. Cardinality({n}) = 1
  BY FS_Singleton
<1> QED
  BY <1>1, NodeAssumption

LEMMA PacketTypes ==
  /\ \A s \in Seqs : [type |-> "req", seq |-> s] \in Packet
  /\ \A s \in Seqs : [type |-> "resp", seq |-> s] \in Packet
  /\ [type |-> "graph"] \in Packet
  /\ [type |-> "data"] \in Packet
  BY DEF Packet

\* The connections after a send.
LEMMA SentTypes ==
  ASSUME TypeOK, NEW n \in Node, NEW who, NEW p \in Packet, Sent(n, who, p)
  PROVE  ChannelsOK(chan')
<1> DEFINE o == Other(n)
<1>1. o \in Node
  BY OtherIsNode
<1>2. /\ chan \in [Node -> Seq(Packet)] /\ Cap \in Nat
      /\ \A m \in Node : Len(chan[m]) <= Cap
  BY BoundsAssumption DEF TypeOK
<1>3. chan' = [chan EXCEPT ![o] = Append(@, p)] /\ ~(Len(chan[o]) >= Cap)
  BY DEF Sent, Full
<1> HIDE DEF o
<1>4. chan[o] \in Seq(Packet) /\ Len(chan[o]) \in Nat
  BY <1>1, <1>2, LenProperties
<1>5. /\ Append(chan[o], p) \in Seq(Packet)
      /\ Len(Append(chan[o], p)) = Len(chan[o]) + 1
  BY <1>4
<1> QED
  BY <1>1, <1>2, <1>3, <1>4, <1>5 DEF ChannelsOK

\* A packet is taken out of its connection.
LEMMA TakeTypes ==
  ASSUME TypeOK, NEW n \in Node, NEW type, Take(n, type)
  PROVE  /\ ChannelsOK(chan')
         /\ Head(chan[n]) \in Packet /\ Head(chan[n]).type = type
<1>1. /\ chan \in [Node -> Seq(Packet)] /\ Cap \in Nat
      /\ \A m \in Node : Len(chan[m]) <= Cap
  BY BoundsAssumption DEF TypeOK
<1>2. /\ chan' = [chan EXCEPT ![n] = Tail(@)] /\ chan[n] # <<>>
      /\ Head(chan[n]).type = type
  BY DEF Take
<1>3. chan[n] \in Seq(Packet) /\ Len(chan[n]) \in Nat
  BY <1>1, LenProperties
<1>4. /\ Tail(chan[n]) \in Seq(Packet) /\ Head(chan[n]) \in Packet
      /\ Len(Tail(chan[n])) = Len(chan[n]) - 1
  BY <1>2, <1>3, HeadTailProperties
<1> QED
  BY <1>1, <1>2, <1>3, <1>4 DEF ChannelsOK

\* The parts of the invariant, one by one.
LEMMA Kept ==
  ASSUME IInv, ThreadsOK', Numbered', LocksInUse',
         ChannelsOK(chan') \/ chan' = chan
  PROVE  IInv'
  BY TypeParts DEF IInv

LEMMA Parts == IInv => TypeOK /\ ThreadsOK /\ Numbered /\ LocksInUse
  BY TypeParts DEF IInv

-----------------------------------------------------------------------------
(* One lemma per action: each keeps the three parts of the invariant.      *)

LEMMA TimerKeeps ==
  ASSUME IInv, NEW n \in Node, Timer(n)
  PROVE  IInv'
<1>0. n \in Node /\ 3 - seq[n] \in Seqs
  BY Parts DEF Timer, Numbered, Waiting, Ended, Seqs
<1>1. chan' = chan
  BY DEF Timer
<1>2. ThreadsOK'
  BY Parts, <1>0
  DEF Timer, ThreadsOK, Numbered, Goto, Waiting, Sending, Failed, Lost, Ended
<1>3. Numbered'
  BY Parts, <1>0
  DEF Timer, ThreadsOK, Numbered, Goto, Waiting, Sending, Failed, Lost, Ended
<1>4. LocksInUse'
  BY Parts
  DEF Timer, ThreadsOK, LocksInUse, Goto, Waiting, Sending, Failed, Lost, Ended
<1> QED
  BY <1>1, <1>2, <1>3, <1>4, Kept

LEMMA SendBlocksKeeps ==
  ASSUME IInv, NEW n \in Node, SendBlocks(n)
  PROVE  IInv'
<1>1. chan' = chan
  BY DEF SendBlocks
<1>2. ThreadsOK'
  BY Parts
  DEF SendBlocks, ThreadsOK, Numbered, Goto, Waiting, Sending, Failed, Lost,
      Ended, Blocks
<1>3. Numbered'
  BY Parts
  DEF SendBlocks, ThreadsOK, Numbered, Goto, Waiting, Sending, Failed, Lost,
      Ended, Blocks
<1>4. LocksInUse'
  BY Parts
  DEF SendBlocks, ThreadsOK, LocksInUse, Goto, Waiting, Sending, Failed, Lost,
      Ended, Blocks
<1> QED
  BY <1>1, <1>2, <1>3, <1>4, Kept

LEMMA UpdateTableKeeps ==
  ASSUME IInv, NEW n \in Node, UpdateTable(n)
  PROVE  IInv'
<1>1. chan' = chan
  BY DEF UpdateTable
<1>2. ThreadsOK'
  BY Parts
  DEF UpdateTable, ThreadsOK, Numbered, Goto, Waiting, Sending, Failed, Lost,
      Ended
<1>3. Numbered'
  BY Parts
  DEF UpdateTable, ThreadsOK, Numbered, Goto, Waiting, Sending, Failed, Lost,
      Ended
<1>4. LocksInUse'
  BY Parts
  DEF UpdateTable, ThreadsOK, LocksInUse, Goto, Waiting, Sending, Failed,
      Lost, Ended
<1> QED
  BY <1>1, <1>2, <1>3, <1>4, Kept

LEMMA TapReadKeeps ==
  ASSUME IInv, NEW n \in Node, TapRead(n)
  PROVE  IInv'
<1>1. chan' = chan
  BY DEF TapRead
<1>2. ThreadsOK'
  BY Parts
  DEF TapRead, ThreadsOK, Numbered, Goto, Waiting, Sending, Failed, Lost, Ended
<1>3. Numbered'
  BY Parts
  DEF TapRead, ThreadsOK, Numbered, Goto, Waiting, Sending, Failed, Lost, Ended
<1>4. LocksInUse'
  BY Parts
  DEF TapRead, ThreadsOK, LocksInUse, Goto, Waiting, Sending, Failed, Lost,
      Ended
<1> QED
  BY <1>1, <1>2, <1>3, <1>4, Kept

LEMMA TapBlocksKeeps ==
  ASSUME IInv, NEW n \in Node, TapBlocks(n)
  PROVE  IInv'
<1>1. chan' = chan
  BY DEF TapBlocks
<1>2. ThreadsOK'
  BY Parts
  DEF TapBlocks, ThreadsOK, Numbered, Goto, Waiting, Sending, Failed, Lost,
      Ended, Blocks
<1>3. Numbered'
  BY Parts
  DEF TapBlocks, ThreadsOK, Numbered, Goto, Waiting, Sending, Failed, Lost,
      Ended, Blocks
<1>4. LocksInUse'
  BY Parts
  DEF TapBlocks, ThreadsOK, LocksInUse, Goto, Waiting, Sending, Failed, Lost,
      Ended, Blocks
<1> QED
  BY <1>1, <1>2, <1>3, <1>4, Kept

LEMMA ExitKeeps ==
  ASSUME IInv, NEW n \in Node, Exit(n)
  PROVE  IInv'
<1>1. chan' = chan
  BY DEF Exit
<1>2. ThreadsOK'
  BY Parts
  DEF Exit, ThreadsOK, Numbered, Goto, Waiting, Sending, Failed, Lost, Ended
<1>3. Numbered'
  BY Parts
  DEF Exit, ThreadsOK, Numbered, Goto, Waiting, Sending, Failed, Lost, Ended
<1>4. LocksInUse'
  BY Parts
  DEF Exit, ThreadsOK, LocksInUse, Goto, Waiting, Sending, Failed, Lost, Ended
<1> QED
  BY <1>1, <1>2, <1>3, <1>4, Kept

LEMMA RecvEofKeeps ==
  ASSUME IInv, NEW n \in Node, RecvEof(n)
  PROVE  IInv'
<1>1. chan' = chan
  BY DEF RecvEof
<1>2. ThreadsOK'
  BY Parts
  DEF RecvEof, ThreadsOK, Numbered, Goto, Waiting, Sending, Failed, Lost, Ended
<1>3. Numbered'
  BY Parts
  DEF RecvEof, ThreadsOK, Numbered, Goto, Waiting, Sending, Failed, Lost, Ended
<1>4. LocksInUse'
  BY Parts
  DEF RecvEof, ThreadsOK, LocksInUse, Goto, Waiting, Sending, Failed, Lost,
      Ended
<1> QED
  BY <1>1, <1>2, <1>3, <1>4, Kept

LEMMA SendFailsKeeps ==
  ASSUME IInv, NEW n \in Node, SendFails(n)
  PROVE  IInv'
<1>1. chan' = chan
  BY DEF SendFails
<1>2. ThreadsOK'
  BY Parts
  DEF SendFails, ThreadsOK, Numbered, Goto, Waiting, Sending, Failed, Lost,
      Ended, NotSent
<1>3. Numbered'
  BY Parts
  DEF SendFails, ThreadsOK, Numbered, Goto, Waiting, Sending, Failed, Lost,
      Ended, NotSent
<1>4. LocksInUse'
  BY Parts
  DEF SendFails, ThreadsOK, LocksInUse, Goto, Waiting, Sending, Failed, Lost,
      Ended, NotSent
<1> QED
  BY <1>1, <1>2, <1>3, <1>4, Kept

LEMMA SendGraphKeeps ==
  ASSUME IInv, NEW n \in Node, SendGraph(n)
  PROVE  IInv'
<1>1. ChannelsOK(chan')
  <2>1. TypeOK /\ [type |-> "graph"] \in Packet
    BY Parts, PacketTypes
  <2>2. Sent(n, "peer", [type |-> "graph"])
    BY DEF SendGraph
  <2> QED
    BY <2>1, <2>2, SentTypes
<1>2. ThreadsOK'
  BY Parts
  DEF SendGraph, ThreadsOK, Numbered, Goto, Waiting, Sending, Failed, Lost,
      Ended, Sent
<1>3. Numbered'
  BY Parts
  DEF SendGraph, ThreadsOK, Numbered, Goto, Waiting, Sending, Failed, Lost,
      Ended, Sent
<1>4. LocksInUse'
  BY Parts
  DEF SendGraph, ThreadsOK, LocksInUse, Goto, Waiting, Sending, Failed, Lost,
      Ended, Sent
<1> QED
  BY <1>1, <1>2, <1>3, <1>4, Kept

LEMMA SendProbeKeeps ==
  ASSUME IInv, NEW n \in Node, SendProbe(n)
  PROVE  IInv'
<1>0. seq[n] \in Seqs
  BY Parts DEF SendProbe, Numbered, Ended
<1> DEFINE next == (ct[n] + 1) % LinkMult
<1>c. next \in 0..(LinkMult - 1)
  BY Parts, BoundsAssumption DEF ThreadsOK
<1>t. ct' = [ct EXCEPT ![n] = next]
  BY DEF SendProbe
<1> HIDE DEF next
<1>1. ChannelsOK(chan')
  <2>1. TypeOK /\ [type |-> "req", seq |-> seq[n]] \in Packet
    BY <1>0, Parts, PacketTypes
  <2>2. Sent(n, "peer", [type |-> "req", seq |-> seq[n]])
    BY DEF SendProbe
  <2> QED
    BY <2>1, <2>2, SentTypes
<1>2. ThreadsOK'
  <2>1. \/ /\ th' = [th EXCEPT ![n] = "graph"]
           /\ rd' = [rd EXCEPT ![n] = @ \cup {"peer"}]
        \/ th' = [th EXCEPT ![n] = "poll"] /\ rd' = rd
    BY DEF SendProbe, Goto
  <2>2. /\ wlock' = [wlock EXCEPT ![n] = "none"]
        /\ tap' = tap /\ todo' = todo /\ seq' = seq /\ late' = late
    BY DEF SendProbe, Sent
  <2> QED
    BY Parts, <1>c, <1>t, <2>1, <2>2 DEF ThreadsOK, Waiting, Sending
<1>3. Numbered'
  BY Parts
  DEF SendProbe, ThreadsOK, Numbered, Goto, Waiting, Sending, Failed, Lost,
      Ended, Sent
<1>4. LocksInUse'
  BY Parts
  DEF SendProbe, ThreadsOK, LocksInUse, Goto, Waiting, Sending, Failed, Lost,
      Ended, Sent
<1> QED
  BY <1>1, <1>2, <1>3, <1>4, Kept

LEMMA SendRespKeeps ==
  ASSUME IInv, NEW n \in Node, SendResp(n)
  PROVE  IInv'
<1>0. todo[n] \in Seqs
  BY Parts DEF SendResp, Numbered, Ended
<1>1. ChannelsOK(chan')
  <2>1. TypeOK /\ [type |-> "resp", seq |-> todo[n]] \in Packet
    BY <1>0, Parts, PacketTypes
  <2>2. Sent(n, "peer", [type |-> "resp", seq |-> todo[n]])
    BY DEF SendResp
  <2> QED
    BY <2>1, <2>2, SentTypes
<1>2. ThreadsOK'
  BY Parts
  DEF SendResp, ThreadsOK, Numbered, Goto, Waiting, Sending, Failed, Lost,
      Ended, Sent
<1>3. Numbered'
  BY Parts
  DEF SendResp, ThreadsOK, Numbered, Goto, Waiting, Sending, Failed, Lost,
      Ended, Sent
<1>4. LocksInUse'
  BY Parts
  DEF SendResp, ThreadsOK, LocksInUse, Goto, Waiting, Sending, Failed, Lost,
      Ended, Sent
<1> QED
  BY <1>1, <1>2, <1>3, <1>4, Kept

LEMMA RecvProbeReqKeeps ==
  ASSUME IInv, NEW n \in Node, RecvProbeReq(n)
  PROVE  IInv'
<1>0. /\ Take(n, "req") /\ th[n] \in Waiting
      /\ Head(chan[n]) \in Packet /\ Head(chan[n]).type = "req"
  BY Parts, TakeTypes DEF RecvProbeReq, Take
<1>s. Head(chan[n]).seq \in Seqs
  BY <1>0 DEF Packet
<1>1. ChannelsOK(chan')
  BY <1>0, Parts, TakeTypes
<1>2. ThreadsOK'
  BY Parts, <1>0, <1>s
  DEF RecvProbeReq, ThreadsOK, Numbered, Goto, Waiting, Sending, Failed, Lost,
      Ended
<1>3. Numbered'
  BY Parts, <1>0, <1>s
  DEF RecvProbeReq, ThreadsOK, Numbered, Goto, Waiting, Sending, Failed, Lost,
      Ended
<1>4. LocksInUse'
  BY Parts, <1>0
  DEF RecvProbeReq, ThreadsOK, LocksInUse, Goto, Waiting, Sending, Failed,
      Lost, Ended
<1> QED
  BY <1>1, <1>2, <1>3, <1>4, Kept

LEMMA RecvProbeRespKeeps ==
  ASSUME IInv, NEW n \in Node, RecvProbeResp(n)
  PROVE  IInv'
<1>0. /\ Take(n, "resp") /\ th[n] \in Waiting
      /\ Head(chan[n]) \in Packet /\ Head(chan[n]).type = "resp"
  BY Parts, TakeTypes DEF RecvProbeResp, Take
<1>1. ChannelsOK(chan')
  BY <1>0, Parts, TakeTypes
<1>2. ThreadsOK'
  BY Parts, <1>0
  DEF RecvProbeResp, ThreadsOK, Numbered, Goto, Waiting, Sending, Failed,
      Lost, Ended
<1>3. Numbered'
  BY Parts, <1>0
  DEF RecvProbeResp, ThreadsOK, Numbered, Goto, Waiting, Sending, Failed,
      Lost, Ended
<1>4. LocksInUse'
  BY Parts, <1>0
  DEF RecvProbeResp, ThreadsOK, LocksInUse, Goto, Waiting, Sending, Failed,
      Lost, Ended
<1> QED
  BY <1>1, <1>2, <1>3, <1>4, Kept

LEMMA RecvGraphKeeps ==
  ASSUME IInv, NEW n \in Node, RecvGraph(n)
  PROVE  IInv'
<1>0. /\ Take(n, "graph") /\ th[n] \in Waiting
      /\ Head(chan[n]) \in Packet /\ Head(chan[n]).type = "graph"
  BY Parts, TakeTypes DEF RecvGraph, Take
<1>1. ChannelsOK(chan')
  BY <1>0, Parts, TakeTypes
<1>2. ThreadsOK'
  BY Parts, <1>0
  DEF RecvGraph, ThreadsOK, Numbered, Goto, Waiting, Sending, Failed, Lost,
      Ended
<1>3. Numbered'
  BY Parts, <1>0
  DEF RecvGraph, ThreadsOK, Numbered, Goto, Waiting, Sending, Failed, Lost,
      Ended
<1>4. LocksInUse'
  BY Parts, <1>0
  DEF RecvGraph, ThreadsOK, LocksInUse, Goto, Waiting, Sending, Failed, Lost,
      Ended
<1> QED
  BY <1>1, <1>2, <1>3, <1>4, Kept

LEMMA RecvDataKeeps ==
  ASSUME IInv, NEW n \in Node, RecvData(n)
  PROVE  IInv'
<1>0. /\ Take(n, "data") /\ th[n] \in Waiting
      /\ Head(chan[n]) \in Packet /\ Head(chan[n]).type = "data"
  BY Parts, TakeTypes DEF RecvData, Take
<1>1. ChannelsOK(chan')
  BY <1>0, Parts, TakeTypes
<1>2. ThreadsOK'
  BY Parts, <1>0
  DEF RecvData, ThreadsOK, Numbered, Goto, Waiting, Sending, Failed, Lost, Ended
<1>3. Numbered'
  BY Parts, <1>0
  DEF RecvData, ThreadsOK, Numbered, Goto, Waiting, Sending, Failed, Lost, Ended
<1>4. LocksInUse'
  BY Parts, <1>0
  DEF RecvData, ThreadsOK, LocksInUse, Goto, Waiting, Sending, Failed, Lost,
      Ended
<1> QED
  BY <1>1, <1>2, <1>3, <1>4, Kept

LEMMA TapSendKeeps ==
  ASSUME IInv, NEW n \in Node, TapSend(n)
  PROVE  IInv'
<1>1. ChannelsOK(chan')
  <2>1. TypeOK /\ [type |-> "data"] \in Packet
    BY Parts, PacketTypes
  <2>2. Sent(n, "tap", [type |-> "data"])
    BY DEF TapSend
  <2> QED
    BY <2>1, <2>2, SentTypes
<1>2. ThreadsOK'
  BY Parts
  DEF TapSend, ThreadsOK, Numbered, Goto, Waiting, Sending, Failed, Lost,
      Ended, Sent
<1>3. Numbered'
  BY Parts
  DEF TapSend, ThreadsOK, Numbered, Goto, Waiting, Sending, Failed, Lost,
      Ended, Sent
<1>4. LocksInUse'
  BY Parts
  DEF TapSend, ThreadsOK, LocksInUse, Goto, Waiting, Sending, Failed, Lost,
      Ended, Sent
<1> QED
  BY <1>1, <1>2, <1>3, <1>4, Kept

LEMMA TapSendFailsKeeps ==
  ASSUME IInv, NEW n \in Node, TapSendFails(n)
  PROVE  IInv'
<1>1. chan' = chan
  BY DEF TapSendFails
<1>2. ThreadsOK'
  BY Parts
  DEF TapSendFails, ThreadsOK, Numbered, Goto, Waiting, Sending, Failed, Lost,
      Ended, NotSent
<1>3. Numbered'
  BY Parts
  DEF TapSendFails, ThreadsOK, Numbered, Goto, Waiting, Sending, Failed, Lost,
      Ended, NotSent
<1>4. LocksInUse'
  BY Parts
  DEF TapSendFails, ThreadsOK, LocksInUse, Goto, Waiting, Sending, Failed,
      Lost, Ended, NotSent
<1> QED
  BY <1>1, <1>2, <1>3, <1>4, Kept

LEMMA TapFailedKeeps ==
  ASSUME IInv, NEW n \in Node, TapFailed(n)
  PROVE  IInv'
<1>1. chan' = chan
  BY DEF TapFailed
<1>2. ThreadsOK'
  BY Parts
  DEF TapFailed, ThreadsOK, Numbered, Goto, Waiting, Sending, Failed, Lost,
      Ended, SecondUnlock
<1>3. Numbered'
  BY Parts
  DEF TapFailed, ThreadsOK, Numbered, Goto, Waiting, Sending, Failed, Lost,
      Ended, SecondUnlock
<1>4. LocksInUse'
  BY Parts
  DEF TapFailed, ThreadsOK, LocksInUse, Goto, Waiting, Sending, Failed, Lost,
      Ended, SecondUnlock
<1> QED
  BY <1>1, <1>2, <1>3, <1>4, Kept

LEMMA FailureKeeps ==
  ASSUME IInv, NEW n \in Node, Failure(n)
  PROVE  IInv'
<1>1. chan' = chan
  BY DEF Failure
<1>2. ThreadsOK'
  BY Parts
  DEF Failure, ThreadsOK, Numbered, Goto, Waiting, Sending, Failed, Lost, Ended,
      SecondUnlock
<1>3. Numbered'
  BY Parts
  DEF Failure, ThreadsOK, Numbered, Goto, Waiting, Sending, Failed, Lost, Ended,
      SecondUnlock
<1>4. LocksInUse'
  BY Parts
  DEF Failure, ThreadsOK, LocksInUse, Goto, Waiting, Sending, Failed, Lost,
      Ended,
      SecondUnlock
<1> QED
  BY <1>1, <1>2, <1>3, <1>4, Kept

LEMMA StrayReturnsKeeps ==
  ASSUME IInv, NEW n \in Node, StrayReturns(n)
  PROVE  IInv'
<1>1. chan' = chan
  BY DEF StrayReturns
<1>2. ThreadsOK'
  BY Parts
  DEF StrayReturns, ThreadsOK, Numbered, Goto, Waiting, Sending, Failed, Lost,
      Ended
<1>3. Numbered'
  BY Parts
  DEF StrayReturns, ThreadsOK, Numbered, Goto, Waiting, Sending, Failed, Lost,
      Ended
<1>4. LocksInUse'
  BY Parts
  DEF StrayReturns, ThreadsOK, LocksInUse, Goto, Waiting, Sending, Failed,
      Lost, Ended
<1> QED
  BY <1>1, <1>2, <1>3, <1>4, Kept

LEMMA StrayHangsKeeps ==
  ASSUME IInv, NEW n \in Node, StrayHangs(n)
  PROVE  IInv'
<1>1. chan' = chan
  BY DEF StrayHangs
<1>2. ThreadsOK'
  BY Parts
  DEF StrayHangs, ThreadsOK, Numbered, Goto, Waiting, Sending, Failed, Lost,
      Ended
<1>3. Numbered'
  BY Parts
  DEF StrayHangs, ThreadsOK, Numbered, Goto, Waiting, Sending, Failed, Lost,
      Ended
<1>4. LocksInUse'
  BY Parts
  DEF StrayHangs, ThreadsOK, LocksInUse, Goto, Waiting, Sending, Failed, Lost,
      Ended
<1> QED
  BY <1>1, <1>2, <1>3, <1>4, Kept

LEMMA LeaveKeeps ==
  ASSUME IInv, NEW n \in Node, Leave(n)
  PROVE  IInv'
<1>0. 0 \in 0..(LinkMult - 1)
  BY BoundsAssumption
<1>1. chan' = chan
  BY DEF Leave
<1>2. ThreadsOK'
  BY Parts, <1>0
  DEF Leave, ThreadsOK, Numbered, Goto, Waiting, Sending, Failed, Lost, Ended
<1>3. Numbered'
  BY Parts, <1>0
  DEF Leave, ThreadsOK, Numbered, Goto, Waiting, Sending, Failed, Lost, Ended
<1>4. LocksInUse'
  BY Parts
  DEF Leave, ThreadsOK, LocksInUse, Goto, Waiting, Sending, Failed, Lost, Ended
<1> QED
  BY <1>1, <1>2, <1>3, <1>4, Kept

LEMMA CrashKeeps ==
  ASSUME IInv, NEW n \in Node, Crash(n)
  PROVE  IInv'
<1>0. 0 \in 0..(LinkMult - 1)
  BY BoundsAssumption
<1>1. ChannelsOK(chan')
  <2>1. chan' = [chan EXCEPT ![n] = <<>>] /\ ChannelsOK(chan)
    BY Parts, TypeParts DEF Crash
  <2>2. <<>> \in Seq(Packet) /\ Len(<<>>) = 0 /\ Cap \in Nat
    BY BoundsAssumption
  <2> QED
    BY <2>1, <2>2 DEF ChannelsOK
<1>2. ThreadsOK'
  BY Parts, <1>0
  DEF Crash, ThreadsOK, Numbered, Goto, Waiting, Sending, Failed, Lost, Ended
<1>3. Numbered'
  BY Parts, <1>0
  DEF Crash, ThreadsOK, Numbered, Goto, Waiting, Sending, Failed, Lost, Ended
<1>4. LocksInUse'
  BY Parts
  DEF Crash, ThreadsOK, LocksInUse, Goto, Waiting, Sending, Failed, Lost, Ended
<1> QED
  BY <1>1, <1>2, <1>3, <1>4, Kept

-----------------------------------------------------------------------------
LEMMA InitIInv == Init => IInv
<1> SUFFICES ASSUME Init PROVE IInv
  OBVIOUS
<1>1. 0 \in 0..(LinkMult - 1) /\ Cap \in Nat
  BY BoundsAssumption
<1>2. <<>> \in Seq(Packet) /\ Len(<<>>) = 0
  OBVIOUS
<1>3. ChannelsOK(chan)
  BY <1>1, <1>2 DEF Init, ChannelsOK
<1>4. ThreadsOK
  BY <1>1 DEF Init, ThreadsOK, Seqs, Sending
<1>5. Numbered /\ LocksInUse
  BY DEF Init, Numbered, LocksInUse, Seqs, Ended, Sending
<1> QED
  BY <1>3, <1>4, <1>5, TypeParts DEF IInv

LEMMA NextIInv == IInv /\ [Next]_vars => IInv'
<1> SUFFICES ASSUME IInv, [Next]_vars PROVE IInv'
  OBVIOUS
<1>1. ASSUME NEW n \in Node, Receive(n) PROVE IInv'
  BY <1>1, RecvProbeReqKeeps, RecvProbeRespKeeps, RecvGraphKeeps, RecvDataKeeps,
     RecvEofKeeps DEF Receive
<1>2. ASSUME NEW n \in Node, Work(n) PROVE IInv'
  BY <1>2, SendBlocksKeeps, SendProbeKeeps, SendGraphKeeps, SendRespKeeps,
     SendFailsKeeps, FailureKeeps, UpdateTableKeeps, LeaveKeeps,
     StrayReturnsKeeps, StrayHangsKeeps DEF Work, Send
<1>3. ASSUME NEW n \in Node, TapRead(n) \/ TapWork(n) PROVE IInv'
  BY <1>3, TapReadKeeps, TapBlocksKeeps, TapSendKeeps, TapSendFailsKeeps,
     TapFailedKeeps DEF TapWork
<1>4. ASSUME NEW n \in Node, Timer(n) \/ Exit(n) \/ Crash(n) PROVE IInv'
  BY <1>4, TimerKeeps, ExitKeeps, CrashKeeps
<1>5. CASE UNCHANGED vars
  <2>1. ThreadsOK' /\ Numbered' /\ LocksInUse' /\ chan' = chan
    BY <1>5, Parts DEF vars, ThreadsOK, Numbered, LocksInUse
  <2> QED
    BY <2>1, Kept
<1> QED
  BY <1>1, <1>2, <1>3, <1>4, <1>5 DEF Next

LEMMA Always == Spec => []IInv
  BY InitIInv, NextIInv, PTL DEF Spec

\* Type correctness: no connection ever holds more than Cap packets.
THEOREM TypeCorrect == Spec => []TypeOK
<1>1. IInv => TypeOK
  BY DEF IInv
<1> QED
  BY <1>1, Always, PTL

(***************************************************************************)
(* On every way out of a send (dp_psend_data and dp_psend_start, well or   *)
(* not, with or without blocking; the end of the thread or of the node) a  *)
(* thread gives up the locks it was done under: none is left behind with a *)
(* thread that is elsewhere.  The one that never gets out is the thread    *)
(* that hangs in a send to this node's own host, and it keeps the read     *)
(* lock of the routing table.                                              *)
(***************************************************************************)
THEOREM LocksAreInUse == Spec => []LocksInUse
<1>1. IInv => LocksInUse
  BY DEF IInv
<1> QED
  BY <1>1, Always, PTL

(***************************************************************************)
(* A thread that is about to take the write lock of the routing table      *)
(* (rt_dhost_add_link, rt_update_edges, rt_dhost_remove) holds neither its *)
(* read lock nor the lock of its connection: if it has to wait, it waits   *)
(* for the tap reader, and never for itself.                               *)
(***************************************************************************)
NeverForItself ==
  \A n \in Node :
    th[n] \in {"relink", "update", "leave"} =>
      rd[n] \subseteq {"tap"} /\ wlock[n] # "peer"

THEOREM WritersWaitForTap == Spec => []NeverForItself
<1>1. IInv => NeverForItself
  BY Parts DEF ThreadsOK, LocksInUse, NeverForItself, Sending
<1> QED
  BY <1>1, Always, PTL
=============================================================================
