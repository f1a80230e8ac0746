-------------------------- MODULE DirectPeersProofs --------------------------
(***************************************************************************)
(* The ownership of the dp_t objects, for any number of peers, addresses   *)
(* and connections.                                                        *)
(***************************************************************************)
EXTENDS DirectPeers, TLAPS

\* No allocation has failed inside the routing table, no key of it has been
\* overwritten.
KeysKept == happened \subseteq {"mcast"}

\* Which thread function has which locations, and that the socket is open.
Placed ==
  \A d \in Dp :
    /\ kind[d] = "incoming" => pc[d] \notin {"start", "graph", "probe", "unlink"}
    /\ kind[d] # "incoming" => pc[d] \notin {"send", "sending"}
    /\ pc[d] \notin {"unborn", "start", "free", "freed"} => fd[d] = "open"

\* Where a thread may be while its dp_t is in the group.
MayBeInDpg(d) ==
  \/ pc[d] \in Loop \cup {"probe", "exit_dpg", "undpg"}
  \/ kind[d] # "linkstate" /\ pc[d] = "link"
  \/ kind[d] = "initial" /\ pc[d] = "unlink"

\* Where a thread may be while a host of the routing table points to its dp_t.
MayBeLinked(d) ==
  \/ pc[d] \in Loop \cup LoopExit \cup {"probe", "unlink"}
  \/ kind[d] = "linkstate" /\ pc[d] \in {"graph", "insert", "undpg"}

UniqueMac(S) == \A d, e \in S : mac[d] = mac[e] => d = e

DpgInv ==
  /\ TypeOK
  /\ Placed
  /\ \A d \in dpg : MayBeInDpg(d)
  /\ UniqueMac(dpg)

\* A host is never given to a thread that has its address still to learn, and
\* keys are unique until one is overwritten.
TableInv ==
  /\ \A d \in linked : pc[d] \notin {"unborn", "start", "hs"}
  /\ "rekey" \notin happened => UniqueMac(linked)

LinkInv == KeysKept => \A d \in linked : MayBeLinked(d)

\* The locks that protect what a thread uses.
LockInv ==
  \A t \in Thread :
    /\ pc[t] = "bcast" => t \in dpgReaders
    /\ \/ using[t] \subseteq {Stray}
       \/ pc[t] = "fwd" /\ t \in rdReaders /\ using[t] \subseteq linked
       \/ pc[t] = "bcasting" /\ t \in dpgReaders /\ using[t] \subseteq dpg

-----------------------------------------------------------------------------
\* The control tables, location by location.
LEMMA ThenTable ==
  /\ Then("initial", "start") = "hs" /\ Then("linkstate", "start") = "hs"
  /\ Then("initial", "hs") = "graph" /\ Then("linkstate", "hs") = "link"
  /\ Then("incoming", "hs") = "send" /\ Then("incoming", "sending") = "insert"
  /\ Then("initial", "graph") = "insert" /\ Then("linkstate", "graph") = "insert"
  /\ Then("initial", "insert") = "link" /\ Then("linkstate", "insert") = "probe"
  /\ Then("incoming", "insert") = "link"
  /\ Then("initial", "link") = "probe" /\ Then("linkstate", "link") = "graph"
  /\ Then("incoming", "link") = "loop"
  /\ Then("initial", "probe") = "loop" /\ Then("linkstate", "probe") = "loop"
BY DEF Then, InitialThen, LinkstateThen, IncomingThen

LEMMA ElseTable ==
  /\ Else("initial", "start") = "closefd" /\ Else("linkstate", "start") = "closefd"
  /\ Else("initial", "hs") = "closefd" /\ Else("linkstate", "hs") = "closefd"
  /\ Else("incoming", "hs") = "closefd" /\ Else("incoming", "sending") = "undpg"
  /\ Else("initial", "graph") = "closefd" /\ Else("linkstate", "graph") = "unlink"
  /\ Else("initial", "insert") = "closefd" /\ Else("linkstate", "insert") = "unlink"
  /\ Else("incoming", "insert") = "closefd"
  /\ Else("initial", "link") = "undpg" /\ Else("linkstate", "link") = "closefd"
  /\ Else("incoming", "link") = "undpg"
  /\ Else("initial", "probe") = "unlink" /\ Else("linkstate", "probe") = "undpg"
BY DEF Else, InitialElse, LinkstateElse, IncomingElse

LEMMA CleanupTable ==
  /\ Cleanup("initial", "unlink") = "undpg" /\ Cleanup("initial", "undpg") = "closefd"
  /\ Cleanup("linkstate", "undpg") = "unlink"
  /\ Cleanup("linkstate", "unlink") = "closefd"
  /\ Cleanup("incoming", "undpg") = "closefd"
BY DEF Cleanup, InitialCleanup, LinkstateCleanup, IncomingCleanup

-----------------------------------------------------------------------------
LEMMA DpgInit == Init => DpgInv
BY VnetAssumption
   DEF Init, DpgInv, TypeOK, Placed, UniqueMac, Thread, Kind, Location, Setup,
       Loop, Teardown, LoopExit

LEMMA DpgSetup ==
  ASSUME DpgInv, NEW d \in Dp, SetupStep(d)
  PROVE  DpgInv'
<1> USE VnetAssumption DEF DpgInv, TypeOK, Placed, MayBeInDpg, UniqueMac,
        Thread, Kind, Peer, Location, Setup, Loop, Teardown, LoopExit, Goto
<1>1. CASE dp_create_initial(d)
  BY <1>1 DEF dp_create_initial, Create
<1>2. CASE dp_create_linkstate(d)
  BY <1>2 DEF dp_create_linkstate, Create
<1>3. CASE dp_create_incoming(d)
  BY <1>3 DEF dp_create_incoming, Create
<1>4. CASE Connect(d)
  BY <1>4, ThenTable, ElseTable DEF Connect
<1>5. CASE ConnectFails(d)
  BY <1>5 DEF ConnectFails
<1>6. CASE Handshake(d)
  BY <1>6, ThenTable DEF Handshake
<1>7. CASE HandshakeFails(d)
  BY <1>7, ElseTable DEF HandshakeFails
<1>8. CASE ReadGraph(d)
  BY <1>8, ThenTable DEF ReadGraph, PopulateMac, Answers, Happens
<1>9. CASE ReadGraphFails(d)
  BY <1>9, ElseTable DEF ReadGraphFails, PopulateMac, Answers, Happens
<1>10. CASE SendGraph(d)
  BY <1>10 DEF SendGraph
<1>11. CASE SendGraphEnds(d)
  BY <1>11, ThenTable, ElseTable DEF SendGraphEnds
<1>12. CASE DpgInsert(d)
  BY <1>12, ThenTable, ElseTable DEF DpgInsert, dpg_insert, dpg_insert_fails, SameMac
<1>13. CASE AddLink(d)
  BY <1>13, ThenTable, ElseTable DEF AddLink, rt_dhost_add_link, rt_dhost_add_link_fails,
     Happens
<1>14. CASE SendProbe(d)
  BY <1>14, ThenTable, ElseTable DEF SendProbe
<1> QED
  BY <1>1, <1>2, <1>3, <1>4, <1>5, <1>6, <1>7, <1>8, <1>9, <1>10, <1>11,
     <1>12, <1>13, <1>14 DEF SetupStep

LEMMA DpgLoop ==
  ASSUME DpgInv, NEW d \in Dp, LoopStep(d)
  PROVE  DpgInv'
<1> USE VnetAssumption DEF DpgInv, TypeOK, Placed, MayBeInDpg, UniqueMac,
        Thread, Location, Setup, Loop, Teardown, LoopExit, Goto
<1>1. CASE ProbeResp(d)
  BY <1>1 DEF ProbeResp
<1>2. CASE Relink(d)
  BY <1>2 DEF Relink, rt_dhost_add_link
<1>3. CASE RelinkFails(d)
  BY <1>3 DEF RelinkFails, rt_dhost_add_link_fails, Happens
<1>4. CASE LoopFails(d)
  BY <1>4 DEF LoopFails
<1>5. CASE Broadcast(d)
  BY <1>5 DEF Broadcast
<1>6. CASE BroadcastSends(d)
  BY <1>6 DEF BroadcastSends
<1>7. CASE BroadcastEnds(d)
  BY <1>7 DEF BroadcastEnds
<1>8. CASE McastDropped(d)
  BY <1>8 DEF McastDropped, Happens
<1> QED
  BY <1>1, <1>2, <1>3, <1>4, <1>5, <1>6, <1>7, <1>8 DEF LoopStep

LEMMA DpgTeardown ==
  ASSUME DpgInv, NEW d \in Dp, TeardownStep(d)
  PROVE  DpgInv'
<1> USE VnetAssumption DEF DpgInv, TypeOK, Placed, MayBeInDpg, UniqueMac,
        Thread, Kind, Location, Setup, Loop, Teardown, LoopExit, Goto
<1>1. CASE LeaveDpg(d)
  BY <1>1, CleanupTable DEF LeaveDpg, dpg_remove, SameMac
<1>2. CASE RemoveLink(d)
  <2>1. linked' \subseteq linked /\ happened' \subseteq Faults
    BY <1>2 DEF RemoveLink, rt_dhost_remove, Happens
  <2> QED
    BY <1>2, <2>1, CleanupTable DEF RemoveLink
<1>3. CASE CloseFd(d)
  BY <1>3 DEF CloseFd
<1>4. CASE dp_cleanup_1(d)
  BY <1>4 DEF dp_cleanup_1
<1> QED
  BY <1>1, <1>2, <1>3, <1>4 DEF TeardownStep

LEMMA DpgForward ==
  ASSUME DpgInv, NEW t \in Thread, ForwardStep(t)
  PROVE  DpgInv'
<1> USE VnetAssumption DEF DpgInv, TypeOK, Placed, MayBeInDpg, UniqueMac,
        Thread, Location, Setup, Loop, Teardown, LoopExit, Goto
<1>1. CASE Forward(t)
  BY <1>1 DEF Forward
<1>2. CASE ForwardEnds(t)
  BY <1>2 DEF ForwardEnds
<1> QED
  BY <1>1, <1>2 DEF ForwardStep

\* The group's part of the invariant, whatever faults may happen.
LEMMA DpgAlways == Spec => []DpgInv
<1>1. DpgInv /\ UNCHANGED vars => DpgInv'
  BY DEF DpgInv, TypeOK, Placed, MayBeInDpg, UniqueMac, vars
<1>2. DpgInv /\ [Next]_vars => DpgInv'
  BY <1>1, DpgSetup, DpgLoop, DpgTeardown, DpgForward DEF Next
<1> QED
  BY DpgInit, <1>2, PTL DEF Spec

(***************************************************************************)
(* Every variable stays in its type.                                       *)
(***************************************************************************)
THEOREM TypeCorrect == Spec => []TypeOK
BY DpgAlways, PTL DEF DpgInv

(***************************************************************************)
(* The direct peer group never holds a freed dp_t nor two with one         *)
(* address, under every fault and for any number of connections.           *)
(***************************************************************************)
THEOREM DpgIsSound == Spec => []DpgSound
<1>1. DpgInv => DpgSound
  BY DEF DpgInv, MayBeInDpg, UniqueMac, DpgSound, Live, Loop
<1> QED
  BY <1>1, DpgAlways, PTL

-----------------------------------------------------------------------------
(* What the two operations on the routing table do.                        *)

LEMMA LookupIsExact ==
  ASSUME "rekey" \notin happened, NEW d \in Dp, NEW found \in Lookup(d)
  PROVE  \/ found = {} /\ SameMac(linked, d) = {}
         \/ \E e \in SameMac(linked, d) : found = {e}
BY DEF Lookup

LEMMA AddLinkEffect ==
  ASSUME NEW d \in Dp, rt_dhost_add_link(d)
  PROVE  /\ rdReaders = {}
         /\ happened' = happened
         /\ \/ linked' = linked
            \/ linked' = linked \cup {d}
         /\ "rekey" \notin happened /\ linked' # linked => SameMac(linked, d) = {}
<1>1. PICK found \in Lookup(d) :
        linked' = IF found = {} THEN linked \cup {d} ELSE linked
  BY DEF rt_dhost_add_link
<1> QED
  BY <1>1, LookupIsExact DEF rt_dhost_add_link

LEMMA AddLinkFailsEffect ==
  ASSUME NEW d \in Dp, rt_dhost_add_link_fails(d)
  PROVE  /\ rdReaders = {}
         /\ \/ linked' = linked /\ happened' = happened
            \/ /\ happened' = happened \cup {"nomem"}
               /\ SameMac(linked, d) = {} /\ linked' = linked \cup {d}
BY DEF rt_dhost_add_link_fails, Happens

LEMMA RemoveEffect ==
  ASSUME NEW d \in Dp, rt_dhost_remove(d)
  PROVE  /\ rdReaders = {}
         /\ \/ linked' = linked
            \/ \E e \in linked : linked' = linked \ {e}
         /\ happened' = happened \/ happened' = happened \cup {"nomem"}
         /\ KeysKept' /\ UniqueMac(linked) => d \notin linked'
<1>1. rdReaders = {}
  BY DEF rt_dhost_remove
<1>2. CASE Happens("nomem") /\ linked' = linked
  BY <1>1, <1>2 DEF Happens, KeysKept
<1>3. CASE (\E found \in Lookup(d) : linked' = linked \ found) /\ happened' = happened
  <2>1. PICK found \in Lookup(d) : linked' = linked \ found
    BY <1>3
  <2>2. found = {} \/ \E e \in linked : found = {e}
    BY <2>1 DEF Lookup, SameMac
  <2>3. ASSUME KeysKept', UniqueMac(linked), d \in linked
        PROVE  d \notin linked'
    <3>1. "rekey" \notin happened
      BY <1>3, <2>3 DEF KeysKept
    <3>2. d \in SameMac(linked, d)
      BY <2>3 DEF SameMac
    <3>3. PICK e \in SameMac(linked, d) : found = {e}
      BY <3>1, <3>2, LookupIsExact
    <3>4. e = d
      BY <2>3, <3>3 DEF SameMac, UniqueMac
    <3> QED
      BY <2>1, <3>3, <3>4
  <2>4. linked' \subseteq linked
    BY <2>1
  <2>5. linked' = linked \/ \E e \in linked : linked' = linked \ {e}
    BY <2>1, <2>2
  <2> QED
    BY <1>1, <1>3, <2>3, <2>4, <2>5
<1> QED
  BY <1>2, <1>3 DEF rt_dhost_remove

-----------------------------------------------------------------------------
(* What the steps do to the keys, the table and the history.               *)

\* Only these write an address, a link or the history.
LEMMA SetupEffect ==
  ASSUME DpgInv, TableInv, NEW d \in Dp, SetupStep(d)
  PROVE  /\ linked' = linked \/ (AddLink(d) /\ mac' = mac)
         /\ ~AddLink(d) =>
              \/ happened' = happened /\ \A e \in linked : mac'[e] = mac[e]
              \/ happened' = happened \cup {"rekey"}
<1> USE DEF DpgInv, TypeOK, TableInv
<1>1. CASE dp_create_initial(d)
  BY <1>1 DEF dp_create_initial, Create
<1>2. CASE dp_create_linkstate(d)
  BY <1>2 DEF dp_create_linkstate, Create
<1>3. CASE dp_create_incoming(d)
  BY <1>3 DEF dp_create_incoming, Create
<1>4. CASE Connect(d) \/ ConnectFails(d) \/ HandshakeFails(d)
  BY <1>4 DEF Connect, ConnectFails, HandshakeFails
<1>5. CASE Handshake(d)
  BY <1>5 DEF Handshake
<1>6. CASE ReadGraph(d)
  BY <1>6 DEF ReadGraph, PopulateMac, Happens
<1>7. CASE ReadGraphFails(d)
  BY <1>7 DEF ReadGraphFails, PopulateMac, Happens
<1>8. CASE SendGraph(d) \/ SendGraphEnds(d) \/ DpgInsert(d) \/ SendProbe(d)
  BY <1>8 DEF SendGraph, SendGraphEnds, DpgInsert, SendProbe
<1>9. CASE AddLink(d)
  BY <1>9 DEF AddLink
<1> QED
  BY <1>1, <1>2, <1>3, <1>4, <1>5, <1>6, <1>7, <1>8, <1>9 DEF SetupStep

LEMMA LoopEffect ==
  ASSUME NEW d \in Dp, LoopStep(d)
  PROVE  /\ mac' = mac
         /\ linked' = linked \/ Relink(d) \/ RelinkFails(d)
         /\ \/ happened' = happened \/ Relink(d) \/ RelinkFails(d)
            \/ McastDropped(d) /\ happened' = happened \cup {"mcast"}
BY DEF LoopStep, ProbeResp, Relink, RelinkFails, LoopFails, Broadcast,
       BroadcastSends, BroadcastEnds, McastDropped, Happens

LEMMA TeardownEffect ==
  ASSUME NEW d \in Dp, TeardownStep(d)
  PROVE  /\ mac' = mac
         /\ (linked' = linked /\ happened' = happened) \/ RemoveLink(d)
BY DEF TeardownStep, LeaveDpg, RemoveLink, CloseFd, dp_cleanup_1

LEMMA ForwardEffect ==
  ASSUME NEW t \in Thread, ForwardStep(t)
  PROVE  mac' = mac /\ linked' = linked /\ happened' = happened
BY DEF ForwardStep, Forward, ForwardEnds

(***************************************************************************)
(* One host at a time is added or removed, and the history only grows;     *)
(* until a key is overwritten, a host is added for an address that had     *)
(* none, and no host changes its key.                                      *)
(***************************************************************************)
LEMMA TableStep ==
  ASSUME DpgInv, TableInv, [Next]_vars
  PROVE  /\ happened \subseteq happened'
         /\ "rekey" \notin happened' =>
              /\ \A d \in linked : mac'[d] = mac[d]
              /\ \/ linked' = linked
                 \/ mac' = mac /\ \E d \in Dp : /\ SameMac(linked, d) = {}
                                               /\ linked' = linked \cup {d}
                 \/ mac' = mac /\ \E e \in linked : linked' = linked \ {e}
<1>1. ASSUME NEW d \in Dp, SetupStep(d)
      PROVE  /\ happened \subseteq happened'
             /\ "rekey" \notin happened' =>
                  /\ \A e \in linked : mac'[e] = mac[e]
                  /\ \/ linked' = linked
                     \/ mac' = mac /\ SameMac(linked, d) = {} /\ linked' = linked \cup {d}
  <2>1. CASE AddLink(d)
    BY <2>1, AddLinkEffect, AddLinkFailsEffect DEF AddLink
  <2>2. CASE ~AddLink(d)
    BY <1>1, <2>2, SetupEffect
  <2> QED
    BY <2>1, <2>2
<1>2. ASSUME NEW d \in Dp, LoopStep(d)
      PROVE  /\ happened \subseteq happened'
             /\ mac' = mac
             /\ "rekey" \notin happened' =>
                  \/ linked' = linked
                  \/ SameMac(linked, d) = {} /\ linked' = linked \cup {d}
  <2>1. CASE Relink(d) \/ RelinkFails(d)
    BY <2>1, AddLinkEffect, AddLinkFailsEffect DEF Relink, RelinkFails
  <2>2. CASE ~(Relink(d) \/ RelinkFails(d))
    BY <1>2, <2>2, LoopEffect
  <2> QED
    BY <2>1, <2>2
<1>3. ASSUME NEW d \in Dp, TeardownStep(d)
      PROVE  /\ happened \subseteq happened'
             /\ mac' = mac
             /\ linked' = linked \/ \E e \in linked : linked' = linked \ {e}
  <2>1. CASE RemoveLink(d)
    BY <2>1, RemoveEffect DEF RemoveLink
  <2>2. CASE ~RemoveLink(d)
    BY <1>3, <2>2, TeardownEffect
  <2> QED
    BY <2>1, <2>2
<1>4. ASSUME NEW t \in Thread, ForwardStep(t)
      PROVE  mac' = mac /\ linked' = linked /\ happened' = happened
  BY <1>4, ForwardEffect
<1>5. CASE UNCHANGED vars
  BY <1>5 DEF vars
<1>6. CASE Next
  BY <1>1, <1>2, <1>3, <1>4, <1>6 DEF Next
<1> QED
  BY <1>5, <1>6

\* A linked peer has come past its handshake, and does not go back.
LEMMA TablePlaced ==
  ASSUME DpgInv, TableInv, Next
  PROVE  \A e \in linked' : pc'[e] \notin {"unborn", "start", "hs"}
<1> USE VnetAssumption DEF DpgInv, TypeOK, Placed, TableInv, Thread, Kind, Goto
<1>1. ASSUME NEW d \in Dp, SetupStep(d)
      PROVE  \A e \in linked' : pc'[e] \notin {"unborn", "start", "hs"}
  <2>1. CASE AddLink(d)
    <3>1. linked' \subseteq linked \cup {d}
      BY <2>1, AddLinkEffect, AddLinkFailsEffect DEF AddLink
    <3>2. pc'[d] \notin {"unborn", "start", "hs"}
      BY <2>1, ThenTable, ElseTable DEF AddLink
    <3>3. \A t \in Thread \ {d} : pc'[t] = pc[t]
      BY <2>1 DEF AddLink
    <3> QED
      BY <3>1, <3>2, <3>3
  <2>2. CASE ~AddLink(d)
    <3>1. linked' = linked
      BY <1>1, <2>2, SetupEffect
    <3>2. CASE pc[d] \in {"unborn", "start", "hs"}
      <4>1. \A t \in Thread \ {d} : pc'[t] = pc[t]
        BY <1>1 DEF SetupStep, dp_create_initial, dp_create_linkstate,
           dp_create_incoming, Create, Connect, ConnectFails, Handshake,
           HandshakeFails, ReadGraph, ReadGraphFails, SendGraph,
           SendGraphEnds, DpgInsert, AddLink, SendProbe
      <4> QED
        BY <3>1, <3>2, <4>1
    <3>3. CASE pc[d] \notin {"unborn", "start", "hs"}
      BY <1>1, <2>2, <3>1, <3>3, ThenTable, ElseTable
         DEF SetupStep, dp_create_initial, dp_create_linkstate,
             dp_create_incoming, Create, Connect, ConnectFails, Handshake,
             HandshakeFails, ReadGraph, ReadGraphFails, SendGraph,
             SendGraphEnds, DpgInsert, SendProbe
    <3> QED
      BY <3>2, <3>3
  <2> QED
    BY <2>1, <2>2
<1>2. ASSUME NEW d \in Dp, LoopStep(d)
      PROVE  \A e \in linked' : pc'[e] \notin {"unborn", "start", "hs"}
  <2>1. linked' \subseteq linked \cup {d}
    BY <1>2, LoopEffect, AddLinkEffect, AddLinkFailsEffect DEF Relink, RelinkFails
  <2>2. pc'[d] \notin {"unborn", "start", "hs"} /\ \A t \in Thread \ {d} : pc'[t] = pc[t]
    BY <1>2 DEF LoopStep, ProbeResp, Relink, RelinkFails, LoopFails, Broadcast,
                BroadcastSends, BroadcastEnds, McastDropped
  <2> QED
    BY <2>1, <2>2
<1>3. ASSUME NEW d \in Dp, TeardownStep(d)
      PROVE  \A e \in linked' : pc'[e] \notin {"unborn", "start", "hs"}
  <2>1. linked' \subseteq linked
    BY <1>3, TeardownEffect, RemoveEffect DEF RemoveLink
  <2>2. pc'[d] \notin {"unborn", "start", "hs"} /\ \A t \in Thread \ {d} : pc'[t] = pc[t]
    BY <1>3, CleanupTable DEF TeardownStep, LeaveDpg, RemoveLink, CloseFd, dp_cleanup_1
  <2> QED
    BY <2>1, <2>2
<1>4. ASSUME NEW t \in Thread, ForwardStep(t)
      PROVE  \A e \in linked' : pc'[e] \notin {"unborn", "start", "hs"}
  BY <1>4, ForwardEffect DEF ForwardStep, Forward, ForwardEnds
<1> QED
  BY <1>1, <1>2, <1>3, <1>4 DEF Next

\* The table's part of the invariant, whatever faults may happen.
LEMMA TableAlways == Spec => [](DpgInv /\ TableInv)
<1>1. Init => TableInv
  BY DEF Init, TableInv, UniqueMac
<1>2. TableInv /\ UNCHANGED vars => TableInv'
  BY DEF TableInv, UniqueMac, vars
<1>3. ASSUME DpgInv, TableInv, Next
      PROVE  TableInv'
  <2>1. ASSUME "rekey" \notin happened'
        PROVE  UniqueMac(linked)'
    <3>1. UniqueMac(linked) /\ linked \subseteq Dp
      BY <1>3, <2>1, TableStep DEF TableInv, DpgInv, TypeOK
    <3>2. /\ \A d \in linked : mac'[d] = mac[d]
          /\ \/ linked' = linked
             \/ mac' = mac /\ \E d \in Dp : /\ SameMac(linked, d) = {}
                                           /\ linked' = linked \cup {d}
             \/ mac' = mac /\ \E e \in linked : linked' = linked \ {e}
      BY <1>3, <2>1, TableStep
    <3> QED
      BY <3>1, <3>2 DEF UniqueMac, SameMac
  <2> QED
    BY <1>3, <2>1, TablePlaced DEF TableInv
<1> QED
  BY <1>1, <1>2, <1>3, DpgAlways, PTL DEF Spec

LEMMA LinkSetup ==
  ASSUME DpgInv, TableInv, LinkInv, KeysKept, KeysKept', NEW d \in Dp, SetupStep(d)
  PROVE  LinkInv'
<1> USE DEF DpgInv, TypeOK, Placed, LinkInv, MayBeLinked,
        Thread, Kind, Loop, LoopExit, Goto
<1>1. CASE dp_create_initial(d)
  BY <1>1 DEF dp_create_initial, Create
<1>2. CASE dp_create_linkstate(d)
  BY <1>2 DEF dp_create_linkstate, Create
<1>3. CASE dp_create_incoming(d)
  BY <1>3 DEF dp_create_incoming, Create
<1>4. CASE Connect(d)
  BY <1>4, ThenTable, ElseTable DEF Connect
<1>5. CASE ConnectFails(d)
  BY <1>5 DEF ConnectFails
<1>6. CASE Handshake(d)
  BY <1>6, ThenTable DEF Handshake
<1>7. CASE HandshakeFails(d)
  BY <1>7, ElseTable DEF HandshakeFails
<1>8. CASE ReadGraph(d)
  BY <1>8, ThenTable DEF ReadGraph
<1>9. CASE ReadGraphFails(d)
  BY <1>9, ElseTable DEF ReadGraphFails
<1>10. CASE SendGraph(d)
  BY <1>10 DEF SendGraph
<1>11. CASE SendGraphEnds(d)
  BY <1>11, ThenTable, ElseTable DEF SendGraphEnds
<1>12. CASE DpgInsert(d)
  BY <1>12, ThenTable, ElseTable DEF DpgInsert
<1>13. CASE AddLink(d)
  <2>1. CASE rt_dhost_add_link(d) /\ Goto(d, Then(kind[d], "link"))
    BY <1>13, <2>1, AddLinkEffect, ThenTable DEF AddLink
  <2>2. CASE rt_dhost_add_link_fails(d) /\ Goto(d, Else(kind[d], "link"))
    <3>1. linked' = linked
      BY <2>2, AddLinkFailsEffect DEF KeysKept
    <3> QED
      BY <1>13, <2>2, <3>1, ElseTable DEF AddLink
  <2> QED
    BY <1>13, <2>1, <2>2 DEF AddLink
<1>14. CASE SendProbe(d)
  BY <1>14, ThenTable, ElseTable DEF SendProbe
<1> QED
  BY <1>1, <1>2, <1>3, <1>4, <1>5, <1>6, <1>7, <1>8, <1>9, <1>10, <1>11,
     <1>12, <1>13, <1>14 DEF SetupStep

LEMMA LinkLoop ==
  ASSUME DpgInv, TableInv, LinkInv, KeysKept, KeysKept', NEW d \in Dp, LoopStep(d)
  PROVE  LinkInv'
<1> USE DEF DpgInv, TypeOK, LinkInv, MayBeLinked,
        Thread, Loop, LoopExit, Goto
<1>1. CASE ProbeResp(d)
  BY <1>1 DEF ProbeResp
<1>2. CASE Relink(d)
  BY <1>2, AddLinkEffect DEF Relink
<1>3. CASE RelinkFails(d)
  <2>1. linked' = linked
    BY <1>3, AddLinkFailsEffect DEF RelinkFails, KeysKept
  <2> QED
    BY <1>3, <2>1 DEF RelinkFails
<1>4. CASE LoopFails(d)
  BY <1>4 DEF LoopFails
<1>5. CASE Broadcast(d)
  BY <1>5 DEF Broadcast
<1>6. CASE BroadcastSends(d)
  BY <1>6 DEF BroadcastSends
<1>7. CASE BroadcastEnds(d)
  BY <1>7 DEF BroadcastEnds
<1>8. CASE McastDropped(d)
  BY <1>8 DEF McastDropped
<1> QED
  BY <1>1, <1>2, <1>3, <1>4, <1>5, <1>6, <1>7, <1>8 DEF LoopStep

LEMMA LinkTeardown ==
  ASSUME DpgInv, TableInv, LinkInv, KeysKept, KeysKept', NEW d \in Dp, TeardownStep(d)
  PROVE  LinkInv'
<1> USE DEF DpgInv, TypeOK, Placed, LinkInv, MayBeLinked,
        Thread, Kind, Loop, LoopExit, Goto
<1>1. CASE LeaveDpg(d)
  BY <1>1, CleanupTable DEF LeaveDpg
<1>2. CASE RemoveLink(d)
  <2>1. linked' \subseteq linked /\ d \notin linked'
    BY <1>2, RemoveEffect DEF RemoveLink, TableInv, KeysKept
  <2> QED
    BY <1>2, <2>1, CleanupTable DEF RemoveLink
<1>3. CASE CloseFd(d)
  BY <1>3 DEF CloseFd
<1>4. CASE dp_cleanup_1(d)
  BY <1>4 DEF dp_cleanup_1
<1> QED
  BY <1>1, <1>2, <1>3, <1>4 DEF TeardownStep

LEMMA LinkForward ==
  ASSUME DpgInv, LinkInv, KeysKept, NEW t \in Thread, ForwardStep(t)
  PROVE  LinkInv'
<1> USE DEF DpgInv, TypeOK, LinkInv, MayBeLinked,
        Thread, Loop, LoopExit, Goto
<1>1. CASE Forward(t)
  BY <1>1 DEF Forward
<1>2. CASE ForwardEnds(t)
  BY <1>2 DEF ForwardEnds
<1> QED
  BY <1>1, <1>2 DEF ForwardStep

LEMMA LinkAlways == Spec => [](DpgInv /\ TableInv /\ LinkInv)
<1>1. Init => LinkInv
  BY DEF Init, LinkInv
<1>2. LinkInv /\ UNCHANGED vars => LinkInv'
  BY DEF LinkInv, KeysKept, MayBeLinked, vars
<1>3. ASSUME DpgInv, TableInv, LinkInv, Next
      PROVE  LinkInv'
  <2>1. CASE ~KeysKept'
    BY <2>1 DEF LinkInv
  <2>2. CASE KeysKept'
    <3>1. KeysKept
      BY <1>3, <2>2, TableStep DEF KeysKept
    <3> QED
      BY <1>3, <2>2, <3>1, LinkSetup, LinkLoop, LinkTeardown, LinkForward DEF Next
  <2> QED
    BY <2>1, <2>2
<1> QED
  BY <1>1, <1>2, <1>3, TableAlways, PTL DEF Spec

(***************************************************************************)
(* No host of the routing table points into a freed dp_t, for any number   *)
(* of connections, duplicate ones included, until an allocation fails      *)
(* inside the table or a key is overwritten.                               *)
(***************************************************************************)
THEOREM NoHostDangles == Spec => []NoDanglingHost
<1>1. LinkInv => NoDanglingHost
  BY DEF LinkInv, KeysKept, MayBeLinked, NoDanglingHost, Live, Loop, LoopExit
<1> QED
  BY <1>1, LinkAlways, PTL

-----------------------------------------------------------------------------
(* The threads use the routing table as DirectTable allows.                *)

\* With keys that are unique, Owner is the table read backwards.
LEMMA OwnerIs ==
  ASSUME UniqueMac(linked), NEW m \in Mac
  PROVE  /\ \A d \in linked : mac[d] = m => Owner[m] = d
         /\ (\A d \in linked : mac[d] # m) => Owner[m] = Vnet
BY DEF Owner, UniqueMac

LEMMA OwnerNextIs ==
  ASSUME UniqueMac(linked)', NEW m \in Mac
  PROVE  /\ \A d \in linked' : mac'[d] = m => Owner'[m] = d
         /\ (\A d \in linked' : mac'[d] # m) => Owner'[m] = Vnet
BY DEF Owner, UniqueMac

LEMMA DirectTableStep ==
  ASSUME DpgInv, TableInv, TableInv', [Next]_vars, "rekey" \notin happened'
  PROVE  [DT!Next]_Owner
<1>0. /\ UniqueMac(linked) /\ UniqueMac(linked)' /\ linked \subseteq Dp
      /\ Owner = [m \in Mac |-> Owner[m]] /\ Owner' = [m \in Mac |-> Owner'[m]]
  BY TableStep DEF TableInv, DpgInv, TypeOK, Owner
<1>1. CASE linked' = linked
  <2>1. \A d \in linked : mac'[d] = mac[d]
    BY TableStep
  <2>2. \A m \in Mac : Owner'[m] = Owner[m]
    BY <1>0, <1>1, <2>1, OwnerIs, OwnerNextIs
  <2> QED
    BY <1>0, <2>2
<1>2. ASSUME mac' = mac, NEW d \in Dp, SameMac(linked, d) = {},
             linked' = linked \cup {d}
      PROVE  [DT!Next]_Owner
  <2>1. \A m \in Mac : m # mac[d] => Owner'[m] = Owner[m]
    BY <1>0, <1>2, OwnerIs, OwnerNextIs
  <2>2. CASE mac[d] \notin Mac
    BY <1>0, <2>1, <2>2
  <2>3. CASE mac[d] \in Mac
    <3>1. Owner[mac[d]] = Vnet /\ Owner'[mac[d]] = d
      BY <1>0, <1>2, <2>3, OwnerIs, OwnerNextIs DEF SameMac
    <3>2. Owner' = [Owner EXCEPT ![mac[d]] = d]
      BY <1>0, <2>1, <2>3, <3>1
    <3>3. DT!Add(mac[d], d)
      BY <3>1, <3>2 DEF DT!Add
    <3> QED
      BY <2>3, <3>3 DEF DT!Next
  <2> QED
    BY <2>2, <2>3
<1>3. ASSUME mac' = mac, NEW e \in linked, linked' = linked \ {e}
      PROVE  [DT!Next]_Owner
  <2>1. \A m \in Mac : m # mac[e] => Owner'[m] = Owner[m]
    BY <1>0, <1>3, OwnerIs, OwnerNextIs
  <2>2. CASE mac[e] \notin Mac
    BY <1>0, <2>1, <2>2
  <2>3. CASE mac[e] \in Mac
    <3>1. Owner[mac[e]] = e
      BY <1>0, <2>3, OwnerIs
    <3>2. \A d \in linked' : mac'[d] # mac[e]
      BY <1>0, <1>3 DEF UniqueMac
    <3>3. Owner'[mac[e]] = Vnet
      BY <1>0, <2>3, <3>2, OwnerNextIs
    <3>4. Owner' = [Owner EXCEPT ![mac[e]] = Vnet]
      BY <1>0, <2>1, <2>3, <3>3
    <3>5. e # Vnet
      BY <1>0, VnetAssumption
    <3>6. DT!Remove(mac[e])
      BY <3>1, <3>4, <3>5 DEF DT!Remove
    <3> QED
      BY <2>3, <3>6 DEF DT!Next
  <2> QED
    BY <2>2, <2>3
<1> QED
  BY <1>1, <1>2, <1>3, TableStep

(***************************************************************************)
(* Until a key is overwritten, for any number of connections, the threads  *)
(* use the routing table as DirectTable allows: rt_dhost_add_link never    *)
(* takes a host over from the dp_t of another connection to the same node, *)
(* and rt_dhost_remove drops one host at a time.                           *)
(***************************************************************************)
THEOREM PeersKeepToDirectTable == Spec => KeepsToDirectTable
<1>1. Init => DT!Init
  BY DEF Init, Owner, DT!Init
<1>2. /\ DpgInv /\ TableInv /\ (DpgInv /\ TableInv)' /\ [Next]_vars
      => [DT!Next \/ "rekey" \in happened']_Owner
  BY DirectTableStep
<1> QED
  BY <1>1, <1>2, TableAlways, PTL DEF Spec, KeepsToDirectTable

(***************************************************************************)
(* If the nodes of the link graph answer with the addresses it gives, the  *)
(* peers are an implementation of DirectTable.                             *)
(***************************************************************************)
THEOREM PeersImplementDirectTable == "rekey" \notin Faults /\ Spec => DT!Spec
<1> SUFFICES ASSUME "rekey" \notin Faults PROVE Spec => DT!Spec
  OBVIOUS
<1>1. Init => DT!Init
  BY DEF Init, Owner, DT!Init
<1>2. /\ DpgInv /\ TableInv /\ (DpgInv /\ TableInv)' /\ [Next]_vars
      => [DT!Next]_Owner
  BY DirectTableStep DEF DpgInv, TypeOK
<1> QED
  BY <1>1, <1>2, TableAlways, PTL DEF Spec, DT!Spec

-----------------------------------------------------------------------------
\* How the sections under the read locks keep LockInv.
LEMMA LockSetup ==
  ASSUME DpgInv, LockInv, NEW d \in Dp, SetupStep(d)
  PROVE  LockInv'
<1> USE VnetAssumption DEF DpgInv, TypeOK, LockInv, Thread, Goto
<1>0. /\ using' = using /\ dpgReaders' = dpgReaders
      /\ \A t \in Thread \ {d} : pc'[t] = pc[t] /\ (t \in rdReaders' <=> t \in rdReaders)
  BY DEF SetupStep, dp_create_initial, dp_create_linkstate,
         dp_create_incoming, Create, Connect, ConnectFails, Handshake,
         HandshakeFails, ReadGraph, ReadGraphFails, SendGraph,
         SendGraphEnds, DpgInsert, AddLink, SendProbe
<1>1. pc[d] \notin {"fwd", "bcast", "bcasting"}
  BY DEF SetupStep, dp_create_initial, dp_create_linkstate,
         dp_create_incoming, Create, Connect, ConnectFails, Handshake,
         HandshakeFails, ReadGraph, ReadGraphFails, SendGraph,
         SendGraphEnds, DpgInsert, AddLink, SendProbe
<1>2. pc'[d] # "bcast"
  BY ThenTable, ElseTable
     DEF SetupStep, dp_create_initial, dp_create_linkstate,
         dp_create_incoming, Create, Connect, ConnectFails, Handshake,
         HandshakeFails, ReadGraph, ReadGraphFails, SendGraph,
         SendGraphEnds, DpgInsert, AddLink, SendProbe, Placed, Kind
<1>3. linked \subseteq linked'
  BY AddLinkEffect, AddLinkFailsEffect
     DEF SetupStep, dp_create_initial, dp_create_linkstate,
         dp_create_incoming, Create, Connect, ConnectFails, Handshake,
         HandshakeFails, ReadGraph, ReadGraphFails, SendGraph,
         SendGraphEnds, DpgInsert, AddLink, SendProbe
<1>4. dpg \subseteq dpg'
  BY DEF SetupStep, dp_create_initial, dp_create_linkstate,
         dp_create_incoming, Create, Connect, ConnectFails, Handshake,
         HandshakeFails, ReadGraph, ReadGraphFails, SendGraph,
         SendGraphEnds, DpgInsert, dpg_insert, dpg_insert_fails, AddLink,
         SendProbe
<1> QED
  BY <1>0, <1>1, <1>2, <1>3, <1>4

LEMMA LockLoop ==
  ASSUME DpgInv, LockInv, NEW d \in Dp, LoopStep(d), happened' = {}
  PROVE  LockInv'
<1> USE DEF DpgInv, TypeOK, LockInv, Thread, Goto
<1>1. CASE ProbeResp(d)
  BY <1>1 DEF ProbeResp
<1>2. CASE Relink(d)
  BY <1>2, AddLinkEffect DEF Relink
<1>3. CASE RelinkFails(d)
  BY <1>3, AddLinkFailsEffect DEF RelinkFails
<1>4. CASE LoopFails(d)
  BY <1>4 DEF LoopFails
<1>5. CASE Broadcast(d)
  BY <1>5 DEF Broadcast
<1>6. CASE BroadcastSends(d)
  BY <1>6 DEF BroadcastSends
<1>7. CASE BroadcastEnds(d)
  BY <1>7 DEF BroadcastEnds
<1>8. CASE McastDropped(d)
  BY <1>8 DEF McastDropped, Happens
<1> QED
  BY <1>1, <1>2, <1>3, <1>4, <1>5, <1>6, <1>7, <1>8 DEF LoopStep

LEMMA LockTeardown ==
  ASSUME DpgInv, LockInv, NEW d \in Dp, TeardownStep(d)
  PROVE  LockInv'
<1> USE DEF DpgInv, TypeOK, Placed, LockInv, Thread, Kind, Goto
<1>1. CASE LeaveDpg(d)
  BY <1>1, CleanupTable DEF LeaveDpg, dpg_remove
<1>2. CASE RemoveLink(d)
  <2>1. rdReaders = {}
    BY <1>2 DEF RemoveLink, rt_dhost_remove
  <2> QED
    BY <1>2, <2>1, CleanupTable DEF RemoveLink
<1>3. CASE CloseFd(d)
  BY <1>3 DEF CloseFd
<1>4. CASE dp_cleanup_1(d)
  BY <1>4 DEF dp_cleanup_1
<1> QED
  BY <1>1, <1>2, <1>3, <1>4 DEF TeardownStep

LEMMA LockForward ==
  ASSUME DpgInv, LockInv, NEW t \in Thread, ForwardStep(t)
  PROVE  LockInv'
<1> USE DEF DpgInv, TypeOK, LockInv, Thread, Goto
<1>1. CASE Forward(t)
  BY <1>1 DEF Forward
<1>2. CASE ForwardEnds(t)
  BY <1>2 DEF ForwardEnds
<1> QED
  BY <1>1, <1>2 DEF ForwardStep

(***************************************************************************)
(* As long as none of the failures has happened, no thread sends to a      *)
(* freed peer or on its closed socket, for any number of threads: what it  *)
(* looked up under a read lock stays owned until it lets go of the lock.   *)
(* (For a packet to this node it sends to no peer at all, but to what it   *)
(* takes its own host for: ForwardsOnlyToPeers in module Routing.)         *)
(***************************************************************************)
THEOREM UsedPeersAreLive == Spec => []UsedPeersLive
<1> DEFINE Safe == happened = {} => LockInv
<1>1. Init => Safe
  BY VnetAssumption DEF Init, LockInv, Thread
<1>2. Safe /\ UNCHANGED vars => Safe'
  BY DEF LockInv, vars
<1>3. ASSUME DpgInv, TableInv, Safe, Next
      PROVE  Safe'
  <2> SUFFICES ASSUME happened' = {} PROVE LockInv'
    OBVIOUS
  <2>1. happened = {}
    BY <1>3, TableStep
  <2> QED
    BY <1>3, <2>1, LockSetup, LockLoop, LockTeardown, LockForward DEF Next
<1>4. DpgInv /\ LinkInv /\ Safe => UsedPeersLive
  <2> SUFFICES ASSUME DpgInv, LinkInv, LockInv, happened = {},
                      NEW t \in Thread, NEW d \in using[t] \ {Stray}
               PROVE  Live(d) /\ fd[d] = "open"
    BY DEF UsedPeersLive, HeldWhileUsed
  <2>1. d \in linked \/ d \in dpg
    BY DEF LockInv
  <2>2. d \in Dp
    BY <2>1 DEF DpgInv, TypeOK
  <2> QED
    BY <2>1, <2>2 DEF DpgInv, LinkInv, KeysKept, Placed, MayBeInDpg, MayBeLinked, Live,
       Loop, LoopExit
<1> QED
  BY <1>1, <1>2, <1>3, <1>4, LinkAlways, PTL DEF Spec
=============================================================================
