----------------------------- MODULE MainProofs -----------------------------
(***************************************************************************)
(* The descriptors and the start-up of the process, for any number of      *)
(* connections, any limit on descriptors and all failures.                 *)
(***************************************************************************)
EXTENDS Main, WellFoundedInduction, TLAPS

\* vnet->fd is the tap device if it is anything.
TapOwned == tapfd # NoFd => tapfd \in Fd /\ use[tapfd] = <<"tap">>

\* Nobody has spawned a thread yet.
NotYet == stage \notin (Initialised \ {"tap"}) \cup {"died"} =>
            reader = "none" /\ \A c \in Conn : th[c] = "unused"

\* A connection has one socket and one epoll descriptor at a time.
Single ==
  \A f, g \in Fd, c \in Conn :
    use[f] = use[g] /\ use[f] \in {<<"con", c>>, <<"ep", c>>} => f = g

IInv == TypeOK /\ OwnDescriptors /\ LeaksKnown /\ TapOwned /\ NotYet /\ Single

-----------------------------------------------------------------------------
\* A nonempty set of naturals has a least element.
LEMMA LeastNatural ==
  ASSUME NEW T, T \subseteq Nat, T # {}
  PROVE  \E x \in T : \A y \in T : x <= y
<1> DEFINE R == OpToRel(<, Nat)
<1>1. IsWellFoundedOn(R, Nat)
  BY NatLessThanWellFounded
<1> HIDE DEF R
<1>2. PICK x \in T : \A y \in T : ~ (<<y, x>> \in R)
  BY <1>1, WFMin
<1>3. \A y \in T : ~ (y < x)
  BY <1>2 DEF R, OpToRel
<1> QED
  BY <1>3

\* The kernel hands out a descriptor that is free.
LEMMA LowestIsFree ==
  ASSUME Free # {}
  PROVE  Min(Free) \in Fd /\ use[Min(Free)] = Unused
<1>1. Free \subseteq Nat
  BY MaxFdAssumption DEF Free, Fd
<1>2. \E x \in Free : \A y \in Free : x <= y
  BY <1>1, LeastNatural
<1>3. Min(Free) \in Free
  BY <1>2 DEF Min
<1> QED
  BY <1>3 DEF Free

LEMMA NoFdIsNone == NoFd \notin Fd
  BY MaxFdAssumption DEF NoFd, Fd

\* The uses of a descriptor differ.
LEMMA UsesDiffer ==
  \A c, d : /\ <<"con", c>> # Unused /\ <<"ep", c>> # Unused
            /\ <<"tap">> # Unused /\ <<"listener">> # Unused
            /\ <<"con", c>> # <<"ep", d>>
            /\ <<"con", c>> # <<"tap">> /\ <<"con", c>> # <<"listener">>
            /\ <<"ep", c>> # <<"tap">> /\ <<"ep", c>> # <<"listener">>
            /\ <<"tap">> # <<"listener">>
            /\ <<"con", c>> = <<"con", d>> => c = d
            /\ <<"ep", c>> = <<"ep", d>> => c = d
  BY DEF Unused

LEMMA OpenEffect ==
  ASSUME TypeOK, Free # {}, NEW w \in Uses, w # Unused, Open(w)
  PROVE  /\ use' \in [Fd -> Uses]
         /\ Min(Free) \in Fd
         /\ use[Min(Free)] = Unused
         /\ use'[Min(Free)] = w
         /\ \A g \in Fd : g # Min(Free) => use'[g] = use[g]
         /\ \A g \in Fd : use[g] # Unused => use'[g] = use[g]
  BY LowestIsFree DEF Open, TypeOK

LEMMA CloseEffect ==
  ASSUME TypeOK, NEW f \in Fd, Close(f)
  PROVE  /\ use' \in [Fd -> Uses]
         /\ use'[f] = Unused
         /\ \A g \in Fd : g # f => use'[g] = use[g]
  BY DEF Close, TypeOK, Uses

LEMMA InitHolds == Init => IInv
<1> SUFFICES ASSUME Init PROVE IInv
  OBVIOUS
<1>1. TypeOK
  BY DEF Init, TypeOK, Uses
<1>2. OwnDescriptors /\ TapOwned /\ NotYet
  BY DEF Init, OwnDescriptors, TapOwned, NotYet, Connected
<1>3. LeaksKnown
  <2>1. \A f \in Fd : use[f] = Unused
    BY DEF Init
  <2>2. \A c \in Conn : th[c] = "unused"
    BY DEF Init
  <2> QED
    BY <2>1, <2>2, UsesDiffer DEF LeaksKnown
<1>4. Single
  BY UsesDiffer DEF Init, Single
<1> QED
  BY <1>1, <1>2, <1>3, <1>4 DEF IInv

\* DIE, and steps of main that only go on to the next stage.
LEMMA StageStep ==
  ASSUME IInv, UNCHANGED <<use, tapfd, reader, th, confd, ep>>,
         stage' \in {"died", "rt", "lhost", "pcon", "tap"},
         stage' # "died" => stage \in {"dpg", "rt", "lhost", "pcon"}
  PROVE  IInv'
<1>1. TypeOK'
  BY DEF IInv, TypeOK, Initialised
<1>2. OwnDescriptors' /\ LeaksKnown' /\ TapOwned' /\ Single'
  BY DEF IInv, OwnDescriptors, LeaksKnown, TapOwned, Single
<1>3. NotYet'
  BY DEF IInv, NotYet, Initialised
<1> QED
  BY <1>1, <1>2, <1>3 DEF IInv

\* A descriptor is opened and nobody's thread moves.
LEMMA OpenStep ==
  ASSUME IInv, Free # {}, NEW w \in {<<"tap">>, <<"listener">>}, Open(w),
         UNCHANGED <<reader, th, confd, ep>>
  PROVE  /\ use' \in [Fd -> Uses]
         /\ \A c \in Conn :
              /\ th'[c] \in Connected =>
                   confd'[c] \in Fd /\ use'[confd'[c]] = <<"con", c>>
              /\ th'[c] = "loop" => ep'[c] \in Fd /\ use'[ep'[c]] = <<"ep", c>>
         /\ LeaksKnown'
         /\ Single'
<1>1. TypeOK /\ w \in Uses /\ w # Unused
  BY UsesDiffer DEF IInv, Uses
<1>2. /\ use' \in [Fd -> Uses]
      /\ \A g \in Fd : use[g] # Unused => use'[g] = use[g]
      /\ \A g \in Fd : use'[g] = w \/ use'[g] = use[g]
  BY <1>1, OpenEffect
<1>3. ASSUME NEW c \in Conn
      PROVE  /\ th'[c] \in Connected =>
                  confd'[c] \in Fd /\ use'[confd'[c]] = <<"con", c>>
             /\ th'[c] = "loop" => ep'[c] \in Fd /\ use'[ep'[c]] = <<"ep", c>>
  BY <1>2, UsesDiffer DEF IInv, OwnDescriptors
<1>4. LeaksKnown'
  <2>1. ASSUME NEW f \in Fd, NEW c \in Conn
        PROVE  /\ use'[f] = <<"con", c>> => use[f] = <<"con", c>>
               /\ use'[f] = <<"ep", c>> => use[f] = <<"ep", c>>
    BY <1>2, UsesDiffer
  <2>2. ASSUME NEW c \in Conn, th[c] \in {"left", "refused"}
        PROVE  \E f \in Fd : use'[f] = <<"con", c>>
    BY <2>2, <1>2, UsesDiffer DEF IInv, LeaksKnown
  <2> QED
    BY <2>1, <2>2 DEF IInv, LeaksKnown
<1>5. Single'
  <2>1. ASSUME NEW f \in Fd, NEW c \in Conn,
               use'[f] \in {<<"con", c>>, <<"ep", c>>}
        PROVE  use'[f] = use[f]
    BY <2>1, <1>2, UsesDiffer
  <2> QED
    BY <2>1 DEF IInv, Single
<1> QED
  BY <1>2, <1>3, <1>4, <1>5

LEMMA VnetInitStep ==
  ASSUME IInv, vnet_init
  PROVE  IInv'
<1> USE DEF vnet_init
<1>1. NotYet' /\ reader' = "none"
  BY DEF IInv, NotYet, Initialised
<1>2. CASE Free # {} /\ Open(<<"tap">>) /\ tapfd' = Min(Free)
  <2>1. /\ use' \in [Fd -> Uses] /\ LeaksKnown' /\ Single'
        /\ \A c \in Conn :
             /\ th'[c] \in Connected =>
                  confd'[c] \in Fd /\ use'[confd'[c]] = <<"con", c>>
             /\ th'[c] = "loop" => ep'[c] \in Fd /\ use'[ep'[c]] = <<"ep", c>>
    BY <1>2, OpenStep
  <2>2. Min(Free) \in Fd /\ use'[Min(Free)] = <<"tap">>
    BY <1>2, UsesDiffer, OpenEffect DEF IInv, Uses
  <2>3. TypeOK'
    BY <2>1, <2>2, <1>2 DEF IInv, TypeOK
  <2>4. OwnDescriptors' /\ TapOwned'
    BY <2>1, <2>2, <1>1, <1>2 DEF OwnDescriptors, TapOwned
  <2> QED
    BY <2>1, <2>3, <2>4, <1>1 DEF IInv
<1>3. CASE UNCHANGED <<use, tapfd>>
  <2>1. TypeOK'
    BY <1>3 DEF IInv, TypeOK
  <2>2. OwnDescriptors' /\ LeaksKnown' /\ TapOwned' /\ Single'
    BY <1>3 DEF IInv, OwnDescriptors, LeaksKnown, TapOwned, Single
  <2> QED
    BY <2>1, <2>2, <1>1 DEF IInv
<1> QED
  BY <1>2, <1>3

LEMMA BindStep ==
  ASSUME IInv, peer_listener_bind
  PROVE  IInv'
<1> USE DEF peer_listener_bind
<1>1. /\ use' \in [Fd -> Uses] /\ LeaksKnown' /\ Single'
      /\ \A c \in Conn :
           /\ th'[c] \in Connected =>
                confd'[c] \in Fd /\ use'[confd'[c]] = <<"con", c>>
           /\ th'[c] = "loop" => ep'[c] \in Fd /\ use'[ep'[c]] = <<"ep", c>>
  BY OpenStep
<1>2. /\ Min(Free) \in Fd /\ use'[Min(Free)] = <<"listener">>
      /\ \A g \in Fd : use[g] # Unused => use'[g] = use[g]
  BY UsesDiffer, OpenEffect DEF IInv, Uses
<1>3. TypeOK'
  BY <1>1 DEF IInv, TypeOK, Initialised
<1>4. TapOwned'
  BY <1>2, UsesDiffer DEF IInv, TapOwned
<1>5. OwnDescriptors'
  BY <1>1, <1>2, UsesDiffer DEF IInv, OwnDescriptors
<1>6. NotYet'
  BY DEF IInv, NotYet, Initialised
<1> QED
  BY <1>1, <1>3, <1>4, <1>5, <1>6 DEF IInv

LEMMA SpawnTapStep ==
  ASSUME IInv, vnet_spawn_listener
  PROVE  IInv'
<1> USE DEF vnet_spawn_listener
<1>1. TypeOK'
  BY DEF IInv, TypeOK, Initialised
<1>2. OwnDescriptors'
  BY DEF IInv, OwnDescriptors, TapOwned
<1>3. LeaksKnown' /\ TapOwned' /\ Single'
  BY DEF IInv, LeaksKnown, TapOwned, Single
<1>4. NotYet'
  BY DEF IInv, NotYet, Initialised
<1> QED
  BY <1>1, <1>2, <1>3, <1>4 DEF IInv

LEMMA ReaderEndsStep ==
  ASSUME IInv, ReaderEnds
  PROVE  IInv'
<1> USE DEF ReaderEnds
<1>1. TypeOK'
  BY DEF IInv, TypeOK
<1>2. OwnDescriptors' /\ LeaksKnown' /\ TapOwned' /\ Single'
  BY DEF IInv, OwnDescriptors, LeaksKnown, TapOwned, Single
<1>3. NotYet'
  BY DEF IInv, NotYet
<1> QED
  BY <1>1, <1>2, <1>3 DEF IInv

\* Threads exist only once main has set up everything.
LEMMA ThreadsLate ==
  ASSUME IInv, stage # "died", NEW d \in Conn, th[d] # "unused"
  PROVE  stage \in Initialised \ {"tap"}
  BY DEF IInv, NotYet

\* A thread moves and no descriptor is opened or closed.
LEMMA MoveStep ==
  ASSUME IInv, NEW c \in Conn, NEW q, th' = [th EXCEPT ![c] = q],
         UNCHANGED <<use, tapfd, reader, confd, ep>>,
         stage' \in Initialised \ {"tap"},
         stage' = "accept" => stage = "accept",
         \/ /\ th[c] \in {"unused", "resolve", "connect"}
            /\ q \in {"resolve", "connect", "nothread", "closed"}
         \/ th[c] = "setup" /\ q = "enter"
         \/ th[c] = "enter" /\ q = "left"
  PROVE  IInv'
<1>0. th'[c] = q /\ \A d \in Conn \ {c} : th'[d] = th[d]
  BY DEF IInv, TypeOK
<1>1. TypeOK'
  BY DEF IInv, TypeOK, Connected, Ends
<1>2. OwnDescriptors'
  BY <1>0 DEF IInv, OwnDescriptors, Connected
<1>3. TapOwned' /\ Single'
  BY DEF IInv, TapOwned, Single
<1>4. NotYet'
  BY DEF NotYet, Initialised
<1>5. LeaksKnown'
  <2>1. ASSUME NEW f \in Fd, NEW d \in Conn
        PROVE  /\ use[f] = <<"con", d>> =>
                    th'[d] \in Connected \cup {"left", "refused", "nothread"}
               /\ use[f] = <<"ep", d>> => th'[d] = "loop"
    BY <1>0 DEF IInv, LeaksKnown, Connected
  <2>2. ASSUME NEW d \in Conn, th'[d] \in {"left", "refused"}
        PROVE  \E f \in Fd : use[f] = <<"con", d>>
    <3>1. CASE d = c
      <4>1. th[c] = "enter"
        BY <3>1, <2>2, <1>0
      <4> QED
        BY <4>1, <3>1 DEF IInv, OwnDescriptors, Connected
    <3>2. CASE d # c
      BY <3>2, <2>2, <1>0 DEF IInv, LeaksKnown
    <3> QED
      BY <3>1, <3>2
  <2> QED
    BY <2>1, <2>2 DEF LeaksKnown
<1> QED
  BY <1>1, <1>2, <1>3, <1>4, <1>5 DEF IInv

\* A socket is opened for a connection that has none.
LEMMA SocketStep ==
  ASSUME IInv, stage # "died", NEW c \in Conn, Free # {}, Open(<<"con", c>>),
         NEW q \in {"setup", "nothread", "refused"},
         th' = [th EXCEPT ![c] = q],
         th[c] \in {"unused", "resolve", "connect"},
         \/ confd' = [confd EXCEPT ![c] = Min(Free)]
         \/ q = "refused" /\ confd' = confd,
         stage \in Initialised \ {"tap"},
         UNCHANGED <<stage, tapfd, reader, ep>>
  PROVE  IInv'
<1> DEFINE f == Min(Free)
<1>1. TypeOK /\ <<"con", c>> \in Uses /\ <<"con", c>> # Unused
  BY UsesDiffer DEF IInv, Uses
<1>2. /\ use' \in [Fd -> Uses] /\ f \in Fd
      /\ use[f] = Unused /\ use'[f] = <<"con", c>>
      /\ \A g \in Fd : g # f => use'[g] = use[g]
      /\ \A g \in Fd : use[g] # Unused => use'[g] = use[g]
  BY <1>1, OpenEffect
<1> HIDE DEF f
<1>3. /\ th'[c] = q /\ \A d \in Conn \ {c} : th'[d] = th[d]
      /\ \A d \in Conn \ {c} : confd'[d] = confd[d]
      /\ q # "refused" => confd'[c] = f
      /\ confd' \in [Conn -> Fd \cup {NoFd}]
  BY <1>2 DEF IInv, TypeOK, f
<1>4. TypeOK'
  BY <1>2, <1>3 DEF IInv, TypeOK, Connected, Ends
<1>5. TapOwned'
  BY <1>2, UsesDiffer DEF IInv, TapOwned
<1>6. NotYet'
  BY DEF NotYet
\* No descriptor was open for this connection before.
<1>7. \A g \in Fd : use[g] # <<"con", c>> /\ use[g] # <<"ep", c>>
  BY DEF IInv, LeaksKnown, Connected
<1>8. OwnDescriptors'
  <2>1. ASSUME NEW d \in Conn, th'[d] \in Connected
        PROVE  confd'[d] \in Fd /\ use'[confd'[d]] = <<"con", d>>
    <3>1. CASE d = c
      BY <3>1, <2>1, <1>2, <1>3 DEF Connected
    <3>2. CASE d # c
      BY <3>2, <2>1, <1>2, <1>3, UsesDiffer DEF IInv, OwnDescriptors
    <3> QED
      BY <3>1, <3>2
  <2>2. ASSUME NEW d \in Conn, th'[d] = "loop"
        PROVE  ep'[d] \in Fd /\ use'[ep'[d]] = <<"ep", d>>
    <3>1. d # c /\ th[d] = "loop" /\ ep'[d] = ep[d]
      BY <2>2, <1>3
    <3>2. ep[d] \in Fd /\ use[ep[d]] = <<"ep", d>>
      BY <3>1 DEF IInv, OwnDescriptors
    <3> QED
      BY ONLY <3>1, <3>2, <1>2, UsesDiffer
  <2>3. reader' = "reads" => tapfd' \in Fd /\ use'[tapfd'] = <<"tap">>
    BY <1>2, UsesDiffer DEF IInv, OwnDescriptors
  <2>4. stage' = "accept" => \E g \in Fd : use'[g] = <<"listener">>
    BY <1>2, UsesDiffer DEF IInv, OwnDescriptors
  <2> QED
    BY <2>1, <2>2, <2>3, <2>4 DEF OwnDescriptors
<1>9. LeaksKnown'
  <2>1. ASSUME NEW g \in Fd, NEW d \in Conn
        PROVE  /\ use'[g] = <<"con", d>> =>
                    th'[d] \in Connected \cup {"left", "refused", "nothread"}
               /\ use'[g] = <<"ep", d>> => th'[d] = "loop"
    <3>1. CASE g = f
      BY <3>1, <1>2, <1>3, UsesDiffer DEF Connected
    <3>2. CASE g # f
      BY <3>2, <1>2, <1>3, <1>7 DEF IInv, LeaksKnown
    <3> QED
      BY <3>1, <3>2
  <2>2. ASSUME NEW d \in Conn, th'[d] \in {"left", "refused"}
        PROVE  \E g \in Fd : use'[g] = <<"con", d>>
    <3>1. CASE d = c
      BY <3>1, <1>2
    <3>2. CASE d # c
      <4>1. PICK g \in Fd : use[g] = <<"con", d>>
        BY <3>2, <2>2, <1>2 DEF IInv, LeaksKnown
      <4>2. g # f
        BY <4>1, <1>2, UsesDiffer
      <4> QED
        BY <4>1, <4>2, <1>2
    <3> QED
      BY <3>1, <3>2
  <2> QED
    BY <2>1, <2>2 DEF LeaksKnown
<1>10. Single'
  <2> SUFFICES ASSUME NEW g \in Fd, NEW h \in Fd, NEW d \in Conn,
                      use'[g] = use'[h],
                      use'[g] \in {<<"con", d>>, <<"ep", d>>}
               PROVE  g = h
    BY DEF Single
  <2>1. CASE g = f \/ h = f
    BY <2>1, <1>2, <1>7
  <2>2. CASE g # f /\ h # f
    BY <2>2, <1>2 DEF IInv, Single
  <2> QED
    BY <2>1, <2>2
<1> QED
  BY <1>4, <1>5, <1>6, <1>8, <1>9, <1>10 DEF IInv

\* epoll_create.
LEMMA EpollStep ==
  ASSUME IInv, stage # "died", NEW c \in Conn, dp_th(c)
  PROVE  IInv'
<1> USE DEF dp_th, Goto
<1> DEFINE f == Min(Free)
<1>1. TypeOK /\ <<"ep", c>> \in Uses /\ <<"ep", c>> # Unused
  BY UsesDiffer DEF IInv, Uses
<1>2. /\ use' \in [Fd -> Uses] /\ f \in Fd
      /\ use[f] = Unused /\ use'[f] = <<"ep", c>>
      /\ \A g \in Fd : g # f => use'[g] = use[g]
      /\ \A g \in Fd : use[g] # Unused => use'[g] = use[g]
  BY <1>1, OpenEffect
<1>3. /\ th'[c] = "loop" /\ \A d \in Conn \ {c} : th'[d] = th[d]
      /\ ep'[c] = f /\ \A d \in Conn \ {c} : ep'[d] = ep[d]
  BY DEF IInv, TypeOK
<1> HIDE DEF f
<1>4. TypeOK'
  <2>1. th' = [th EXCEPT ![c] = "loop"] /\ ep' = [ep EXCEPT ![c] = f]
    BY DEF f
  <2> QED
    BY <2>1, <1>2 DEF IInv, TypeOK, Connected
<1>5. TapOwned'
  BY <1>2, UsesDiffer DEF IInv, TapOwned
<1>6. NotYet'
  BY ThreadsLate DEF NotYet
<1>7. \A g \in Fd : use[g] # <<"ep", c>>
  BY DEF IInv, LeaksKnown
<1>8. OwnDescriptors'
  <2>1. ASSUME NEW d \in Conn, th'[d] \in Connected
        PROVE  confd'[d] \in Fd /\ use'[confd'[d]] = <<"con", d>>
    <3>1. th[d] \in Connected
      BY <2>1, <1>3 DEF Connected
    <3> QED
      BY <3>1, <1>2, UsesDiffer DEF IInv, OwnDescriptors
  <2>2. ASSUME NEW d \in Conn, th'[d] = "loop"
        PROVE  ep'[d] \in Fd /\ use'[ep'[d]] = <<"ep", d>>
    <3>1. CASE d = c
      BY <3>1, <1>2, <1>3
    <3>2. CASE d # c
      <4>1. th[d] = "loop" /\ ep'[d] = ep[d]
        BY ONLY <3>2, <2>2, <1>3
      <4>2. ep[d] \in Fd /\ use[ep[d]] = <<"ep", d>>
        BY <4>1 DEF IInv, OwnDescriptors
      <4> QED
        BY ONLY <4>1, <4>2, <1>2, UsesDiffer
    <3> QED
      BY <3>1, <3>2
  <2>3. reader' = "reads" => tapfd' \in Fd /\ use'[tapfd'] = <<"tap">>
    BY <1>2, UsesDiffer DEF IInv, OwnDescriptors
  <2>4. stage' = "accept" => \E g \in Fd : use'[g] = <<"listener">>
    BY <1>2, UsesDiffer DEF IInv, OwnDescriptors
  <2> QED
    BY <2>1, <2>2, <2>3, <2>4 DEF OwnDescriptors
<1>9. LeaksKnown'
  <2>1. ASSUME NEW g \in Fd, NEW d \in Conn
        PROVE  /\ use'[g] = <<"con", d>> =>
                    th'[d] \in Connected \cup {"left", "refused", "nothread"}
               /\ use'[g] = <<"ep", d>> => th'[d] = "loop"
    <3>1. CASE g = f
      BY <3>1, <1>2, <1>3, UsesDiffer
    <3>2. CASE g # f
      BY <3>2, <1>2, <1>3, <1>7 DEF IInv, LeaksKnown, Connected
    <3> QED
      BY <3>1, <3>2
  <2>2. ASSUME NEW d \in Conn, th'[d] \in {"left", "refused"}
        PROVE  \E g \in Fd : use'[g] = <<"con", d>>
    <3>1. d # c /\ th[d] \in {"left", "refused"}
      BY <2>2, <1>2
    <3>2. PICK g \in Fd : use[g] = <<"con", d>>
      BY <3>1 DEF IInv, LeaksKnown
    <3>3. g # f
      BY <3>2, <1>2, UsesDiffer
    <3> QED
      BY <3>2, <3>3, <1>2
  <2> QED
    BY <2>1, <2>2 DEF LeaksKnown
<1>10. Single'
  <2> SUFFICES ASSUME NEW g \in Fd, NEW h \in Fd, NEW d \in Conn,
                      use'[g] = use'[h],
                      use'[g] \in {<<"con", d>>, <<"ep", d>>}
               PROVE  g = h
    BY DEF Single
  <2>1. CASE g = f \/ h = f
    BY <2>1, <1>2, <1>7
  <2>2. CASE g # f /\ h # f
    BY <2>2, <1>2 DEF IInv, Single
  <2> QED
    BY <2>1, <2>2
<1> QED
  BY <1>4, <1>5, <1>6, <1>8, <1>9, <1>10 DEF IInv

\* A thread closes a descriptor of its own and moves on.
LEMMA CloseStep ==
  ASSUME IInv, stage # "died", NEW c \in Conn, NEW f \in Fd, Close(f),
         NEW q, th' = [th EXCEPT ![c] = q],
         UNCHANGED <<stage, tapfd, reader, confd, ep>>,
         \/ th[c] = "setup" /\ q = "closed" /\ use[f] = <<"con", c>>
         \/ th[c] = "loop" /\ q = "left" /\ use[f] = <<"ep", c>>
  PROVE  IInv'
<1>1. TypeOK
  BY DEF IInv
<1>2. /\ use' \in [Fd -> Uses] /\ use'[f] = Unused
      /\ \A g \in Fd : g # f => use'[g] = use[g]
  BY <1>1, CloseEffect
<1>3. th'[c] = q /\ \A d \in Conn \ {c} : th'[d] = th[d]
  BY DEF IInv, TypeOK
<1>4. TypeOK'
  BY <1>2 DEF IInv, TypeOK, Connected, Ends
<1>5. TapOwned'
  BY <1>2, UsesDiffer DEF IInv, TapOwned
<1>6. NotYet'
  BY ThreadsLate DEF NotYet
<1>7. \A g \in Fd : g # f => use[g] # use[f]
  BY DEF IInv, Single
<1>8. OwnDescriptors'
  <2>1. ASSUME NEW d \in Conn, th'[d] \in Connected
        PROVE  confd'[d] \in Fd /\ use'[confd'[d]] = <<"con", d>>
    <3>1. d # c /\ th[d] \in Connected
      BY <2>1, <1>3 DEF Connected
    <3>2. confd[d] \in Fd /\ use[confd[d]] = <<"con", d>>
      BY <3>1 DEF IInv, OwnDescriptors
    <3>3. confd[d] # f
      BY <3>1, <3>2, UsesDiffer
    <3> QED
      BY <3>2, <3>3, <1>2
  <2>2. ASSUME NEW d \in Conn, th'[d] = "loop"
        PROVE  ep'[d] \in Fd /\ use'[ep'[d]] = <<"ep", d>>
    <3>1. d # c /\ th[d] = "loop"
      BY <2>2, <1>3
    <3>2. ep[d] \in Fd /\ use[ep[d]] = <<"ep", d>>
      BY <3>1 DEF IInv, OwnDescriptors
    <3>3. ep[d] # f
      BY <3>1, <3>2, UsesDiffer
    <3> QED
      BY <3>2, <3>3, <1>2
  <2>3. reader' = "reads" => tapfd' \in Fd /\ use'[tapfd'] = <<"tap">>
    BY <1>2, UsesDiffer DEF IInv, OwnDescriptors
  <2>4. stage' = "accept" => \E g \in Fd : use'[g] = <<"listener">>
    BY <1>2, UsesDiffer DEF IInv, OwnDescriptors
  <2> QED
    BY <2>1, <2>2, <2>3, <2>4 DEF OwnDescriptors
<1>9. LeaksKnown'
  <2>1. ASSUME NEW g \in Fd, NEW d \in Conn
        PROVE  /\ use'[g] = <<"con", d>> =>
                    th'[d] \in Connected \cup {"left", "refused", "nothread"}
               /\ use'[g] = <<"ep", d>> => th'[d] = "loop"
    <3>1. CASE g = f
      BY <3>1, <1>2, UsesDiffer
    <3>2. CASE g # f /\ d # c
      BY <3>2, <1>2, <1>3 DEF IInv, LeaksKnown
    <3>3. CASE g # f /\ d = c
      BY <3>3, <1>2, <1>3, <1>7 DEF IInv, LeaksKnown
    <3> QED
      BY <3>1, <3>2, <3>3
  <2>2. ASSUME NEW d \in Conn, th'[d] \in {"left", "refused"}
        PROVE  \E g \in Fd : use'[g] = <<"con", d>>
    <3>1. CASE d = c
      <4>1. th[c] = "loop" /\ use[f] = <<"ep", c>>
        BY <3>1, <2>2, <1>3
      <4>2. confd[c] \in Fd /\ use[confd[c]] = <<"con", c>>
        BY <4>1 DEF IInv, OwnDescriptors, Connected
      <4> QED
        BY <4>1, <4>2, <3>1, <1>2, UsesDiffer
    <3>2. CASE d # c
      <4>1. PICK g \in Fd : use[g] = <<"con", d>>
        BY <3>2, <2>2, <1>3 DEF IInv, LeaksKnown
      <4>2. g # f
        BY <4>1, <3>2, UsesDiffer
      <4> QED
        BY <4>1, <4>2, <1>2
    <3> QED
      BY <3>1, <3>2
  <2> QED
    BY <2>1, <2>2 DEF LeaksKnown
<1>10. Single'
  <2> SUFFICES ASSUME NEW g \in Fd, NEW h \in Fd, NEW d \in Conn,
                      use'[g] = use'[h],
                      use'[g] \in {<<"con", d>>, <<"ep", d>>}
               PROVE  g = h
    BY DEF Single
  <2>1. g # f /\ h # f
    BY <1>2, UsesDiffer
  <2> QED
    BY <2>1, <1>2 DEF IInv, Single
<1> QED
  BY <1>4, <1>5, <1>6, <1>8, <1>9, <1>10 DEF IInv

-----------------------------------------------------------------------------
LEMMA MainStepHolds ==
  ASSUME IInv, stage # "died", MainStep
  PROVE  IInv'
<1>1. CASE InitTables
  <2>1. stage' = AfterInit(stage) /\ stage \in {"dpg", "rt", "lhost", "pcon"}
    BY <1>1 DEF InitTables
  <2>2. stage' \in {"rt", "lhost", "pcon", "tap"}
    BY <2>1 DEF AfterInit
  <2> QED
    BY <1>1, <2>1, <2>2, StageStep DEF InitTables
<1>2. CASE InitTablesFails \/ vnet_spawn_listener_fails \/ peer_listener_bind_fails
  BY <1>2, StageStep
  DEF InitTablesFails, vnet_spawn_listener_fails, peer_listener_bind_fails, Die
<1>3. CASE dp_create_initial
  <2>1. CASE UNCHANGED th
    <3>1. TypeOK'
      BY <1>3, <2>1 DEF dp_create_initial, IInv, TypeOK, Initialised
    <3>2. OwnDescriptors' /\ LeaksKnown' /\ TapOwned' /\ Single'
      BY <1>3, <2>1
      DEF dp_create_initial, IInv, OwnDescriptors, LeaksKnown, TapOwned, Single
    <3>3. NotYet'
      BY <1>3 DEF dp_create_initial, NotYet, Initialised
    <3> QED
      BY <3>1, <3>2, <3>3 DEF IInv
  <2>2. ASSUME NEW c \in Conn, th[c] = "unused", Spawn(c, "resolve")
        PROVE  IInv'
    BY <1>3, <2>2, MoveStep DEF dp_create_initial, Spawn, Goto, Initialised
  <2> QED
    BY <1>3, <2>1, <2>2 DEF dp_create_initial
<1> QED
  BY <1>1, <1>2, <1>3, VnetInitStep, BindStep, SpawnTapStep DEF MainStep

LEMMA ListenHolds ==
  ASSUME IInv, stage # "died", Listen
  PROVE  IInv'
<1>1. CASE peer_listener_fails
  BY <1>1, StageStep DEF peer_listener_fails, Die
<1>2. ASSUME NEW c \in Conn, peer_listener(c) PROVE IInv'
  <2>1. PICK q \in {"setup", "nothread"} : th' = [th EXCEPT ![c] = q]
    BY <1>2 DEF peer_listener, Spawn, Goto
  <2> QED
    BY <1>2, <2>1, SocketStep DEF peer_listener, Initialised
<1> QED
  BY <1>1, <1>2 DEF Listen

LEMMA ThreadStepHolds ==
  ASSUME IInv, stage # "died", NEW c \in Conn, ThreadStep(c)
  PROVE  IInv'
<1>1. CASE dp_create_linkstate(c)
  <2>1. stage \in Initialised \ {"tap"}
    BY <1>1, ThreadsLate DEF dp_create_linkstate
  <2>2. PICK q \in {"connect", "nothread"} : th' = [th EXCEPT ![c] = q]
    BY <1>1 DEF dp_create_linkstate, Spawn, Goto
  <2> QED
    BY <1>1, <2>1, <2>2, MoveStep DEF dp_create_linkstate
<1>2. CASE Connect(c)
  <2>1. stage \in Initialised \ {"tap"}
    BY <1>2, ThreadsLate DEF Connect
  <2> QED
    BY <1>2, <2>1, SocketStep DEF Connect, Goto
<1>3. CASE ConnectFails(c)
  <2>1. stage \in Initialised \ {"tap"}
    BY <1>3, ThreadsLate DEF ConnectFails
  <2>2. CASE th' = [th EXCEPT ![c] = "closed"] /\ use' = use
    BY <1>3, <2>1, <2>2, MoveStep DEF ConnectFails
  <2>3. CASE th' = [th EXCEPT ![c] = "refused"] /\ Free # {} /\ Open(<<"con", c>>)
    BY <1>3, <2>1, <2>3, SocketStep DEF ConnectFails
  <2> QED
    BY <1>3, <2>2, <2>3 DEF ConnectFails, Goto
<1>4. CASE SetupFails(c)
  <2>1. confd[c] \in Fd /\ use[confd[c]] = <<"con", c>>
    BY <1>4 DEF SetupFails, IInv, OwnDescriptors, Connected
  <2> QED
    BY <1>4, <2>1, CloseStep DEF SetupFails, Goto
<1>5. CASE SetupEnds(c)
  <2>1. stage \in Initialised \ {"tap"}
    BY <1>5, ThreadsLate DEF SetupEnds
  <2> QED
    BY <1>5, <2>1, MoveStep DEF SetupEnds, Goto
<1>6. CASE dp_th(c)
  BY <1>6, EpollStep
<1>7. CASE dp_th_fails(c)
  <2>1. stage \in Initialised \ {"tap"}
    BY <1>7, ThreadsLate DEF dp_th_fails
  <2> QED
    BY <1>7, <2>1, MoveStep DEF dp_th_fails, Goto
<1>8. CASE LoopEnds(c)
  <2>1. ep[c] \in Fd /\ use[ep[c]] = <<"ep", c>>
    BY <1>8 DEF LoopEnds, IInv, OwnDescriptors
  <2> QED
    BY <1>8, <2>1, CloseStep DEF LoopEnds, Goto
<1> QED
  BY <1>1, <1>2, <1>3, <1>4, <1>5, <1>6, <1>7, <1>8 DEF ThreadStep

LEMMA StutterStep == IInv /\ UNCHANGED vars => IInv'
<1> SUFFICES ASSUME IInv, UNCHANGED vars
             PROVE  IInv'
  OBVIOUS
<1>1. TypeOK'
  BY DEF IInv, vars, TypeOK
<1>2. OwnDescriptors'
  BY DEF IInv, vars, OwnDescriptors
<1>3. LeaksKnown'
  BY DEF IInv, vars, LeaksKnown
<1>4. TapOwned' /\ NotYet'
  BY DEF IInv, vars, TapOwned, NotYet
<1>5. Single'
  BY DEF IInv, vars, Single
<1> QED
  BY <1>1, <1>2, <1>3, <1>4, <1>5 DEF IInv

LEMMA IInvAlways == Spec => []IInv
<1>1. IInv /\ [Next]_vars => IInv'
  BY MainStepHolds, ListenHolds, ThreadStepHolds, ReaderEndsStep, StutterStep
  DEF Next
<1> QED
  BY InitHolds, <1>1, PTL DEF Spec

-----------------------------------------------------------------------------
(***************************************************************************)
(* Type correctness, for any number of connections and descriptors.        *)
(***************************************************************************)
THEOREM TypeCorrect == Spec => []TypeOK
<1>1. IInv => TypeOK
  BY DEF IInv
<1> QED
  BY <1>1, IInvAlways, PTL

(***************************************************************************)
(* Whatever number of connections come and go and however numbers are used *)
(* again, a thread reads, writes and closes descriptors of its own only.   *)
(***************************************************************************)
THEOREM DescriptorsAreOwn == Spec => []OwnDescriptors
<1>1. IInv => OwnDescriptors
  BY DEF IInv
<1> QED
  BY <1>1, IInvAlways, PTL

(***************************************************************************)
(* The ends of a thread that leave a descriptor open are dp_th, a failed   *)
(* connect() in connect_inet, and a pthread_create that fails; no other    *)
(* path loses one.                                                         *)
(***************************************************************************)
THEOREM LeaksAreKnown == Spec => []LeaksKnown
<1>1. IInv => LeaksKnown
  BY DEF IInv
<1> QED
  BY <1>1, IInvAlways, PTL
=============================================================================
