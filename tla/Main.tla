-------------------------------- MODULE Main --------------------------------
(***************************************************************************)
(* main, the listener and the descriptors of the process (sock.c, with the *)
(* parts of vnet.c and dpeer.c that open and close them): the order of     *)
(* initialisation, threads that run while main goes on, connections that   *)
(* come and go, and a table of descriptors that is limited.                *)
(*                                                                         *)
(* The kernel hands out the lowest number that is free, so that a number   *)
(* that was closed soon belongs to somebody else.                          *)
(***************************************************************************)
EXTENDS Integers, FiniteSets, FiniteSetsExt

CONSTANTS Conn,      \* connections, of all three kinds
          MaxFd,     \* how many descriptors the process may have
          Faults     \* what may go wrong

(***************************************************************************)
(* "tun":    no access to /dev/net/tun, or reading it fails later          *)
(* "config": a host or port of the command line cannot be used             *)
(* "nomem":  malloc fails                                                  *)
(* "thread": pthread_create fails                                          *)
(***************************************************************************)
ASSUME FaultsAssumption == Faults \subseteq {"tun", "config", "nomem", "thread"}
ASSUME MaxFdAssumption == MaxFd \in Nat

VARIABLES stage,   \* what main does next, "died" after DIE
          use,     \* what a descriptor is open for
          tapfd,   \* vnet->fd
          reader,  \* the thread vnet_reader_th: "none", "reads", "ended"
          th,      \* the thread of a connection
          confd,   \* its dp->con_fd
          ep       \* its variable ep

vars == <<stage, use, tapfd, reader, th, confd, ep>>

Fd == 0..(MaxFd - 1)
NoFd == -1

Unused == <<"free">>
Free == {f \in Fd : use[f] = Unused}
Uses == {Unused, <<"tap">>, <<"listener">>} \cup ({"con", "ep"} \X Conn)

\* Threads with a connection; ends of threads: the descriptor was closed or
\* never there; connect() failed; dp_th has ended; there never was a thread.
Connected == {"setup", "enter", "loop"}
Ends == {"closed", "refused", "left", "nothread"}

\* main has done everything that threads rely on.
Initialised == {"tap", "peer", "bind", "accept"}

Init ==
  /\ stage = "vnet"
  /\ use = [f \in Fd |-> Unused]
  /\ tapfd = NoFd
  /\ reader = "none"
  /\ th = [c \in Conn |-> "unused"]
  /\ confd = [c \in Conn |-> NoFd]
  /\ ep = [c \in Conn |-> NoFd]

Open(what) == use' = [use EXCEPT ![Min(Free)] = what]
Close(f) == use' = [use EXCEPT ![f] = Unused]
Goto(c, p) == th' = [th EXCEPT ![c] = p]

-----------------------------------------------------------------------------
(* main.                                                                   *)

\* DIE: exit, and with it the end of all threads.
Die ==
  /\ stage' = "died"
  /\ UNCHANGED <<use, tapfd, reader, th, confd, ep>>

\* A faulty variant of vnet_init: vnet_init_noperm does not set fd to -1.
vnet_init_keeps_fd ==
  /\ stage = "vnet"
  /\ stage' = "dpg"
  /\ Free # {}
  /\ \/ Open(<<"tap">>)
     \/ "tun" \in Faults /\ UNCHANGED use
  /\ tapfd' = Min(Free)
  /\ UNCHANGED <<reader, th, confd, ep>>

\* vnet_init: the tap device, or vnet_init_noperm.
vnet_init ==
  /\ stage = "vnet"
  /\ stage' = "dpg"
  /\ \/ /\ Free # {}
        /\ Open(<<"tap">>)
        /\ tapfd' = Min(Free)
     \/ /\ "tun" \in Faults \/ Free = {}
        /\ UNCHANGED <<use, tapfd>>
  /\ UNCHANGED <<reader, th, confd, ep>>

AfterInit(s) == [dpg |-> "rt", rt |-> "lhost", lhost |-> "pcon", pcon |-> "tap"][s]

\* dpg_init, rt_init, rt_lhost_add, pcon_init.
InitTables ==
  /\ stage \in {"dpg", "rt", "lhost", "pcon"}
  /\ stage' = AfterInit(stage)
  /\ UNCHANGED <<use, tapfd, reader, th, confd, ep>>

InitTablesFails ==
  /\ \/ "nomem" \in Faults /\ stage \in {"dpg", "rt", "lhost", "pcon"}
     \/ "config" \in Faults /\ stage = "dpg"
  /\ Die

vnet_spawn_listener ==
  /\ stage = "tap"
  /\ stage' = "peer"
  /\ reader' = IF tapfd = NoFd THEN "none" ELSE "reads"
  /\ UNCHANGED <<use, tapfd, th, confd, ep>>

vnet_spawn_listener_fails ==
  /\ stage = "tap"
  /\ tapfd # NoFd
  /\ {"nomem", "thread"} \cap Faults # {}
  /\ Die

\* dp_spawn_th.  pthread_create reports errors with positive numbers, which
\* the callers do not take for errors: the dp_t is never seen again.
Spawn(c, p) ==
  \/ Goto(c, p)
  \/ "thread" \in Faults /\ Goto(c, "nothread")

\* dp_create_initial, if a host was given; an error is a warning only.
dp_create_initial ==
  /\ stage = "peer"
  /\ stage' = "bind"
  /\ \/ UNCHANGED th
     \/ \E c \in Conn : th[c] = "unused" /\ Spawn(c, "resolve")
  /\ UNCHANGED <<use, tapfd, reader, confd, ep>>

peer_listener_bind ==
  /\ stage = "bind"
  /\ Free # {}
  /\ Open(<<"listener">>)
  /\ stage' = "accept"
  /\ UNCHANGED <<tapfd, reader, th, confd, ep>>

peer_listener_bind_fails ==
  /\ stage = "bind"
  /\ Free = {} \/ "config" \in Faults
  /\ Die

\* One turn of peer_listener: accept, dp_create_incoming.
peer_listener(c) ==
  /\ stage = "accept"
  /\ th[c] = "unused"
  /\ Free # {}
  /\ Open(<<"con", c>>)
  /\ confd' = [confd EXCEPT ![c] = Min(Free)]
  /\ Spawn(c, "setup")
  /\ UNCHANGED <<stage, tapfd, reader, ep>>

\* accept fails, or dp_create_incoming does.
peer_listener_fails ==
  /\ stage = "accept"
  /\ \E c \in Conn : th[c] = "unused"
  /\ Free = {} \/ "nomem" \in Faults
  /\ Die

-----------------------------------------------------------------------------
(* Threads.                                                                *)

\* pcon_connect, called by a thread that reads a link graph.
dp_create_linkstate(c) ==
  /\ th[c] = "unused"
  /\ \E d \in Conn : th[d] \in {"setup", "loop"}
  /\ Spawn(c, "connect")
  /\ UNCHANGED <<stage, use, tapfd, reader, confd, ep>>

\* connect_host or connect_inet.
Connect(c) ==
  /\ th[c] \in {"resolve", "connect"}
  /\ Free # {}
  /\ Open(<<"con", c>>)
  /\ confd' = [confd EXCEPT ![c] = Min(Free)]
  /\ Goto(c, "setup")
  /\ UNCHANGED <<stage, tapfd, reader, ep>>

\* No descriptor, or no answer: connect_host closes the socket, connect_inet
\* does not.
ConnectFails(c) ==
  \/ /\ th[c] \in {"resolve", "connect"}
     /\ Free = {} \/ th[c] = "resolve"
     /\ Goto(c, "closed")
     /\ UNCHANGED <<stage, use, tapfd, reader, confd, ep>>
  \/ /\ th[c] = "connect"
     /\ Free # {}
     /\ Open(<<"con", c>>)
     /\ Goto(c, "refused")
     /\ UNCHANGED <<stage, tapfd, reader, confd, ep>>

\* A faulty variant of SetupFails: cleanup_fd is left out.
SetupFailsOpen(c) ==
  /\ th[c] = "setup"
  /\ Goto(c, "closed")
  /\ UNCHANGED <<stage, use, tapfd, reader, confd, ep>>

\* cleanup_fd of the three set-up functions.
SetupFails(c) ==
  /\ th[c] = "setup"
  /\ Close(confd[c])
  /\ Goto(c, "closed")
  /\ UNCHANGED <<stage, tapfd, reader, confd, ep>>

SetupEnds(c) ==
  /\ th[c] = "setup"
  /\ Goto(c, "enter")
  /\ UNCHANGED <<stage, use, tapfd, reader, confd, ep>>

\* dp_th until its loop: epoll_create, epoll_ctl.
dp_th(c) ==
  /\ th[c] = "enter"
  /\ Free # {}
  /\ Open(<<"ep", c>>)
  /\ ep' = [ep EXCEPT ![c] = Min(Free)]
  /\ Goto(c, "loop")
  /\ UNCHANGED <<stage, tapfd, reader, confd>>

dp_th_fails(c) ==
  /\ th[c] = "enter"
  /\ Free = {}
  /\ Goto(c, "left")
  /\ UNCHANGED <<stage, use, tapfd, reader, confd, ep>>

\* A faulty variant of LoopEnds: the thread stays to connect again.
LoopEndsStays(c) ==
  /\ th[c] = "loop"
  /\ Close(ep[c])
  /\ Goto(c, "again")
  /\ UNCHANGED <<stage, tapfd, reader, confd, ep>>

\* cleanup_ep and cleanup_1 of dp_th: con_fd is not closed.
LoopEnds(c) ==
  /\ th[c] = "loop"
  /\ Close(ep[c])
  /\ Goto(c, "left")
  /\ UNCHANGED <<stage, tapfd, reader, confd, ep>>

\* vnet_recv fails.  The descriptor stays open, and nobody reads it again.
ReaderEnds ==
  /\ "tun" \in Faults
  /\ reader = "reads"
  /\ reader' = "ended"
  /\ UNCHANGED <<stage, use, tapfd, th, confd, ep>>

-----------------------------------------------------------------------------
MainStep ==
  \/ vnet_init \/ InitTables \/ InitTablesFails
  \/ vnet_spawn_listener \/ vnet_spawn_listener_fails
  \/ dp_create_initial \/ peer_listener_bind \/ peer_listener_bind_fails

Listen == peer_listener_fails \/ \E c \in Conn : peer_listener(c)

ThreadStep(c) ==
  \/ dp_create_linkstate(c) \/ Connect(c) \/ ConnectFails(c)
  \/ SetupFails(c) \/ SetupEnds(c) \/ dp_th(c) \/ dp_th_fails(c) \/ LoopEnds(c)

Next ==
  /\ stage # "died"
  /\ MainStep \/ Listen \/ ReaderEnds \/ \E c \in Conn : ThreadStep(c)

Spec == Init /\ [][Next]_vars

-----------------------------------------------------------------------------
TypeOK ==
  /\ stage \in {"vnet", "dpg", "rt", "lhost", "pcon", "died"} \cup Initialised
  /\ use \in [Fd -> Uses]
  /\ tapfd \in Fd \cup {NoFd}
  /\ reader \in {"none", "reads", "ended"}
  /\ th \in [Conn -> {"unused", "resolve", "connect"} \cup Connected \cup Ends]
  /\ confd \in [Conn -> Fd \cup {NoFd}]
  /\ ep \in [Conn -> Fd \cup {NoFd}]

(***************************************************************************)
(* Although numbers are used again and con_fd and ep are only numbers, a   *)
(* thread that is to read, write or close a descriptor (dp_th, the set-up  *)
(* functions and their cleanup_fd, vnet_reader_th, peer_listener) has one  *)
(* that was opened for it: none is closed twice, or by somebody else.      *)
(***************************************************************************)
OwnDescriptors ==
  /\ \A c \in Conn :
       /\ th[c] \in Connected => confd[c] \in Fd /\ use[confd[c]] = <<"con", c>>
       /\ th[c] = "loop" => ep[c] \in Fd /\ use[ep[c]] = <<"ep", c>>
  /\ reader = "reads" => tapfd \in Fd /\ use[tapfd] = <<"tap">>
  /\ stage = "accept" => \E f \in Fd : use[f] = <<"listener">>

(***************************************************************************)
(* Where descriptors are lost.  The thread of a connection that has ended  *)
(* has left one open exactly if it had come as far as dp_th, or connect()  *)
(* failed in connect_inet, or it was never started; all other ends, early  *)
(* or late, close what they have opened.  (So the listener, which dies if  *)
(* accept fails, serves a limited number of peers in its life.)            *)
(***************************************************************************)
LeaksKnown ==
  /\ \A f \in Fd, c \in Conn :
       /\ use[f] = <<"con", c>> => th[c] \in Connected \cup {"left", "refused", "nothread"}
       /\ use[f] = <<"ep", c>> => th[c] = "loop"
  /\ \A c \in Conn :
       th[c] \in {"left", "refused"} => \E f \in Fd : use[f] = <<"con", c>>
=============================================================================
