-------------------------------- MODULE Pcon --------------------------------
(***************************************************************************)
(* The connection limiter (pcon.c): threads that read link graphs call     *)
(* pcon_connect for every node named in them, and a connection to one host *)
(* is to be tried at most once in two seconds.  The table of attempts is   *)
(* an array (darray.h) that is sorted after each insertion and searched by *)
(* bisection (DEF_BSEARCH), all of it under pc->lock.                      *)
(*                                                                         *)
(* A host is a number: its MAC address followed by its IP address and port *)
(* (two digits in base BYTE, so that the byte order can be told), which is *)
(* the order of host_cmp.  There are two clocks: gettimeofday, which may   *)
(* be set back and set forward, and the time that passes.                  *)
(***************************************************************************)
EXTENDS Integers, Sequences, FiniteSets

CONSTANTS Thread, Nobody,  \* threads, and none
          Node,            \* the nodes of the network, with their addresses
          BYTE,            \* the base of the digits of an address
          EASE,            \* PC_CON_EASE_SEC
          InitSz,          \* PC_INIT_SZ
          MaxTime,         \* bound: how much time passes
          MaxBack,         \* bound: how far the clock is set back in all
          MaxAhead,        \* bound: how far it is set forward in all
          Faults           \* "nomem": a reallocation may fail

ASSUME NobodyAssumption == Nobody \notin Thread
ASSUME NodeAssumption ==
  IsFiniteSet(Node) /\ Node \subseteq Nat /\ BYTE \in Nat \ {0}
ASSUME EaseAssumption == {EASE, MaxTime, MaxBack, MaxAhead} \subseteq Nat
ASSUME SizeAssumption == InitSz \in Nat
ASSUME FaultsAssumption == Faults \subseteq {"nomem"}

-----------------------------------------------------------------------------
(* Addresses on the wire.                                                  *)

(***************************************************************************)
(* pkt_ipv4_pack applies htonl and htons to an address and a port that are *)
(* in network order already: on a little-endian machine the bytes change   *)
(* places.  pkt_ipv4_unpack copies them as they are.                       *)
(***************************************************************************)
Pack(h) ==
  LET mac == h \div (BYTE * BYTE)
      hi == (h \div BYTE) % BYTE
      lo == h % BYTE
  IN  (mac * BYTE + lo) * BYTE + hi

Unpack(h) == h

\* What a link graph says of host h: its sender knows h at first hand, or from
\* a link graph that it got itself.
Reported(h) == {Unpack(Pack(h)), Unpack(Pack(Unpack(Pack(h))))}

Host == UNION {Reported(h) : h \in Node}

VARIABLES now,     \* gettimeofday
          time,    \* the time that has passed
          ahead,   \* how far the clock has been set forward, in all
          ipas,    \* pc->ipas.items: sorted array of [host, ts]
          mem,     \* pc->ipas.mem
          lock,    \* the holder of pc->lock
          pc,      \* where a thread is
          req,     \* the host it was asked to connect to
          l, u,    \* its search interval, from 0
          last     \* host -> when the last attempt was decided on (Elapsed),
                   \* and whether it was the first, an even or an odd one
                   \* (history)

vars == <<now, time, ahead, ipas, mem, lock, pc, req, l, u, last>>

\* The time that has passed, with what the clock was set forward.
Elapsed == time + ahead

Time == 0..(MaxTime + MaxAhead)
Clock == (-MaxBack)..(MaxTime + MaxAhead)
Entry == [host : Nat, ts : Clock]
Nought == [n |-> 0, at |-> 0]

\* pcon_init
Init ==
  /\ now = 0
  /\ time = 0
  /\ ahead = 0
  /\ ipas = <<>>
  /\ mem = InitSz
  /\ lock = Nobody
  /\ pc = [t \in Thread |-> "idle"]
  /\ req = [t \in Thread |-> 0]
  /\ l = [t \in Thread |-> 0]
  /\ u = [t \in Thread |-> 0]
  /\ last = [h \in Host |-> Nought]

Goto(t, p) == pc' = [pc EXCEPT ![t] = p]

-----------------------------------------------------------------------------
(* pcon_connect.                                                           *)

Lock(t, h) ==
  /\ pc[t] = "idle"
  /\ lock = Nobody
  /\ lock' = t
  /\ req' = [req EXCEPT ![t] = h]
  /\ l' = [l EXCEPT ![t] = 0]
  /\ u' = [u EXCEPT ![t] = Len(ipas)]
  /\ Goto(t, "search")
  /\ UNCHANGED <<now, time, ahead, ipas, mem, last>>

Middle(t) == (l[t] + u[t]) \div 2

\* A faulty variant of Bisect: the upper end is inclusive.
BisectInclusive(t) ==
  LET key == ipas[Middle(t) + 1].host IN
  \/ /\ req[t] < key
     /\ u' = [u EXCEPT ![t] = Middle(t) - 1]
     /\ UNCHANGED <<l, pc>>
  \/ /\ req[t] > key
     /\ l' = [l EXCEPT ![t] = Middle(t) + 1]
     /\ UNCHANGED <<u, pc>>
  \/ /\ req[t] = key
     /\ Goto(t, "found")
     /\ UNCHANGED <<l, u>>

\* The body of the loop of DEF_BSEARCH (base[idx] is item idx + 1).
Bisect(t) ==
  LET key == ipas[Middle(t) + 1].host IN
  \/ /\ req[t] < key
     /\ u' = [u EXCEPT ![t] = Middle(t)]
     /\ UNCHANGED <<l, pc>>
  \/ /\ req[t] > key
     /\ l' = [l EXCEPT ![t] = Middle(t) + 1]
     /\ UNCHANGED <<u, pc>>
  \/ /\ req[t] = key
     /\ Goto(t, "found")
     /\ UNCHANGED <<l, u>>

Search(t) ==
  /\ pc[t] = "search"
  /\ l[t] < u[t]
  /\ Bisect(t)
  /\ UNCHANGED <<now, time, ahead, ipas, mem, lock, req, last>>

SearchEnds(t) ==
  /\ pc[t] = "search"
  /\ l[t] >= u[t]
  /\ Goto(t, "absent")
  /\ UNCHANGED <<now, time, ahead, ipas, mem, lock, req, l, u, last>>

\* The attempt is decided on now.
Granted(t) ==
  [last EXCEPT ![req[t]] = [n |-> IF @.n = 1 THEN 2 ELSE 1, at |-> Elapsed]]

\* A return from pcon_connect: its variables are gone.
Return(t) ==
  /\ Goto(t, "idle")
  /\ req' = [req EXCEPT ![t] = 0]
  /\ l' = [l EXCEPT ![t] = 0]
  /\ u' = [u EXCEPT ![t] = 0]

\* A faulty variant of TooRecent: a clock that went back counts as old.
TooRecentAbs(age) == age \in 0..EASE

\* timercmp(&tdiff, &out, >) is false.
TooRecent(age) == age <= EASE

\* The host is in the table: try again only if the last attempt is old.
Found(t) ==
  /\ pc[t] = "found"
  /\ lock' = Nobody
  /\ IF TooRecent(now - ipas[Middle(t) + 1].ts)
     THEN /\ Return(t)
          /\ UNCHANGED <<ipas, last>>
     ELSE /\ ipas' = [ipas EXCEPT ![Middle(t) + 1].ts = now]
          /\ last' = Granted(t)
          /\ Goto(t, "create")
          /\ UNCHANGED <<req, l, u>>
  /\ UNCHANGED <<now, time, ahead, mem>>

\* A faulty variant of Grown: room is made one item too late.
GrownLate(ct) == IF ct > mem THEN 2 * mem + 8 ELSE mem

\* DA_CHECK_AND_REALLOC before an item is added to ct others.
Grown(ct) == IF ct + 1 > mem THEN 2 * mem + 8 ELSE mem

\* A faulty variant of Sorted: no qsort.
SortedNot(items, e) == Append(items, e)

\* DA_ADD_TO_END and qsort: the new entry moves to its place.
Sorted(items, e) ==
  LET n == CHOOSE n \in 1..(Len(items) + 1) :
             /\ \A i \in 1..(n - 1) : items[i].host <= e.host
             /\ \A i \in n..Len(items) : items[i].host > e.host
  IN  [i \in 1..(Len(items) + 1) |->
         IF i < n THEN items[i] ELSE IF i = n THEN e ELSE items[i - 1]]

\* The host is new.
Add(t) ==
  /\ pc[t] = "absent"
  /\ mem' = Grown(Len(ipas))
  /\ ipas' = Sorted(ipas, [host |-> req[t], ts |-> now])
  /\ lock' = Nobody
  /\ last' = Granted(t)
  /\ Goto(t, "create")
  /\ UNCHANGED <<now, time, ahead, req, l, u>>

\* The array cannot grow.  DA_ADD_TO_END says so, and nobody listens.
AddFails(t) ==
  /\ "nomem" \in Faults
  /\ pc[t] = "absent"
  /\ Grown(Len(ipas)) > mem
  /\ lock' = Nobody
  /\ last' = Granted(t)
  /\ Goto(t, "create")
  /\ UNCHANGED <<now, time, ahead, ipas, mem, req, l, u>>

\* dp_create_linkstate, which "must NOT hold the pcon lock" (dpeer.c:863).
dp_create_linkstate(t) ==
  /\ pc[t] = "create"
  /\ Return(t)
  /\ UNCHANGED <<now, time, ahead, ipas, mem, lock, last>>

-----------------------------------------------------------------------------
(* Time.                                                                   *)

Tick ==
  /\ time < MaxTime
  /\ time' = time + 1
  /\ now' = now + 1
  /\ UNCHANGED <<ahead, ipas, mem, lock, pc, req, l, u, last>>

\* The clock is set back, or set forward.
SetBack ==
  /\ Elapsed - now < MaxBack
  /\ now' = now - 1
  /\ UNCHANGED <<time, ahead, ipas, mem, lock, pc, req, l, u, last>>

SetForward ==
  /\ ahead < MaxAhead
  /\ ahead' = ahead + 1
  /\ now' = now + 1
  /\ UNCHANGED <<time, ipas, mem, lock, pc, req, l, u, last>>

Step(t) ==
  \/ \E h \in Host : Lock(t, h)
  \/ Search(t) \/ SearchEnds(t) \/ Found(t) \/ Add(t) \/ AddFails(t)
  \/ dp_create_linkstate(t)

Next == Tick \/ SetBack \/ SetForward \/ \E t \in Thread : Step(t)

Spec == Init /\ [][Next]_vars

-----------------------------------------------------------------------------
TypeOK ==
  /\ now \in Clock
  /\ time \in 0..MaxTime
  /\ ahead \in 0..MaxAhead
  /\ ipas \in Seq(Entry)
  /\ mem \in Nat
  /\ lock \in Thread \cup {Nobody}
  /\ pc \in [Thread -> {"idle", "search", "found", "absent", "create"}]
  /\ req \in [Thread -> Nat]
  /\ l \in [Thread -> Nat]
  /\ u \in [Thread -> Nat]
  /\ last \in [Host -> [n : 0..2, at : Time]]

InTable(h) == \E i \in DOMAIN ipas : ipas[i].host = h

(***************************************************************************)
(* pcon.c:53: "don't connect, we have this in our list".  Whatever number  *)
(* of peers report a host, and although the clock may be set back or       *)
(* forward between two of the reports, two attempts to connect to one host *)
(* are decided on more than two seconds apart, less what the clock was set *)
(* forward in between: setting it back never brings them closer.  (A host  *)
(* that could not be stored for lack of memory is tried whenever it is     *)
(* reported.)                                                              *)
(***************************************************************************)
Eased ==
  [][\A h \in Host :
       /\ last'[h] # last[h] /\ last[h].n > 0
       /\ "nomem" \in Faults => InTable(h)
       => last'[h].at - last[h].at > EASE]_vars

(***************************************************************************)
(* The bisection is right about the array while nobody else may change it: *)
(* it ends at the entry of the host, or there is none.                     *)
(***************************************************************************)
SearchRight ==
  \A t \in Thread :
    /\ pc[t] = "found" => /\ Middle(t) + 1 \in DOMAIN ipas
                          /\ ipas[Middle(t) + 1].host = req[t]
    /\ pc[t] = "absent" => \A i \in DOMAIN ipas : ipas[i].host # req[t]

(***************************************************************************)
(* Entries are never taken out of the table.  Packing an address twice     *)
(* gives the address again, so that there are at most two entries for each *)
(* node (different keys for one node, though), and the array has room for  *)
(* all of them.                                                            *)
(***************************************************************************)
TableFits ==
  /\ Len(ipas) <= mem
  /\ Len(ipas) <= 2 * Cardinality(Node)
=============================================================================
