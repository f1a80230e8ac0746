------------------------------- MODULE Routing -------------------------------
(***************************************************************************)
(* The routing table of one node (routing.c).  Every operation runs under  *)
(* rd->lock from its first to its last line, so that each is one step.     *)
(* (rt_dhosts_to_host writes under the read lock: see RecomputeAlone.)     *)
(* Allocations succeed; module DirectPeers has the case that they do not.  *)
(*                                                                         *)
(* Addresses are naturals, ordered as memcmp orders them.  The host array  *)
(* is kept sorted by address: it is a function on the addresses present,   *)
(* and a host's row is its rank.  A link array is a sequence, because it   *)
(* may hold several links to one host.  A time stamp is a two-digit number *)
(* in base BYTE, so that its byte order can be told.                       *)
(***************************************************************************)
EXTENDS Paths, Sequences, FiniteSets, SequencesExt

CONSTANTS Mac,      \* addresses of nodes, a set of naturals
          Local,    \* the address of this node
          Dp, NoDp, \* direct peers, and no peer
          Rtts,     \* round trip times of links
          BYTE,     \* the base of a time stamp's digits
          Packets   \* the link graphs that peers may send

ASSUME MacAssumption ==
  Mac \subseteq Nat /\ IsFiniteSet(Mac) /\ Local \in Mac /\ 0 \notin Mac
ASSUME NoDpAssumption == NoDp \notin Dp
ASSUME RttsAssumption == Rtts \subseteq Weight
ASSUME ByteAssumption == BYTE \in Nat \ {0}

Ts == 0..(BYTE * BYTE - 1)
Edge == [src : Mac, dst : Mac, rtt : Rtts, ts : Ts]

ASSUME PacketsAssumption == \A p \in Packets : p \in Seq(Edge)

VARIABLES host,      \* rd->hosts: address -> type, dp_t, l_max_ts_ms, links
          cache,     \* rd->m_ct, rd->path and rd->next
          exported,  \* rd->edges, as <<source, destination>>
          status     \* "ok", or how the table was broken by trimming:
                     \* "corrupt" (another host was freed), "dangling" (a
                     \* link to the freed host is left)

vars == <<host, cache, exported, status>>

Link == [dst : Mac, rtt : Rtts]

Host == [type : {"local", "direct", "normal"}, dp : Dp \cup {NoDp},
         maxTs : Ts, links : Seq(Link)]

NoCache == [ct |-> 0, path |-> <<>>, next |-> <<>>]

\* rt_init
Init ==
  /\ host = <<>>
  /\ cache = NoCache
  /\ exported = {}
  /\ status = "ok"

-----------------------------------------------------------------------------
(* Hosts and links.                                                        *)

\* host_alloc: only a host that is not direct has an address of its own.
NewHost(type, d) == [type |-> type, dp |-> d, maxTs |-> 0, links |-> <<>>]

\* host_add
WithHost(h, m, rec) ==
  [x \in DOMAIN h \cup {m} |-> IF x = m THEN rec ELSE h[x]]

LinksTo(links, m) == {n \in DOMAIN links : links[n].dst = m}

\* link_add: appended, sorted by destination, with no look for a duplicate.
\* Links to one destination stay in the order they came (C leaves that open;
\* glibc's merge sort does so); only LinkMatrix tells them apart.
link_add(h, src, dst, rtt, ts) ==
  LET before == {n \in DOMAIN h[src].links : h[src].links[n].dst <= dst}
  IN  [h EXCEPT
        ![src].links = InsertAt(@, Cardinality(before) + 1,
                                [dst |-> dst, rtt |-> rtt]),
        ![src].maxTs = IF ts > @ THEN ts ELSE @]

\* link_remove of the link that find_link_by_addr finds, if any.
RemoveOneLink(links, m) ==
  IF LinksTo(links, m) = {}
  THEN links
  ELSE RemoveAt(links, CHOOSE n \in LinksTo(links, m) : TRUE)

RowOf(h, m) == Cardinality({x \in DOMAIN h : x <= m})
AtRow(h, r) == CHOOSE m \in DOMAIN h : RowOf(h, m) = r

-----------------------------------------------------------------------------
(* update_cache: trim_disjoint_hosts, compute_paths, update_exported_edges *)

\* A faulty variant of ToTrim: direct peers are trimmed too.
ToTrimAny(h) ==
  IF cache.ct # Cardinality(DOMAIN h)
  THEN {}
  ELSE {m \in DOMAIN h \ {Local} :
          cache.path[RowOf(h, Local)][RowOf(h, m)] = PATH_DISCON}

(***************************************************************************)
(* The hosts that the matrices of the last computation show as not         *)
(* reachable from this node.  They are used only if no host was added      *)
(* since; links may have come and gone.  Other types are not trimmed.      *)
(***************************************************************************)
ToTrim(h) ==
  IF cache.ct # Cardinality(DOMAIN h)
  THEN {}
  ELSE {m \in DOMAIN h \ {Local} :
          /\ cache.path[RowOf(h, Local)][RowOf(h, m)] = PATH_DISCON
          /\ h[m].type = "normal"}

\* A faulty variant of TrimLast: the links to the host stay.
TrimLastKeepsLinks(h, m) == [x \in DOMAIN h \ {m} |-> h[x]]

\* trim_host of the last host of the array.
TrimLast(h, m) ==
  [x \in DOMAIN h \ {m} |-> [h[x] EXCEPT !.links = RemoveOneLink(@, m)]]

trim_disjoint_hosts(h) ==
  IF ToTrim(h) = {} THEN h ELSE TrimLast(h, CHOOSE m \in ToTrim(h) : TRUE)

(***************************************************************************)
(* trim_host calls host_remove, which closes the gap in the array, and     *)
(* then frees what is now in the victim's place: the next host, unless the *)
(* victim was the last one.                                                *)
(***************************************************************************)
TrimFreesOther(h) == \E m \in ToTrim(h) : \E x \in DOMAIN h : x > m

Twice(links, m) ==
  \E n, o \in DOMAIN links : n # o /\ links[n].dst = m /\ links[o].dst = m

\* trim_host removes one link of each host to the victim, and leaves the rest.
TrimLeavesLinks(h) ==
  \E m \in ToTrim(h) : \E x \in DOMAIN h \ {m} : Twice(h[x].links, m)

\* compute_paths, next, reads every host and the destination of every link:
\* what it does after either is not defined, and the behaviour ends there.
TrimBreaks(h) ==
  /\ \/ TrimFreesOther(h) /\ status' = "corrupt" /\ host' = h
     \/ /\ ~TrimFreesOther(h) /\ TrimLeavesLinks(h)
        /\ status' = "dangling"
        /\ host' = trim_disjoint_hosts(h)
  /\ UNCHANGED <<cache, exported>>

\* The weight matrix: of several links to one host, the last one counts.
LinkMatrix(h) ==
  LET rows == 1..Cardinality(DOMAIN h)
      Rtt(src, dst) ==
        LET ns == LinksTo(h[src].links, dst)
        IN  IF ns = {} THEN PATH_DISCON
            ELSE h[src].links[CHOOSE n \in ns : \A o \in ns : o <= n].rtt
  IN  [r \in rows |-> [c \in rows |-> Rtt(AtRow(h, r), AtRow(h, c))]]

compute_paths(h) ==
  LET n == Cardinality(DOMAIN h)
      m == ComputePaths(n, LinkMatrix(h))
  IN  [ct |-> n, path |-> m.path, next |-> m.next]

(***************************************************************************)
(* update_exported_edges appends to rd->edges.  It skips link number n of  *)
(* a host when column n of the host's row is 0, although columns stand for *)
(* hosts; a link number beyond the row reads past its end.                 *)
(***************************************************************************)
EdgesOf(h, c) ==
  LET slots == UNION {{<<m, n>> : n \in DOMAIN h[m].links} : m \in DOMAIN h}
      Read(s) == c.path[RowOf(h, s[1])][s[2]]
      PairOf(s) == <<s[1], h[s[1]].links[s[2]].dst>>
      inside == {s \in slots : s[2] <= c.ct /\ Read(s) # PATH_DISCON}
      outside == {s \in slots : s[2] > c.ct}
  IN  {{PairOf(s) : s \in inside \cup more} : more \in SUBSET outside}

\* A faulty variant of update_cache: the matrices are kept if they have the
\* right size.
update_cache_if_resized(h) ==
  IF TrimFreesOther(h) \/ TrimLeavesLinks(h)
  THEN TrimBreaks(h)
  ELSE /\ status' = status
       /\ host' = trim_disjoint_hosts(h)
       /\ cache' = IF cache.ct = Cardinality(DOMAIN host') THEN cache
                   ELSE compute_paths(host')
       /\ \E edges \in EdgesOf(host', cache') : exported' = exported \cup edges

\* Another one: the matrices are computed before hosts are trimmed.
update_cache_computes_first(h) ==
  IF TrimFreesOther(h) \/ TrimLeavesLinks(h)
  THEN TrimBreaks(h)
  ELSE /\ status' = status
       /\ host' = trim_disjoint_hosts(h)
       /\ cache' = compute_paths(h)
       /\ \E edges \in EdgesOf(host', cache') : exported' = exported \cup edges

\* update_cache on a table h that the caller has just changed.
update_cache(h) ==
  IF TrimFreesOther(h) \/ TrimLeavesLinks(h)
  THEN TrimBreaks(h)
  ELSE /\ status' = status
       /\ host' = trim_disjoint_hosts(h)
       /\ cache' = compute_paths(host')
       /\ \E edges \in EdgesOf(host', cache') : exported' = exported \cup edges

-----------------------------------------------------------------------------
(* The operations.                                                         *)

\* main adds this node before it starts any thread.  The cache is left alone.
rt_lhost_add ==
  /\ host = <<>>
  /\ host' = WithHost(host, Local, NewHost("local", NoDp))
  /\ UNCHANGED <<cache, exported, status>>

Running == host # <<>> /\ status = "ok"

\* ihost_to_dhost, or host_add of a host that is direct.
WithDirect(h, m, d) ==
  IF m \notin DOMAIN h
  THEN WithHost(h, m, NewHost("direct", d))
  ELSE IF h[m].type = "normal"
       THEN [h EXCEPT ![m].type = "direct", ![m].dp = d]
       ELSE h

\* Faulty variants of rt_dhost_add_link: it does not look for the link it may
\* have; it exchanges the dp_t of a host that is direct already.
rt_dhost_add_link_again(d, m, rtt) ==
  /\ Running
  /\ m # Local
  /\ update_cache(link_add(WithDirect(host, m, d), Local, m, rtt, 0))

rt_dhost_add_link_takes_over(d, m, rtt) ==
  /\ Running
  /\ m # Local
  /\ LET found == LinksTo(host[Local].links, m)
     IN  update_cache(
           IF found # {}
           THEN [host EXCEPT ![Local].links[CHOOSE n \in found : TRUE].rtt = rtt,
                             ![m].dp = d]
           ELSE link_add(WithDirect(host, m, d), Local, m, rtt, 0))

\* The time stamp of a link of this node is never read again: 0 stands for it.
rt_dhost_add_link(d, m, rtt) ==
  /\ Running
  /\ m # Local
  /\ LET found == LinksTo(host[Local].links, m)
     IN  update_cache(
           IF found # {}
           THEN [host EXCEPT ![Local].links[CHOOSE n \in found : TRUE].rtt = rtt]
           ELSE link_add(WithDirect(host, m, d), Local, m, rtt, 0))

\* htonll on a little-endian machine.
Swapped(ts) == (ts % BYTE) * BYTE + (ts \div BYTE)

(***************************************************************************)
(* pkt_edges_cmp_src: by source, then the larger ts_ms first, but compared *)
(* as the bytes came from the network.                                     *)
(***************************************************************************)
EdgeBefore(e, f) ==
  \/ e.src < f.src
  \/ e.src = f.src /\ Swapped(e.ts) > Swapped(f.ts)

\* A faulty variant of Newer: links as old as the known ones are taken again.
NewerOrSame(known, e) == known.type # "local" /\ known.maxTs <= e.ts

\* The links of a known source are replaced only by a newer edge.
Newer(known, e) == known.type # "local" /\ known.maxTs < e.ts

\* The part of the loop of rt_update_edges that adds a link of a known source.
AddEdge(h, e) ==
  LET both == IF e.dst \in DOMAIN h THEN h
              ELSE WithHost(h, e.dst, NewHost("normal", NoDp))
  IN  [host |-> link_add(both, e.src, e.dst, e.rtt, e.ts),
       src |-> e.src, skip |-> FALSE]

\* One turn of the loop.  at.src is cur_ip_src (0 before the first source),
\* at.skip is cont_to_new_src.
TakeEdge(at, e) ==
  IF e.src = e.dst \/ (e.src = at.src /\ at.skip)
  THEN at
  ELSE IF e.src = at.src
  THEN AddEdge(at.host, e)
  ELSE IF e.src \notin DOMAIN at.host
  THEN AddEdge(WithHost(at.host, e.src, NewHost("normal", NoDp)), e)
  ELSE IF Newer(at.host[e.src], e)
  THEN AddEdge([at.host EXCEPT ![e.src].links = <<>>], e)
  ELSE [host |-> at.host, src |-> e.src, skip |-> TRUE]

\* The loop over the sorted edges of a packet.
TakeEdges(h, q) ==
  LET at[n \in 0..Len(q)] ==
        IF n = 0 THEN [host |-> h, src |-> 0, skip |-> FALSE]
        ELSE TakeEdge(at[n - 1], q[n])
  IN  at[Len(q)].host

\* The edges in an order qsort may leave them in: that of equal ones is open.
SortedEdges(p) ==
  {[n \in DOMAIN p |-> p[f[n]]] :
     f \in {g \in Bijection(DOMAIN p, DOMAIN p) :
              \A m, n \in DOMAIN p : m < n => ~EdgeBefore(p[g[n]], p[g[m]])}}

rt_update_edges(p) ==
  /\ Running
  /\ \E q \in SortedEdges(p) : update_cache(TakeEdges(host, q))

rt_dhost_remove(m) ==
  /\ Running
  /\ LinksTo(host[Local].links, m) # {}
  /\ host[m].type = "direct"
  /\ update_cache(
       [host EXCEPT ![m].type = "normal", ![m].dp = NoDp,
                    ![Local].links = RemoveOneLink(@, m)])

\* The only state rt_dhosts_to_host changes: matrices of another size are
\* computed again.
rt_dhosts_to_host ==
  /\ Running
  /\ cache.ct # Cardinality(DOMAIN host)
  /\ cache' = compute_paths(host)
  /\ UNCHANGED <<host, exported, status>>

Next ==
  \/ rt_lhost_add
  \/ \E d \in Dp, m \in Mac, rtt \in Rtts : rt_dhost_add_link(d, m, rtt)
  \/ \E p \in Packets : rt_update_edges(p)
  \/ \E m \in Mac : rt_dhost_remove(m)
  \/ rt_dhosts_to_host

Spec == Init /\ [][Next]_vars

-----------------------------------------------------------------------------
(* The answers of rt_dhosts_to_host, as sets of addresses.                 *)

Answerable == Running /\ cache.ct = Cardinality(DOMAIN host)

\* For one destination: the first host of the path.
Unicast(dst) ==
  LET here == RowOf(host, Local)
      there == RowOf(host, dst)
  IN  IF cache.path[here][there] = PATH_DISCON THEN {}
      ELSE IF cache.next[here][there] = NEXT_DISCON THEN {dst}
           ELSE {AtRow(host, cache.next[here][there])}

\* The rows met by following next from row a towards row b.
Hops(a, b) ==
  LET from[n \in 0..cache.ct] ==
        IF n = 0 THEN <<a>>
        ELSE LET w == from[n - 1]
                 x == cache.next[Last(w)][b]
             IN  IF x = NEXT_DISCON THEN w ELSE Append(w, x)
  IN  Tail(from[cache.ct])

\* A faulty variant of Multicast: path A without this node at its end.
MulticastOpen(src) ==
  LET here == RowOf(host, Local)
      from == RowOf(host, src)
      thisFar == Hops(from, here)
  IN  IF cache.path[from][here] = PATH_DISCON THEN {}
      ELSE {AtRow(host, r) : r \in {c \in 1..cache.ct : IsPrefix(thisFar, Hops(from, c))}}

\* For a multicast: the hosts whose path from src begins with src's path to
\* this node and passes through this node.
Multicast(src) ==
  LET here == RowOf(host, Local)
      from == RowOf(host, src)
      thisFar == Append(Hops(from, here), here)
  IN  IF cache.path[from][here] = PATH_DISCON THEN {}
      ELSE {AtRow(host, r) : r \in {c \in 1..cache.ct : IsPrefix(thisFar, Hops(from, c))}}

-----------------------------------------------------------------------------
TypeOK ==
  /\ DOMAIN host \subseteq Mac
  /\ host \in [DOMAIN host -> Host]
  /\ cache.ct \in 0..Cardinality(Mac)
  /\ \A r, c \in 1..cache.ct :
       /\ cache.path[r][c] \in Weight
       /\ cache.next[r][c] \in 0..cache.ct
  /\ exported \subseteq Mac \X Mac
  /\ status \in {"ok", "corrupt", "dangling"}

(***************************************************************************)
(* dp_from_ip_host turns a host's address into a dp_t, which is right for  *)
(* HT_DIRECT hosts only.  Whatever link graphs come in, the hosts this     *)
(* node has a link to are exactly the HT_DIRECT ones, each with one link   *)
(* and a dp_t of its own.                                                  *)
(***************************************************************************)
DirectIffLinked ==
  Running =>
    \A m \in DOMAIN host :
      /\ Cardinality(LinksTo(host[Local].links, m)) =
           IF host[m].type = "direct" THEN 1 ELSE 0
      /\ host[m].dp # NoDp <=> host[m].type = "direct"

(***************************************************************************)
(* The matrices are indexed by rows, and rows shift when hosts come and    *)
(* go: matrices of the right size are those of the present table.          *)
(***************************************************************************)
CacheFresh == Answerable => cache = compute_paths(host)

(***************************************************************************)
(* rt_dhosts_to_host frees and rebuilds the matrices under the read lock   *)
(* (routing.c:860), which two readers must not do at once.  It only does   *)
(* so while this node is alone in the table: then no peer has reached its  *)
(* loop, and the tap reader is the only thread that calls it.              *)
(***************************************************************************)
RecomputeAlone ==
  Running /\ cache.ct # Cardinality(DOMAIN host) => DOMAIN host = {Local}

\* The packet has two edges from x to m.
Repeats(p, x, m) ==
  \E n, o \in DOMAIN p :
    /\ n # o
    /\ p[n].src = x /\ p[n].dst = m
    /\ p[o].src = x /\ p[o].dst = m

(***************************************************************************)
(* compute_paths does not test what find_host_by_addr returns for a link's *)
(* destination (routing.c:167), so every link must lead to another host of *)
(* the table.  Trimming a host leaves a link that does not only where a    *)
(* host had two links to it, which nothing but two edges of one packet     *)
(* brings about.                                                           *)
(***************************************************************************)
LinksResolve ==
  [][status' # "corrupt" =>
       \A x \in DOMAIN host' : \A l \in Range(host'[x].links) :
         l.dst \notin DOMAIN host' \ {x} =>
           \/ x \in DOMAIN host /\ Twice(host[x].links, l.dst)
           \/ \E p \in Packets : rt_update_edges(p) /\ Repeats(p, x, l.dst)]_vars

(***************************************************************************)
(* A packet for another node is handed to direct peers only.  The          *)
(* multicast branch of rt_dhosts_to_host hands out the final destinations, *)
(* not the next hops, so that this rests on what compute_paths stores in   *)
(* next.  A packet for this node is always handed to this node's own host, *)
(* which is no peer: path[i][i] is 1 and next[i][i] unset.                 *)
(***************************************************************************)
ForwardsToDirect ==
  Answerable =>
    /\ \A m \in DOMAIN host :
         \A x \in Multicast(m) \cup (IF m = Local THEN {} ELSE Unicast(m)) :
           host[x].type = "direct"
    /\ Unicast(Local) = {Local}

(***************************************************************************)
(* A host of another node gets links it did not have only together with a  *)
(* larger time stamp: as long as the host stays in the table, an old link  *)
(* graph, repeated or overtaken by a newer one, never brings links back.   *)
(***************************************************************************)
NoOldLinksBack ==
  [][\A m \in (DOMAIN host \cap DOMAIN host') \ {Local} :
       /\ host'[m].maxTs >= host[m].maxTs
       /\ ~(Range(host'[m].links) \subseteq Range(host[m].links)) =>
            host'[m].maxTs > host[m].maxTs]_vars

(***************************************************************************)
(* A dp_t that the table points into stays in it until its own thread, or  *)
(* one for the same address, calls rt_dhost_remove: no link graph and no   *)
(* trimming takes it out, not even when its rtt is measured as 0 and the   *)
(* matrices show it as disconnected.                                       *)
(***************************************************************************)
DirectStays ==
  [][\A m \in DOMAIN host :
       /\ host[m].type = "direct"
       /\ m \in DOMAIN host' => host'[m].dp # host[m].dp
       => rt_dhost_remove(m)]_vars

\* The table as the direct peers see it.
Owner ==
  [m \in Mac \ {Local} |-> IF m \in DOMAIN host THEN host[m].dp ELSE NoDp]

DT == INSTANCE DirectTable WITH Mac <- Mac \ {Local}, owner <- Owner

(***************************************************************************)
(* The whole table implements what it promises to the direct peers: only   *)
(* rt_dhost_add_link and rt_dhost_remove change whose dp_t it points into. *)
(***************************************************************************)
ImplementsDirectTable == DT!Spec

-----------------------------------------------------------------------------
(* What the comments say, and the code does not do.                        *)

\* routing.c:337: "find hosts which lack outgoing (and incomming?) links and
\* remove them": removing them leaves the other hosts usable.
TrimLeavesOthers == status = "ok"

\* routing.h:113: "Gives the caller every host they should forward the packet"
\* to.  The callers make a dp_t of each (dpeer.c:275, vnet.c:70), which is
\* right for direct peers only.
ForwardsOnlyToPeers ==
  Answerable =>
    \A m \in DOMAIN host : \A x \in Unicast(m) \cup Multicast(m) :
      host[x].type = "direct"
=============================================================================
