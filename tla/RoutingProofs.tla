--------------------------- MODULE RoutingProofs ---------------------------
(***************************************************************************)
(* The routing table (routing.c) for any finite set of addresses, any      *)
(* number of peers, any link graphs and any width of the weights.          *)
(***************************************************************************)
EXTENDS Routing, PathsProofs, FiniteSetTheorems, SequenceTheorems, TLAPS

-----------------------------------------------------------------------------
(* Link arrays.                                                            *)

\* An element put into its place moves those behind it up.
LEMMA Inserted ==
  ASSUME NEW S, NEW s \in Seq(S), NEW p \in 1..(Len(s) + 1), NEW e \in S
  PROVE  /\ InsertAt(s, p, e) \in Seq(S)
         /\ DOMAIN InsertAt(s, p, e) = 1..(Len(s) + 1)
         /\ \A n \in 1..(Len(s) + 1) :
              InsertAt(s, p, e)[n] =
                IF n < p THEN s[n] ELSE IF n = p THEN e ELSE s[n - 1]
<1> DEFINE a == SubSeq(s, 1, p - 1)
           b == SubSeq(s, p, Len(s))
           t == a \o <<e>> \o b
<1>0. Len(s) \in Nat /\ p \in Nat /\ \A n \in 1..Len(s) : s[n] \in S
  BY ElementOfSeq, LenProperties
<1>1. /\ a \in Seq(S) /\ Len(a) = p - 1
      /\ \A n \in 1..(p - 1) : a[n] = s[n]
  BY <1>0
<1>2. /\ b \in Seq(S) /\ Len(b) = Len(s) + 1 - p
      /\ \A n \in 1..(Len(s) + 1 - p) : b[n] = s[p + n - 1]
  BY <1>0
<1> HIDE DEF a, b
<1> DEFINE c == a \o <<e>>
<1>c. /\ c \in Seq(S) /\ Len(c) = p
      /\ \A n \in 1..p : c[n] = IF n < p THEN a[n] ELSE e
  <2>1. <<e>> \in Seq(S) /\ Len(<<e>>) = 1 /\ <<e>>[1] = e
    OBVIOUS
  <2>2. /\ c \in Seq(S) /\ Len(c) = Len(a) + 1
        /\ \A n \in 1..(Len(a) + 1) :
             c[n] = IF n <= Len(a) THEN a[n] ELSE <<e>>[n - Len(a)]
    BY <1>1, <2>1, ConcatProperties
  <2> HIDE DEF c
  <2> QED
    BY <1>0, <1>1, <2>1, <2>2
<1> HIDE DEF c
<1>3. /\ t \in Seq(S) /\ Len(t) = Len(s) + 1
      /\ \A n \in 1..(Len(s) + 1) :
           t[n] = IF n < p THEN a[n] ELSE IF n = p THEN e ELSE b[n - p]
  <2>1. t = c \o b
    BY DEF c
  <2> HIDE DEF t
  <2>2. c \in Seq(S) /\ b \in Seq(S)
    BY <1>c, <1>2
  <2>3. /\ t \in Seq(S) /\ Len(t) = Len(c) + Len(b)
        /\ \A n \in 1..(Len(c) + Len(b)) :
             t[n] = IF n <= Len(c) THEN c[n] ELSE b[n - Len(c)]
    BY ONLY <2>1, <2>2, ConcatProperties
  <2>4. Len(c) = p /\ Len(b) = Len(s) + 1 - p
    BY <1>c, <1>2
  <2>5. Len(c) + Len(b) = Len(s) + 1
    BY <2>4, <1>0
  <2> QED
    BY <1>0, <1>c, <2>3, <2>4, <2>5
<1> HIDE DEF t
<1>4. \A n \in 1..(Len(s) + 1) :
        t[n] = IF n < p THEN s[n] ELSE IF n = p THEN e ELSE s[n - 1]
  BY <1>0, <1>1, <1>2, <1>3
<1>5. InsertAt(s, p, e) = t
  BY DEF InsertAt, a, b, t
<1>6. DOMAIN t = 1..(Len(s) + 1)
  BY <1>3
<1> QED
  BY <1>3, <1>4, <1>5, <1>6

\* An element taken out moves those behind it down.
LEMMA Removed ==
  ASSUME NEW S, NEW s \in Seq(S), NEW p \in 1..Len(s)
  PROVE  /\ RemoveAt(s, p) \in Seq(S)
         /\ DOMAIN RemoveAt(s, p) = 1..(Len(s) - 1)
         /\ \A n \in 1..(Len(s) - 1) :
              RemoveAt(s, p)[n] = IF n < p THEN s[n] ELSE s[n + 1]
<1> DEFINE a == SubSeq(s, 1, p - 1)
           b == SubSeq(s, p + 1, Len(s))
           t == a \o b
<1>0. Len(s) \in Nat /\ p \in Nat /\ \A n \in 1..Len(s) : s[n] \in S
  BY ElementOfSeq, LenProperties
<1>1. /\ a \in Seq(S) /\ Len(a) = p - 1
      /\ \A n \in 1..(p - 1) : a[n] = s[n]
  BY <1>0
<1>2. /\ b \in Seq(S) /\ Len(b) = Len(s) - p
      /\ \A n \in 1..(Len(s) - p) : b[n] = s[p + n]
  BY <1>0
<1> HIDE DEF a, b
<1>3. /\ t \in Seq(S) /\ Len(t) = Len(s) - 1
      /\ \A n \in 1..(Len(s) - 1) : t[n] = IF n < p THEN a[n] ELSE b[n - p + 1]
  <2>1. /\ t \in Seq(S) /\ Len(t) = Len(a) + Len(b)
        /\ \A n \in 1..(Len(a) + Len(b)) :
             t[n] = IF n <= Len(a) THEN a[n] ELSE b[n - Len(a)]
    BY <1>1, <1>2, ConcatProperties
  <2> HIDE DEF t
  <2>2. Len(a) = p - 1 /\ Len(b) = Len(s) - p
    BY <1>1, <1>2
  <2>3. Len(a) + Len(b) = Len(s) - 1
    BY <2>2, <1>0
  <2>4. \A n \in 1..(Len(s) - 1) : n - Len(a) = n - p + 1
    BY <2>2, <1>0
  <2>5. \A n \in 1..(Len(s) - 1) : n <= Len(a) <=> n < p
    BY <2>2, <1>0
  <2> QED
    BY <2>1, <2>3, <2>4, <2>5
<1> HIDE DEF t
<1>4. \A n \in 1..(Len(s) - 1) : t[n] = IF n < p THEN s[n] ELSE s[n + 1]
  BY <1>0, <1>1, <1>2, <1>3
<1>5. RemoveAt(s, p) = t
  BY DEF RemoveAt, a, b, t
<1>6. DOMAIN t = 1..(Len(s) - 1)
  BY <1>3
<1> QED
  BY <1>3, <1>4, <1>5, <1>6

-----------------------------------------------------------------------------
(* Rows: the rank of an address is a bijection.                            *)

LEMMA Rows ==
  ASSUME NEW h, DOMAIN h \subseteq Nat, IsFiniteSet(DOMAIN h)
  PROVE  /\ Cardinality(DOMAIN h) \in Nat
         /\ \A m \in DOMAIN h : /\ RowOf(h, m) \in 1..Cardinality(DOMAIN h)
                                /\ AtRow(h, RowOf(h, m)) = m
         /\ \A r \in 1..Cardinality(DOMAIN h) :
              AtRow(h, r) \in DOMAIN h /\ RowOf(h, AtRow(h, r)) = r
<1> DEFINE D == DOMAIN h
           n == Cardinality(D)
           Low(m) == {x \in D : x <= m}
           f == [m \in D |-> RowOf(h, m)]
<1>1. n \in Nat
  BY FS_CardinalityType
<1>2. \A m \in D : /\ IsFiniteSet(Low(m)) /\ Cardinality(Low(m)) \in Nat
                   /\ Cardinality(Low(m)) <= n
                   /\ Cardinality(Low(m)) = RowOf(h, m)
  <2> TAKE m \in D
  <2>1. Low(m) \subseteq D
    OBVIOUS
  <2>2. IsFiniteSet(Low(m)) /\ Cardinality(Low(m)) <= n
    BY <2>1, FS_Subset
  <2> QED
    BY <2>2, FS_CardinalityType DEF RowOf
<1>3. \A m \in D : RowOf(h, m) # 0
  <2> SUFFICES ASSUME NEW m \in D, RowOf(h, m) = 0 PROVE FALSE
    OBVIOUS
  <2>1. IsFiniteSet(Low(m)) /\ Cardinality(Low(m)) = 0
    BY <1>2
  <2>2. m \in Low(m)
    OBVIOUS
  <2> QED
    BY <2>1, <2>2, FS_EmptySet
<1>4. \A m \in D : RowOf(h, m) \in 1..n
  <2> TAKE m \in D
  <2>1. RowOf(h, m) \in Nat /\ RowOf(h, m) <= n /\ RowOf(h, m) # 0
    BY <1>2, <1>3
  <2> HIDE DEF n
  <2> QED
    BY <1>1, <2>1
<1>5. \A m, o \in D : m < o => RowOf(h, m) < RowOf(h, o)
  <2> SUFFICES ASSUME NEW m \in D, NEW o \in D, m < o
               PROVE  RowOf(h, m) < RowOf(h, o)
    OBVIOUS
  <2>1. Low(m) \subseteq Low(o)
    OBVIOUS
  <2>2. Low(m) # Low(o)
    <3>1. o \in Low(o) /\ o \notin Low(m)
      OBVIOUS
    <3> QED
      BY <3>1
  <2> HIDE DEF Low
  <2>3. Cardinality(Low(m)) <= Cardinality(Low(o))
        /\ (Cardinality(Low(m)) = Cardinality(Low(o)) => Low(m) = Low(o))
    BY <1>2, <2>1, FS_Subset
  <2> QED
    BY <1>2, <2>2, <2>3
<1>6. \A m, o \in D : RowOf(h, m) = RowOf(h, o) => m = o
  <2> SUFFICES ASSUME NEW m \in D, NEW o \in D, RowOf(h, m) = RowOf(h, o), m # o
               PROVE  FALSE
    OBVIOUS
  <2>1. m < o \/ o < m
    OBVIOUS
  <2>2. RowOf(h, m) \in Nat /\ RowOf(h, o) \in Nat
    BY <1>4
  <2> QED
    BY <1>5, <2>1, <2>2
<1>7. \A r \in 1..n : \E m \in D : RowOf(h, m) = r
  <2> DEFINE T == {f[m] : m \in D}
  <2>1. IsFiniteSet(1..n) /\ Cardinality(1..n) = n
    <3>1. IsFiniteSet(1..n) /\ Cardinality(1..n) = IF 1 > n THEN 0 ELSE n - 1 + 1
      BY <1>1, FS_Interval
    <3> QED
      BY <1>1, <3>1
  <2>2. T \subseteq 1..n
    BY <1>4
  <2>3. f \in Bijection(D, T)
    BY <1>6 DEF Bijection, Injection, Surjection, IsInjective
  <2>4. Cardinality(T) = n
    <3> HIDE DEF T, f, D
    <3>1. IsFiniteSet(D)
      BY DEF D
    <3>2. Cardinality(T) = Cardinality(D)
      BY <2>3, <3>1, FS_Bijection DEF ExistsBijection
    <3> QED
      BY <3>2
  <2> HIDE DEF T, f
  <2>5. T = 1..n
    BY <2>1, <2>2, <2>4, FS_Subset
  <2> QED
    BY <2>5 DEF T, f
<1>8. \A r \in 1..n : AtRow(h, r) \in D /\ RowOf(h, AtRow(h, r)) = r
  BY <1>7 DEF AtRow
<1> QED
  BY <1>1, <1>4, <1>6, <1>8

-----------------------------------------------------------------------------
(***************************************************************************)
(* What every table is that an operation hands to update_cache.  Each      *)
(* operation restores all of it although it changes hosts, links and       *)
(* types one after the other.                                              *)
(***************************************************************************)
HostsOK(h) == DOMAIN h \subseteq Mac /\ h \in [DOMAIN h -> Host]

\* This node is in the table, and it is the only HT_LOCAL host.
LocalAlone(h) ==
  /\ Local \in DOMAIN h
  /\ \A m \in DOMAIN h : h[m].type = "local" <=> m = Local

PeersDirect(h) == \A m \in DOMAIN h : h[m].dp # NoDp <=> h[m].type = "direct"

None(s, m) == \A n \in DOMAIN s : s[n].dst # m

Once(s, m) ==
  \E n \in DOMAIN s :
    /\ s[n].dst = m
    /\ \A o \in DOMAIN s : s[o].dst = m => o = n

LinkedDirect(h) ==
  \A m \in DOMAIN h :
    IF h[m].type = "direct" THEN Once(h[Local].links, m)
                            ELSE None(h[Local].links, m)

Resolved(h) ==
  \A m \in DOMAIN h : \A n \in DOMAIN h[m].links :
    h[m].links[n].dst \in DOMAIN h \ {m}

Table(h) ==
  /\ HostsOK(h)
  /\ LocalAlone(h)
  /\ PeersDirect(h)
  /\ LinkedDirect(h)
  /\ Resolved(h)

LEMMA HostFields ==
  ASSUME NEW h, HostsOK(h), NEW m \in DOMAIN h
  PROVE  /\ m \in Mac
         /\ h[m] \in Host
         /\ h[m].links \in Seq(Link)
         /\ DOMAIN h[m].links = 1..Len(h[m].links)
         /\ Len(h[m].links) \in Nat
         /\ h[m].maxTs \in Ts
<1>1. m \in Mac /\ h[m] \in Host
  BY DEF HostsOK
<1>2. h[m].links \in Seq(Link) /\ h[m].maxTs \in Ts
  BY <1>1 DEF Host
<1>3. DOMAIN h[m].links = 1..Len(h[m].links) /\ Len(h[m].links) \in Nat
  BY <1>2, LenProperties
<1> QED
  BY <1>1, <1>2, <1>3

LEMMA TsType == Ts \subseteq Nat /\ 0 \in Ts
  BY ByteAssumption DEF Ts

\* host_add of a host that is not direct.
LEMMA NormalAdded ==
  ASSUME NEW h, Table(h), NEW m \in Mac, m \notin DOMAIN h
  PROVE  LET g == WithHost(h, m, NewHost("normal", NoDp))
         IN  /\ Table(g)
             /\ DOMAIN g = DOMAIN h \cup {m}
             /\ \A x \in DOMAIN h : g[x] = h[x]
             /\ g[m] = NewHost("normal", NoDp)
<1> DEFINE g == WithHost(h, m, NewHost("normal", NoDp))
<1>1. /\ DOMAIN g = DOMAIN h \cup {m}
      /\ \A x \in DOMAIN h : g[x] = h[x]
      /\ g[m] = NewHost("normal", NoDp)
      /\ g \in [DOMAIN g -> {g[x] : x \in DOMAIN g}]
  BY DEF WithHost
<1> HIDE DEF g
<1>2. /\ NewHost("normal", NoDp) \in Host
      /\ NewHost("normal", NoDp).type = "normal"
      /\ NewHost("normal", NoDp).dp = NoDp
      /\ DOMAIN NewHost("normal", NoDp).links = {}
  BY TsType DEF NewHost, Host
<1>3. HostsOK(g)
  <2>1. \A x \in DOMAIN g : x \in Mac /\ g[x] \in Host
    BY <1>1, <1>2 DEF Table, HostsOK
  <2> QED
    BY <1>1, <2>1 DEF HostsOK
<1>4. LocalAlone(g)
  BY <1>1, <1>2 DEF Table, LocalAlone
<1>5. PeersDirect(g)
  BY <1>1, <1>2 DEF Table, PeersDirect
<1>6. g[Local] = h[Local] /\ None(h[Local].links, m)
  BY <1>1 DEF Table, LocalAlone, Resolved, None
<1>7. LinkedDirect(g)
  <2> SUFFICES ASSUME NEW x \in DOMAIN g
               PROVE  IF g[x].type = "direct" THEN Once(g[Local].links, x)
                                              ELSE None(g[Local].links, x)
    BY DEF LinkedDirect
  <2>1. CASE x = m
    BY <2>1, <1>1, <1>2, <1>6
  <2>2. CASE x # m
    BY <2>2, <1>1, <1>6 DEF Table, LinkedDirect
  <2> QED
    BY <2>1, <2>2
<1>8. Resolved(g)
  <2> SUFFICES ASSUME NEW x \in DOMAIN g, NEW n \in DOMAIN g[x].links
               PROVE  g[x].links[n].dst \in DOMAIN g \ {x}
    BY DEF Resolved
  <2>1. x \in DOMAIN h
    BY <1>1, <1>2
  <2> QED
    BY <2>1, <1>1 DEF Table, Resolved
<1> QED
  BY <1>1, <1>3, <1>4, <1>5, <1>7, <1>8 DEF Table, g

\* link_add, entry by entry: t is s with e put in.
OneMore(s, t, e) ==
  \E p \in 1..(Len(s) + 1) :
    /\ DOMAIN t = 1..(Len(s) + 1)
    /\ \A n \in 1..(Len(s) + 1) :
         t[n] = IF n < p THEN s[n] ELSE IF n = p THEN e ELSE s[n - 1]

LinkPut(h, g, src, e, ts) ==
  /\ HostsOK(g)
  /\ DOMAIN g = DOMAIN h
  /\ \A m \in DOMAIN h \ {src} : g[m] = h[m]
  /\ g[src].type = h[src].type
  /\ g[src].dp = h[src].dp
  /\ g[src].maxTs = IF ts > h[src].maxTs THEN ts ELSE h[src].maxTs
  /\ OneMore(h[src].links, g[src].links, e)

LEMMA LinkAdded ==
  ASSUME NEW h, HostsOK(h), NEW src \in DOMAIN h, NEW dst \in Mac,
         NEW rtt \in Rtts, NEW ts \in Ts, NEW g,
         g = link_add(h, src, dst, rtt, ts)
  PROVE  LinkPut(h, g, src, [dst |-> dst, rtt |-> rtt], ts)
<1> DEFINE s == h[src].links
           e == [dst |-> dst, rtt |-> rtt]
           before == {n \in DOMAIN s : s[n].dst <= dst}
           p == Cardinality(before) + 1
           t == InsertAt(s, p, e)
           max == IF ts > h[src].maxTs THEN ts ELSE h[src].maxTs
           rec == [type |-> h[src].type, dp |-> h[src].dp, maxTs |-> max,
                   links |-> t]
<1>1. /\ s \in Seq(Link) /\ DOMAIN s = 1..Len(s) /\ Len(s) \in Nat
      /\ h[src] \in Host /\ h[src].maxTs \in Ts
  BY HostFields
<1>2. e \in Link
  BY DEF Link
<1>3. p \in 1..(Len(s) + 1)
  <2>1. before \subseteq 1..Len(s)
    BY <1>1
  <2>2. IsFiniteSet(1..Len(s)) /\ Cardinality(1..Len(s)) = Len(s)
    <3>1. IsFiniteSet(1..Len(s))
          /\ Cardinality(1..Len(s)) = IF 1 > Len(s) THEN 0 ELSE Len(s) - 1 + 1
      BY <1>1, FS_Interval, SMTT(30)
    <3> QED
      BY <1>1, <3>1
  <2> HIDE DEF before
  <2>3. IsFiniteSet(before) /\ Cardinality(before) <= Len(s)
    BY <2>1, <2>2, FS_Subset
  <2>4. Cardinality(before) \in Nat
    BY <2>3, FS_CardinalityType
  <2> QED
    BY <1>1, <2>3, <2>4
<1>4. /\ DOMAIN g = DOMAIN h
      /\ \A m \in DOMAIN h \ {src} : g[m] = h[m]
      /\ g = [m \in DOMAIN g |-> g[m]]
      /\ g[src] = rec
  <2>1. h[src] = [type |-> h[src].type, dp |-> h[src].dp,
                  maxTs |-> h[src].maxTs, links |-> h[src].links]
    BY <1>1 DEF Host
  <2>2. g = [h EXCEPT ![src].links = t, ![src].maxTs = max]
    BY DEF link_add
  <2> HIDE DEF t, max
  <2>3. DOMAIN g = DOMAIN h /\ g = [m \in DOMAIN g |-> g[m]]
    BY <2>2
  <2>4. \A m \in DOMAIN h \ {src} : g[m] = h[m]
    BY <2>2
  <2>5. g[src] = [h[src] EXCEPT !.links = t, !.maxTs = max]
    BY <2>2
  <2> QED
    BY <2>1, <2>3, <2>4, <2>5
<1> HIDE DEF e, p, before
<1>5. /\ t \in Seq(Link)
      /\ DOMAIN t = 1..(Len(s) + 1)
      /\ \A n \in 1..(Len(s) + 1) :
           t[n] = IF n < p THEN s[n] ELSE IF n = p THEN e ELSE s[n - 1]
  <2> HIDE DEF s
  <2>1. s \in Seq(Link) /\ p \in 1..(Len(s) + 1) /\ e \in Link
    BY <1>1, <1>2, <1>3
  <2>2. /\ InsertAt(s, p, e) \in Seq(Link)
        /\ DOMAIN InsertAt(s, p, e) = 1..(Len(s) + 1)
        /\ \A n \in 1..(Len(s) + 1) :
             InsertAt(s, p, e)[n] =
               IF n < p THEN s[n] ELSE IF n = p THEN e ELSE s[n - 1]
    BY <2>1, Inserted
  <2> QED
    BY <2>2
<1>6. max \in Ts
  BY <1>1
<1> HIDE DEF t, max
<1>7. rec \in Host
  BY <1>1, <1>5, <1>6 DEF Host
<1>8. /\ rec.type = h[src].type /\ rec.dp = h[src].dp
      /\ rec.maxTs = max /\ rec.links = t
  OBVIOUS
<1> HIDE DEF rec
<1>9. HostsOK(g)
  <2>1. \A m \in DOMAIN g : m \in Mac /\ g[m] \in Host
    BY <1>4, <1>7 DEF HostsOK
  <2> QED
    BY <1>4, <2>1 DEF HostsOK
<1>10. OneMore(s, g[src].links, e)
  <2> HIDE DEF s
  <2> QED
    BY <1>3, <1>4, <1>5, <1>8 DEF OneMore
<1> QED
  BY <1>4, <1>8, <1>9, <1>10 DEF max, e, LinkPut

\* A link from another node leaves what the table says of this node's peers.
LEMMA RemoteLinkAdded ==
  ASSUME NEW h, Table(h), NEW src \in DOMAIN h \ {Local},
         NEW dst \in DOMAIN h \ {src}, NEW rtt \in Rtts, NEW ts \in Ts,
         NEW g, g = link_add(h, src, dst, rtt, ts)
  PROVE  Table(g)
<1> DEFINE s == h[src].links
           e == [dst |-> dst, rtt |-> rtt]
<1>0. HostsOK(h) /\ dst \in Mac
  BY DEF Table, HostsOK
<1>p. LinkPut(h, g, src, e, ts)
  BY <1>0, LinkAdded
<1>1. /\ HostsOK(g)
      /\ DOMAIN g = DOMAIN h
      /\ \A m \in DOMAIN h \ {src} : g[m] = h[m]
      /\ g[src].type = h[src].type
      /\ g[src].dp = h[src].dp
  BY <1>p DEF LinkPut
<1>2. PICK p \in 1..(Len(s) + 1) :
        /\ DOMAIN g[src].links = 1..(Len(s) + 1)
        /\ \A n \in 1..(Len(s) + 1) :
             g[src].links[n] =
               IF n < p THEN s[n] ELSE IF n = p THEN e ELSE s[n - 1]
  BY <1>p DEF LinkPut, OneMore
<1>3. g[Local] = h[Local]
  BY <1>1 DEF Table, LocalAlone
<1>4. LocalAlone(g)
  BY <1>1 DEF Table, LocalAlone
<1>5. PeersDirect(g)
  BY <1>1 DEF Table, PeersDirect
<1>6. LinkedDirect(g)
  BY <1>1, <1>3 DEF Table, LinkedDirect
<1>7. Resolved(g)
  <2> SUFFICES ASSUME NEW x \in DOMAIN g, NEW n \in DOMAIN g[x].links
               PROVE  g[x].links[n].dst \in DOMAIN g \ {x}
    BY DEF Resolved
  <2>1. CASE x # src
    BY <2>1, <1>1 DEF Table, Resolved
  <2>2. CASE x = src
    <3>1. DOMAIN s = 1..Len(s) /\ Len(s) \in Nat
      BY <1>0, HostFields
    <3>2. \A o \in 1..Len(s) : s[o].dst \in DOMAIN h \ {src}
      BY <3>1 DEF Table, Resolved
    <3>3. e.dst = dst
      OBVIOUS
    <3>4. n \in 1..(Len(s) + 1)
      BY <2>2, <1>2
    <3> HIDE DEF s, e
    <3>5. CASE n < p
      BY <2>2, <3>1, <3>2, <3>4, <3>5, <1>1, <1>2
    <3>6. CASE n = p
      BY <2>2, <3>3, <3>4, <3>6, <1>1, <1>2
    <3>7. CASE n > p
      <4>1. n - 1 \in 1..Len(s) /\ g[src].links[n] = s[n - 1]
        BY <3>1, <3>4, <3>7, <1>2
      <4> QED
        BY <2>2, <4>1, <3>2, <1>1
    <3> QED
      BY <3>1, <3>4, <3>5, <3>6, <3>7
  <2> QED
    BY <2>1, <2>2
<1> QED
  BY <1>1, <1>4, <1>5, <1>6, <1>7 DEF Table

-----------------------------------------------------------------------------
(* The loop of rt_update_edges over a link graph, from the table old.      *)

\* The links of a host are the old ones, or it has a larger time stamp.
Refreshed(a, b) ==
  \/ b.links = a.links /\ b.maxTs = a.maxTs
  \/ b.maxTs > a.maxTs

SinceBut(old, h, x) ==
  /\ DOMAIN old \subseteq DOMAIN h
  /\ h[Local] = old[Local]
  /\ \A m \in DOMAIN old : h[m].type = old[m].type /\ h[m].dp = old[m].dp
  /\ \A m \in DOMAIN h \ DOMAIN old : h[m].type = "normal"
  /\ \A m \in DOMAIN old \ {Local, x} : Refreshed(old[m], h[m])

\* The state of the loop: the source it is at, unless its edges are to be
\* skipped, is another node whose time stamp has grown.
InLoop(old, at) ==
  /\ Table(at.host)
  /\ SinceBut(old, at.host, Local)
  /\ at.src # 0 => at.src \in DOMAIN at.host
  /\ at.src # 0 /\ ~at.skip => at.src # Local
  /\ at.src \in DOMAIN old /\ ~at.skip =>
       at.host[at.src].maxTs > old[at.src].maxTs

LEMMA EdgeAdded ==
  ASSUME NEW old, HostsOK(old), NEW h, Table(h), NEW e \in Edge,
         e.src # e.dst, e.src \in DOMAIN h \ {Local}, SinceBut(old, h, e.src),
         e.src \in DOMAIN old =>
           h[e.src].maxTs > old[e.src].maxTs \/ e.ts > old[e.src].maxTs
  PROVE  InLoop(old, AddEdge(h, e))
<1> DEFINE new == NewHost("normal", NoDp)
           both == IF e.dst \in DOMAIN h THEN h ELSE WithHost(h, e.dst, new)
           g == link_add(both, e.src, e.dst, e.rtt, e.ts)
<1>1. e.src \in Mac /\ e.dst \in Mac /\ e.rtt \in Rtts /\ e.ts \in Ts
  BY DEF Edge
<1>2. /\ Table(both)
      /\ DOMAIN both = DOMAIN h \cup {e.dst}
      /\ \A x \in DOMAIN h : both[x] = h[x]
      /\ e.dst \notin DOMAIN h => both[e.dst].type = "normal"
  <2>1. CASE e.dst \in DOMAIN h
    BY <2>1
  <2>2. CASE e.dst \notin DOMAIN h
    <3>1. new.type = "normal"
      BY DEF NewHost
    <3> HIDE DEF new
    <3>2. /\ Table(WithHost(h, e.dst, new))
          /\ DOMAIN WithHost(h, e.dst, new) = DOMAIN h \cup {e.dst}
          /\ \A x \in DOMAIN h : WithHost(h, e.dst, new)[x] = h[x]
          /\ WithHost(h, e.dst, new)[e.dst] = new
      BY <1>1, <2>2, NormalAdded DEF new
    <3> QED
      BY <2>2, <3>1, <3>2
  <2> QED
    BY <2>1, <2>2
<1> HIDE DEF both
<1>3. HostsOK(both) /\ e.src \in DOMAIN both /\ e.dst \in DOMAIN both
  BY <1>2 DEF Table
<1>4. Table(g)
  BY <1>1, <1>2, <1>3, RemoteLinkAdded
<1>5. LinkPut(both, g, e.src, [dst |-> e.dst, rtt |-> e.rtt], e.ts)
  BY <1>1, <1>3, LinkAdded
<1>6. AddEdge(h, e) = [host |-> g, src |-> e.src, skip |-> FALSE]
  BY DEF AddEdge, both
<1> HIDE DEF g
<1>7. /\ DOMAIN g = DOMAIN h \cup {e.dst}
      /\ \A m \in DOMAIN h \ {e.src} : g[m] = h[m]
      /\ g[e.src].type = h[e.src].type
      /\ g[e.src].dp = h[e.src].dp
      /\ g[e.src].maxTs = IF e.ts > h[e.src].maxTs THEN e.ts ELSE h[e.src].maxTs
      /\ e.dst \notin DOMAIN h => g[e.dst].type = "normal"
  BY <1>2, <1>5 DEF LinkPut
<1>8. e.src \in DOMAIN old => g[e.src].maxTs > old[e.src].maxTs
  <2> SUFFICES ASSUME e.src \in DOMAIN old
               PROVE  g[e.src].maxTs > old[e.src].maxTs
    OBVIOUS
  <2>1. old[e.src].maxTs \in Nat /\ h[e.src].maxTs \in Nat /\ e.ts \in Nat
    BY <1>1, HostFields, TsType DEF Table
  <2> QED
    BY <1>7, <2>1
<1>9. SinceBut(old, g, Local)
  <2>1. DOMAIN old \subseteq DOMAIN g
    BY <1>7 DEF SinceBut
  <2>2. g[Local] = old[Local]
    BY <1>7 DEF SinceBut, Table, LocalAlone
  <2>3. \A m \in DOMAIN old : g[m].type = old[m].type /\ g[m].dp = old[m].dp
    BY <1>7 DEF SinceBut
  <2>4. \A m \in DOMAIN g \ DOMAIN old : g[m].type = "normal"
    BY <1>7 DEF SinceBut
  <2>5. \A m \in DOMAIN old \ {Local, Local} : Refreshed(old[m], g[m])
    <3> SUFFICES ASSUME NEW m \in DOMAIN old \ {Local}
                 PROVE  Refreshed(old[m], g[m])
      OBVIOUS
    <3>1. CASE m = e.src
      BY <3>1, <1>8 DEF Refreshed
    <3>2. CASE m # e.src
      BY <3>2, <1>7 DEF SinceBut
    <3> QED
      BY <3>1, <3>2
  <2> QED
    BY <2>1, <2>2, <2>3, <2>4, <2>5 DEF SinceBut
<1> QED
  BY <1>4, <1>6, <1>7, <1>8, <1>9 DEF InLoop

\* The links of another node are wiped before newer ones are added.
LEMMA LinksWiped ==
  ASSUME NEW h, Table(h), NEW m \in DOMAIN h \ {Local}
  PROVE  /\ Table([h EXCEPT ![m].links = <<>>])
         /\ DOMAIN [h EXCEPT ![m].links = <<>>] = DOMAIN h
         /\ \A x \in DOMAIN h \ {m} : [h EXCEPT ![m].links = <<>>][x] = h[x]
         /\ [h EXCEPT ![m].links = <<>>][m].type = h[m].type
         /\ [h EXCEPT ![m].links = <<>>][m].dp = h[m].dp
         /\ [h EXCEPT ![m].links = <<>>][m].maxTs = h[m].maxTs
<1> DEFINE g == [h EXCEPT ![m].links = <<>>]
           rec == [h[m] EXCEPT !.links = <<>>]
<1>0. HostsOK(h) /\ h[m] \in Host
  BY HostFields DEF Table
<1>1. /\ rec \in Host /\ rec.type = h[m].type /\ rec.dp = h[m].dp
      /\ rec.maxTs = h[m].maxTs /\ DOMAIN rec.links = {}
  <2> DEFINE none == <<>>
  <2>1. none \in Seq(Link) /\ DOMAIN none = {}
    OBVIOUS
  <2> HIDE DEF none
  <2>2. rec = [h[m] EXCEPT !.links = none]
    BY DEF none
  <2> QED
    BY <1>0, <2>1, <2>2 DEF Host
<1>2. /\ DOMAIN g = DOMAIN h /\ g = [x \in DOMAIN g |-> g[x]]
      /\ \A x \in DOMAIN h \ {m} : g[x] = h[x]
      /\ g[m] = rec
  OBVIOUS
<1> HIDE DEF g, rec
<1>3. HostsOK(g)
  <2>1. \A x \in DOMAIN g : x \in Mac /\ g[x] \in Host
    BY <1>0, <1>1, <1>2 DEF HostsOK
  <2> QED
    BY <1>2, <2>1 DEF HostsOK
<1>4. g[Local] = h[Local]
  BY <1>2 DEF Table, LocalAlone
<1>5. LocalAlone(g) /\ PeersDirect(g)
  BY <1>1, <1>2 DEF Table, LocalAlone, PeersDirect
<1>6. LinkedDirect(g)
  BY <1>1, <1>2, <1>4 DEF Table, LinkedDirect
<1>7. Resolved(g)
  BY <1>1, <1>2 DEF Table, Resolved
<1>8. Table(g)
  BY <1>3, <1>5, <1>6, <1>7 DEF Table
<1> QED
  BY <1>1, <1>2, <1>8 DEF g

LEMMA EdgeTaken ==
  ASSUME NEW old, HostsOK(old), NEW at, InLoop(old, at), NEW e \in Edge
  PROVE  InLoop(old, TakeEdge(at, e))
<1> DEFINE h == at.host
<1>0. /\ Table(h) /\ HostsOK(h) /\ SinceBut(old, h, Local)
      /\ e.src \in Mac /\ e.dst \in Mac /\ e.ts \in Ts
      /\ e.src # 0 /\ Local \in DOMAIN h
  BY MacAssumption DEF InLoop, Edge, Table, LocalAlone
<1>s. \A x : SinceBut(old, h, x)
  BY <1>0 DEF SinceBut
<1>1. CASE e.src = e.dst \/ (e.src = at.src /\ at.skip)
  BY <1>1 DEF TakeEdge
<1>2. CASE e.src # e.dst /\ e.src = at.src /\ ~at.skip
  <2>1. TakeEdge(at, e) = AddEdge(h, e)
    BY <1>2 DEF TakeEdge
  <2>2. e.src \in DOMAIN h \ {Local}
    BY <1>0, <1>2 DEF InLoop
  <2>3. e.src \in DOMAIN old => h[e.src].maxTs > old[e.src].maxTs
    BY <1>2 DEF InLoop
  <2> QED
    BY <1>0, <1>2, <1>s, <2>1, <2>2, <2>3, EdgeAdded
<1>3. CASE e.src # e.dst /\ e.src # at.src /\ e.src \notin DOMAIN h
  <2> DEFINE new == NewHost("normal", NoDp)
             g == WithHost(h, e.src, new)
  <2>1. TakeEdge(at, e) = AddEdge(g, e)
    BY <1>3 DEF TakeEdge
  <2>2. new.type = "normal"
    BY DEF NewHost
  <2> HIDE DEF new
  <2>3. /\ Table(g) /\ DOMAIN g = DOMAIN h \cup {e.src}
        /\ \A x \in DOMAIN h : g[x] = h[x]
        /\ g[e.src] = new
    BY <1>0, <1>3, NormalAdded DEF new
  <2> HIDE DEF g
  <2>4. SinceBut(old, g, e.src)
    BY <1>0, <1>3, <2>2, <2>3 DEF SinceBut, Table, LocalAlone
  <2>5. e.src \notin DOMAIN old /\ e.src \in DOMAIN g \ {Local}
    BY <1>0, <1>3, <2>3 DEF SinceBut
  <2> QED
    BY <1>3, <2>1, <2>3, <2>4, <2>5, EdgeAdded
<1>4. CASE /\ e.src # e.dst /\ e.src # at.src /\ e.src \in DOMAIN h
           /\ Newer(h[e.src], e)
  <2> DEFINE g == [h EXCEPT ![e.src].links = <<>>]
  <2>1. TakeEdge(at, e) = AddEdge(g, e)
    BY <1>4 DEF TakeEdge
  <2>2. e.src # Local /\ h[e.src].maxTs < e.ts
    BY <1>0, <1>4 DEF Newer, Table, LocalAlone
  <2>3. /\ Table(g) /\ DOMAIN g = DOMAIN h
        /\ \A m \in DOMAIN h \ {e.src} : g[m] = h[m]
        /\ g[e.src].type = h[e.src].type /\ g[e.src].dp = h[e.src].dp
        /\ g[e.src].maxTs = h[e.src].maxTs
    BY <1>0, <1>4, <2>2, LinksWiped
  <2> HIDE DEF g
  <2>4. SinceBut(old, g, e.src)
    BY <1>0, <2>2, <2>3 DEF SinceBut
  <2>5. e.src \in DOMAIN old => e.ts > old[e.src].maxTs
    <3> SUFFICES ASSUME e.src \in DOMAIN old PROVE e.ts > old[e.src].maxTs
      OBVIOUS
    <3>1. old[e.src].maxTs \in Nat /\ h[e.src].maxTs \in Nat /\ e.ts \in Nat
      BY <1>0, <1>4, HostFields, TsType
    <3>2. Refreshed(old[e.src], h[e.src])
      BY <1>0, <2>2 DEF SinceBut
    <3> QED
      BY <2>2, <3>1, <3>2 DEF Refreshed
  <2> QED
    BY <1>4, <2>1, <2>2, <2>3, <2>4, <2>5, EdgeAdded
<1>5. CASE /\ e.src # e.dst /\ e.src # at.src /\ e.src \in DOMAIN h
           /\ ~Newer(h[e.src], e)
  <2>1. TakeEdge(at, e) = [host |-> h, src |-> e.src, skip |-> TRUE]
    BY <1>5 DEF TakeEdge
  <2> QED
    BY <1>0, <1>5, <2>1 DEF InLoop
<1> QED
  BY <1>1, <1>2, <1>3, <1>4, <1>5

\* The recursive function inside TakeEdges.
Turn(f, h, q, k) ==
  f = [n \in 0..k |->
         IF n = 0 THEN [host |-> h, src |-> 0, skip |-> FALSE]
         ELSE TakeEdge(f[n - 1], q[n])]

LEMMA TurnsExist ==
  ASSUME NEW h, NEW q, NEW n \in Nat
  PROVE  \E f : Turn(f, h, q, n)
<1> DEFINE first == [host |-> h, src |-> 0, skip |-> FALSE]
           S == {k \in Nat : \E f : Turn(f, h, q, k)}
<1>1. 0 \in S
  <2> DEFINE f == [k \in 0..0 |-> first]
  <2>1. f = [k \in 0..0 |-> IF k = 0 THEN first ELSE TakeEdge(f[k - 1], q[k])]
    <3> HIDE DEF first
    <3> QED
      OBVIOUS
  <2>2. Turn(f, h, q, 0)
    <3> HIDE DEF f
    <3> QED
      BY <2>1 DEF Turn
  <2> QED
    BY <2>2
<1>2. ASSUME NEW k \in Nat, k \in S
      PROVE  k + 1 \in S
  <2>1. PICK f : Turn(f, h, q, k)
    BY <1>2
  <2> DEFINE G(x) == IF x = 0 THEN first ELSE TakeEdge(f[x - 1], q[x])
             g == [x \in 0..(k + 1) |-> G(x)]
             H(x) == IF x = 0 THEN first ELSE TakeEdge(g[x - 1], q[x])
  <2>2. \A x \in 0..k : f[x] = G(x)
    BY <2>1 DEF Turn
  <2>3. \A x \in 1..(k + 1) : g[x - 1] = f[x - 1]
    <3> HIDE DEF G
    <3> QED
      BY <2>2
  <2>4. \A x \in 0..(k + 1) : G(x) = H(x)
    <3> HIDE DEF g, first
    <3> QED
      BY <2>3
  <2>5. g = [x \in 0..(k + 1) |-> H(x)]
    <3> HIDE DEF G, H
    <3> QED
      BY <2>4
  <2>6. Turn(g, h, q, k + 1)
    <3> HIDE DEF g
    <3> QED
      BY <2>5 DEF Turn
  <2> QED
    BY <2>6
<1> HIDE DEF S
<1>3. Nat \subseteq S
  BY <1>1, <1>2, SetInduction
<1> QED
  BY <1>3 DEF S

LEMMA TakeEdgesTurns ==
  ASSUME NEW h, NEW q, Len(q) \in Nat
  PROVE  \E f : Turn(f, h, q, Len(q)) /\ TakeEdges(h, q) = f[Len(q)].host
<1> DEFINE f == CHOOSE f : Turn(f, h, q, Len(q))
<1>1. Turn(f, h, q, Len(q))
  BY TurnsExist
<1>2. TakeEdges(h, q) = f[Len(q)].host
  BY DEF TakeEdges, Turn
<1> QED
  BY <1>1, <1>2

\* The whole loop.
LEMMA EdgesTaken ==
  ASSUME NEW h, Table(h), NEW q \in Seq(Edge)
  PROVE  Table(TakeEdges(h, q)) /\ SinceBut(h, TakeEdges(h, q), Local)
<1> DEFINE first == [host |-> h, src |-> 0, skip |-> FALSE]
<1>0. Len(q) \in Nat /\ HostsOK(h) /\ \A n \in 1..Len(q) : q[n] \in Edge
  BY LenProperties, ElementOfSeq DEF Table
<1>1. PICK f : Turn(f, h, q, Len(q)) /\ TakeEdges(h, q) = f[Len(q)].host
  BY <1>0, TakeEdgesTurns
<1>2. InLoop(h, first)
  <2>1. SinceBut(h, h, Local)
    BY DEF SinceBut, Refreshed
  <2>2. 0 \notin DOMAIN h
    BY <1>0, MacAssumption DEF HostsOK
  <2> QED
    BY <2>1, <2>2 DEF InLoop
<1> DEFINE S == {n \in Nat : n <= Len(q) => InLoop(h, f[n])}
<1>3. 0 \in S
  <2>1. f[0] = first
    BY <1>0, <1>1 DEF Turn
  <2> QED
    BY <1>2, <2>1
<1>4. ASSUME NEW n \in Nat, n \in S
      PROVE  n + 1 \in S
  <2> SUFFICES ASSUME n + 1 <= Len(q) PROVE InLoop(h, f[n + 1])
    OBVIOUS
  <2>1. n + 1 \in 0..Len(q) /\ n + 1 # 0 /\ (n + 1) - 1 = n /\ n + 1 \in 1..Len(q)
    BY <1>0
  <2>2. f[n + 1] = TakeEdge(f[n], q[n + 1])
    BY <1>1, <2>1 DEF Turn
  <2>3. InLoop(h, f[n]) /\ q[n + 1] \in Edge
    BY <1>0, <1>4, <2>1
  <2> QED
    BY <1>0, <2>2, <2>3, EdgeTaken
<1> HIDE DEF S
<1>5. Nat \subseteq S
  BY <1>3, <1>4, SetInduction
<1>6. InLoop(h, f[Len(q)])
  BY <1>0, <1>5 DEF S
<1> QED
  BY <1>1, <1>6 DEF InLoop

\* qsort gives a sequence of edges of the packet.
LEMMA SortedType ==
  ASSUME NEW p \in Packets, NEW q \in SortedEdges(p)
  PROVE  q \in Seq(Edge)
<1>1. p \in Seq(Edge)
  BY PacketsAssumption
<1>2. PICK f \in Bijection(DOMAIN p, DOMAIN p) : q = [n \in DOMAIN p |-> p[f[n]]]
  BY DEF SortedEdges
<1>3. f \in [DOMAIN p -> DOMAIN p]
  BY <1>2 DEF Bijection, Injection, Surjection
<1>4. DOMAIN p = 1..Len(p) /\ Len(p) \in Nat /\ \A n \in 1..Len(p) : p[n] \in Edge
  BY <1>1, LenProperties, ElementOfSeq
<1>5. \A n \in 1..Len(p) : q[n] \in Edge
  BY <1>2, <1>3, <1>4
<1> QED
  BY <1>2, <1>4, <1>5

-----------------------------------------------------------------------------
(* Where two links from one host to another come from.                     *)

\* Among the first k edges of q there is one, there are two, from x to m.
Brought(q, k, x, m) == \E n \in 1..k : q[n].src = x /\ q[n].dst = m

BroughtTwice(q, k, x, m) ==
  \E n, o \in 1..k : /\ n # o
                     /\ q[n].src = x /\ q[n].dst = m
                     /\ q[o].src = x /\ q[o].dst = m

Doubled(old, q, k, h) ==
  \A x \in DOMAIN h : \A m :
    Twice(h[x].links, m) =>
      \/ x \in DOMAIN old /\ Twice(old[x].links, m)
      \/ BroughtTwice(q, k, x, m)

AllBrought(q, k, h, x) ==
  \A n \in DOMAIN h[x].links : Brought(q, k, x, h[x].links[n].dst)

\* What the loop knows of two links after k edges: the links of the source
\* it is at are all of this packet.
DoubledAt(old, q, k, at) ==
  /\ Doubled(old, q, k, at.host)
  /\ at.src # 0 /\ ~at.skip => AllBrought(q, k, at.host, at.src)

\* One link more makes two to its destination if there was one.
LEMMA TwiceAfterOneMore ==
  ASSUME NEW s, Len(s) \in Nat, DOMAIN s = 1..Len(s), NEW t, NEW e, OneMore(s, t, e)
  PROVE  /\ \A n \in DOMAIN t : t[n] = e \/ \E o \in DOMAIN s : t[n] = s[o]
         /\ \A m : Twice(t, m) => Twice(s, m) \/ (e.dst = m /\ ~None(s, m))
<1>1. PICK p \in 1..(Len(s) + 1) :
        /\ DOMAIN t = 1..(Len(s) + 1)
        /\ \A n \in 1..(Len(s) + 1) :
             t[n] = IF n < p THEN s[n] ELSE IF n = p THEN e ELSE s[n - 1]
  BY DEF OneMore
<1> DEFINE Old(n) == IF n < p THEN n ELSE n - 1
<1>2. \A n \in DOMAIN t : n # p => Old(n) \in DOMAIN s /\ t[n] = s[Old(n)]
  BY <1>1
<1>3. \A n, o \in DOMAIN t : n # o /\ n # p /\ o # p => Old(n) # Old(o)
  BY <1>1
<1>4. t[p] = e
  BY <1>1
<1> HIDE DEF Old
<1>5. ASSUME NEW m, Twice(t, m), ~Twice(s, m)
      PROVE  e.dst = m /\ ~None(s, m)
  <2>1. PICK n, o \in DOMAIN t : n # o /\ t[n].dst = m /\ t[o].dst = m
    BY <1>5 DEF Twice
  <2>2. n = p \/ o = p
    BY <1>2, <1>3, <1>5, <2>1 DEF Twice
  <2>3. e.dst = m
    BY <1>4, <2>1, <2>2
  <2>4. ASSUME NEW y \in DOMAIN t, y # p, t[y].dst = m
        PROVE  ~None(s, m)
    <3>1. Old(y) \in DOMAIN s /\ s[Old(y)].dst = m
      BY <1>2, <2>4
    <3> QED
      BY <3>1 DEF None
  <2>5. ~None(s, m)
    BY <2>1, <2>4
  <2> QED
    BY <2>3, <2>5
<1> QED
  BY <1>2, <1>4, <1>5

\* More edges only add to what was brought.
LEMMA BroughtBefore ==
  ASSUME NEW q, NEW k \in Nat
  PROVE  /\ \A x, m : Brought(q, k, x, m) => Brought(q, k + 1, x, m)
         /\ \A x, m : BroughtTwice(q, k, x, m) => BroughtTwice(q, k + 1, x, m)
<1>1. \A n \in 1..k : n \in 1..(k + 1)
  OBVIOUS
<1> QED
  BY <1>1 DEF Brought, BroughtTwice

LEMMA EdgeDoubles ==
  ASSUME NEW old, NEW q, NEW k \in Nat, NEW e \in Edge, q[k + 1] = e,
         NEW h, Table(h), e.src # e.dst, e.src \in DOMAIN h \ {Local},
         Doubled(old, q, k, h), AllBrought(q, k, h, e.src)
  PROVE  DoubledAt(old, q, k + 1, AddEdge(h, e))
<1> DEFINE new == NewHost("normal", NoDp)
           both == IF e.dst \in DOMAIN h THEN h ELSE WithHost(h, e.dst, new)
           g == link_add(both, e.src, e.dst, e.rtt, e.ts)
           l == [dst |-> e.dst, rtt |-> e.rtt]
<1>1. e.src \in Mac /\ e.dst \in Mac /\ e.rtt \in Rtts /\ e.ts \in Ts
  BY DEF Edge
<1>2. /\ HostsOK(both)
      /\ DOMAIN both = DOMAIN h \cup {e.dst}
      /\ \A x \in DOMAIN h : both[x] = h[x]
      /\ e.dst \notin DOMAIN h => DOMAIN both[e.dst].links = {}
  <2>1. CASE e.dst \in DOMAIN h
    BY <2>1 DEF Table
  <2>2. CASE e.dst \notin DOMAIN h
    <3>1. DOMAIN new.links = {}
      BY DEF NewHost
    <3> HIDE DEF new
    <3>2. /\ Table(WithHost(h, e.dst, new))
          /\ DOMAIN WithHost(h, e.dst, new) = DOMAIN h \cup {e.dst}
          /\ \A x \in DOMAIN h : WithHost(h, e.dst, new)[x] = h[x]
          /\ WithHost(h, e.dst, new)[e.dst] = new
      BY <1>1, <2>2, NormalAdded DEF new
    <3> QED
      BY <2>2, <3>1, <3>2 DEF Table
  <2> QED
    BY <2>1, <2>2
<1> HIDE DEF both
<1>3. LinkPut(both, g, e.src, l, e.ts)
  BY <1>1, <1>2, LinkAdded
<1>4. AddEdge(h, e) = [host |-> g, src |-> e.src, skip |-> FALSE]
  BY DEF AddEdge, both
<1>5. l.dst = e.dst
  OBVIOUS
<1> HIDE DEF g, l
<1>6. /\ DOMAIN g = DOMAIN h \cup {e.dst}
      /\ \A x \in DOMAIN h \ {e.src} : g[x] = h[x]
      /\ e.dst \notin DOMAIN h => DOMAIN g[e.dst].links = {}
      /\ OneMore(h[e.src].links, g[e.src].links, l)
  BY <1>2, <1>3 DEF LinkPut
<1> DEFINE s == h[e.src].links
           t == g[e.src].links
<1>7. /\ \A n \in DOMAIN t : t[n] = l \/ \E o \in DOMAIN s : t[n] = s[o]
      /\ \A m : Twice(t, m) => Twice(s, m) \/ (e.dst = m /\ ~None(s, m))
  <2>1. DOMAIN s = 1..Len(s) /\ Len(s) \in Nat
    BY HostFields DEF Table
  <2>2. OneMore(s, t, l)
    BY <1>6
  <2> HIDE DEF s, t
  <2>3. /\ \A n \in DOMAIN t : t[n] = l \/ \E o \in DOMAIN s : t[n] = s[o]
        /\ \A m : Twice(t, m) => Twice(s, m) \/ (l.dst = m /\ ~None(s, m))
    BY <2>1, <2>2, TwiceAfterOneMore
  <2> QED
    BY <1>5, <2>3
<1>8. k + 1 \in 1..(k + 1) /\ \A n \in 1..k : n \in 1..(k + 1) /\ n # k + 1
  OBVIOUS
<1>9. AllBrought(q, k + 1, g, e.src)
  <2> SUFFICES ASSUME NEW n \in DOMAIN t PROVE Brought(q, k + 1, e.src, t[n].dst)
    BY DEF AllBrought
  <2>1. CASE t[n] = l
    BY <2>1, <1>5, <1>8 DEF Brought
  <2>2. CASE \E o \in DOMAIN s : t[n] = s[o]
    BY <2>2, BroughtBefore DEF AllBrought
  <2> QED
    BY <2>1, <2>2, <1>7
<1>10. Doubled(old, q, k + 1, g)
  <2> SUFFICES ASSUME NEW x \in DOMAIN g, NEW m, Twice(g[x].links, m)
               PROVE  \/ x \in DOMAIN old /\ Twice(old[x].links, m)
                      \/ BroughtTwice(q, k + 1, x, m)
    BY DEF Doubled
  <2>1. CASE x \in DOMAIN h /\ Twice(h[x].links, m)
    BY <2>1, BroughtBefore DEF Doubled
  <2>2. CASE x = e.src /\ e.dst = m /\ ~None(s, m)
    <3>1. Brought(q, k, x, m)
      BY <2>2 DEF AllBrought, None
    <3>2. PICK n \in 1..k : q[n].src = x /\ q[n].dst = m
      BY <3>1 DEF Brought
    <3> QED
      BY <2>2, <3>2, <1>8 DEF BroughtTwice
  <2>3. CASE x \notin DOMAIN h
    BY <2>3, <1>6 DEF Twice
  <2>4. x \in DOMAIN h /\ x # e.src => Twice(h[x].links, m)
    BY <1>6
  <2>5. x = e.src => Twice(s, m) \/ (e.dst = m /\ ~None(s, m))
    BY <1>7
  <2> QED
    BY <2>1, <2>2, <2>3, <2>4, <2>5
<1> HIDE DEF s, t
<1> QED
  BY <1>4, <1>9, <1>10 DEF DoubledAt

LEMMA EdgeTakenDoubles ==
  ASSUME NEW old, NEW at, InLoop(old, at), NEW q, NEW k \in Nat,
         NEW e \in Edge, q[k + 1] = e, DoubledAt(old, q, k, at)
  PROVE  DoubledAt(old, q, k + 1, TakeEdge(at, e))
<1> DEFINE h == at.host
<1>0. /\ Table(h) /\ e.src \in Mac /\ e.dst \in Mac /\ e.src # 0
      /\ Doubled(old, q, k, h)
  BY MacAssumption DEF InLoop, Edge, DoubledAt
<1>m. /\ Doubled(old, q, k + 1, h)
      /\ at.src # 0 /\ ~at.skip => AllBrought(q, k + 1, h, at.src)
  BY <1>0, BroughtBefore DEF Doubled, AllBrought, DoubledAt
<1>1. CASE e.src = e.dst \/ (e.src = at.src /\ at.skip)
  <2>1. TakeEdge(at, e) = at
    BY <1>1 DEF TakeEdge
  <2> QED
    BY <1>m, <2>1 DEF DoubledAt
<1>2. CASE e.src # e.dst /\ e.src = at.src /\ ~at.skip
  <2>1. TakeEdge(at, e) = AddEdge(h, e)
    BY <1>2 DEF TakeEdge
  <2>2. e.src \in DOMAIN h \ {Local} /\ AllBrought(q, k, h, e.src)
    BY <1>0, <1>2 DEF InLoop, DoubledAt
  <2> QED
    BY <1>0, <1>2, <2>1, <2>2, EdgeDoubles
<1>3. CASE e.src # e.dst /\ e.src # at.src /\ e.src \notin DOMAIN h
  <2> DEFINE new == NewHost("normal", NoDp)
             g == WithHost(h, e.src, new)
  <2>1. TakeEdge(at, e) = AddEdge(g, e)
    BY <1>3 DEF TakeEdge
  <2>2. DOMAIN new.links = {}
    BY DEF NewHost
  <2> HIDE DEF new
  <2>3. /\ Table(g) /\ DOMAIN g = DOMAIN h \cup {e.src}
        /\ \A x \in DOMAIN h : g[x] = h[x]
        /\ g[e.src] = new
    BY <1>0, <1>3, NormalAdded DEF new
  <2> HIDE DEF g
  <2>4. Doubled(old, q, k, g)
    BY <1>0, <2>2, <2>3 DEF Doubled, Twice
  <2>5. AllBrought(q, k, g, e.src)
    BY <2>2, <2>3 DEF AllBrought
  <2>6. e.src \in DOMAIN g \ {Local}
    BY <1>0, <1>3, <2>3 DEF Table, LocalAlone
  <2> QED
    BY <1>3, <2>1, <2>3, <2>4, <2>5, <2>6, EdgeDoubles
<1>4. CASE /\ e.src # e.dst /\ e.src # at.src /\ e.src \in DOMAIN h
           /\ Newer(h[e.src], e)
  <2> DEFINE none == <<>>
             g == [h EXCEPT ![e.src].links = none]
  <2>1. TakeEdge(at, e) = AddEdge(g, e)
    BY <1>4 DEF TakeEdge
  <2>2. e.src # Local
    BY <1>0, <1>4 DEF Newer, Table, LocalAlone
  <2>3. /\ Table(g) /\ DOMAIN g = DOMAIN h
        /\ \A m \in DOMAIN h \ {e.src} : g[m] = h[m]
    BY <1>0, <1>4, <2>2, LinksWiped
  <2>4. DOMAIN g[e.src].links = {}
    <3>1. DOMAIN none = {}
      OBVIOUS
    <3> HIDE DEF none
    <3>2. h[e.src] \in Host
      BY <1>0, <1>4, HostFields DEF Table
    <3>3. g[e.src].links = none
      BY <1>4, <3>2 DEF Host
    <3> QED
      BY <3>1, <3>3
  <2> HIDE DEF g, none
  <2>5. Doubled(old, q, k, g)
    <3> SUFFICES ASSUME NEW x \in DOMAIN g, NEW m, Twice(g[x].links, m)
                 PROVE  \/ x \in DOMAIN old /\ Twice(old[x].links, m)
                        \/ BroughtTwice(q, k, x, m)
      BY DEF Doubled
    <3>1. x # e.src
      BY <2>4 DEF Twice
    <3> QED
      BY <1>0, <2>3, <3>1 DEF Doubled
  <2>6. AllBrought(q, k, g, e.src)
    BY <2>4 DEF AllBrought
  <2>7. e.src \in DOMAIN g \ {Local}
    BY <1>4, <2>2, <2>3
  <2> QED
    BY <1>4, <2>1, <2>3, <2>5, <2>6, <2>7, EdgeDoubles
<1>5. CASE /\ e.src # e.dst /\ e.src # at.src /\ e.src \in DOMAIN h
           /\ ~Newer(h[e.src], e)
  <2>1. TakeEdge(at, e) = [host |-> h, src |-> e.src, skip |-> TRUE]
    BY <1>5 DEF TakeEdge
  <2> QED
    BY <1>m, <2>1 DEF DoubledAt
<1> QED
  BY <1>1, <1>2, <1>3, <1>4, <1>5

\* After the loop, two links were there before or are two edges of the packet.
LEMMA EdgesTakenDoubles ==
  ASSUME NEW h, Table(h), NEW q \in Seq(Edge)
  PROVE  Doubled(h, q, Len(q), TakeEdges(h, q))
<1> DEFINE first == [host |-> h, src |-> 0, skip |-> FALSE]
<1>0. Len(q) \in Nat /\ HostsOK(h) /\ \A n \in 1..Len(q) : q[n] \in Edge
  BY LenProperties, ElementOfSeq DEF Table
<1>1. PICK f : Turn(f, h, q, Len(q)) /\ TakeEdges(h, q) = f[Len(q)].host
  BY <1>0, TakeEdgesTurns
<1>2. InLoop(h, first) /\ DoubledAt(h, q, 0, first)
  <2>1. SinceBut(h, h, Local)
    BY DEF SinceBut, Refreshed
  <2>2. 0 \notin DOMAIN h
    BY <1>0, MacAssumption DEF HostsOK
  <2>3. Doubled(h, q, 0, h)
    BY DEF Doubled
  <2> QED
    BY <2>1, <2>2, <2>3 DEF InLoop, DoubledAt
<1> DEFINE S == {n \in Nat : n <= Len(q) => InLoop(h, f[n]) /\ DoubledAt(h, q, n, f[n])}
<1>3. 0 \in S
  <2>1. f[0] = first
    BY <1>0, <1>1 DEF Turn
  <2> QED
    BY <1>2, <2>1
<1>4. ASSUME NEW n \in Nat, n \in S
      PROVE  n + 1 \in S
  <2> SUFFICES ASSUME n + 1 <= Len(q)
               PROVE  InLoop(h, f[n + 1]) /\ DoubledAt(h, q, n + 1, f[n + 1])
    OBVIOUS
  <2>1. n + 1 \in 0..Len(q) /\ n + 1 # 0 /\ (n + 1) - 1 = n /\ n + 1 \in 1..Len(q)
    BY <1>0
  <2>2. f[n + 1] = TakeEdge(f[n], q[n + 1])
    BY <1>1, <2>1 DEF Turn
  <2>3. InLoop(h, f[n]) /\ DoubledAt(h, q, n, f[n]) /\ q[n + 1] \in Edge
    BY <1>0, <1>4, <2>1
  <2>4. InLoop(h, TakeEdge(f[n], q[n + 1]))
    BY <1>0, <2>3, EdgeTaken
  <2>5. DoubledAt(h, q, n + 1, TakeEdge(f[n], q[n + 1]))
    BY <2>3, EdgeTakenDoubles
  <2> QED
    BY <2>2, <2>4, <2>5
<1> HIDE DEF S
<1>5. Nat \subseteq S
  BY <1>3, <1>4, SetInduction
<1>6. DoubledAt(h, q, Len(q), f[Len(q)])
  BY <1>0, <1>5 DEF S
<1> QED
  BY <1>1, <1>6 DEF DoubledAt

\* Sorting a packet brings no edge twice that is not in it twice.
LEMMA SortedRepeats ==
  ASSUME NEW p \in Packets, NEW q \in SortedEdges(p), NEW x, NEW m,
         BroughtTwice(q, Len(q), x, m)
  PROVE  Repeats(p, x, m)
<1>1. PICK f \in Bijection(DOMAIN p, DOMAIN p) : q = [n \in DOMAIN p |-> p[f[n]]]
  BY DEF SortedEdges
<1>2. f \in [DOMAIN p -> DOMAIN p] /\ \A n, o \in DOMAIN p : f[n] = f[o] => n = o
  BY <1>1 DEF Bijection, Injection, Surjection, IsInjective
<1>3. DOMAIN q = DOMAIN p /\ DOMAIN q = 1..Len(q)
  <2>1. q \in Seq(Edge)
    BY SortedType
  <2> QED
    BY <1>1, <2>1, LenProperties
<1>4. PICK n, o \in DOMAIN p : /\ n # o
                               /\ q[n].src = x /\ q[n].dst = m
                               /\ q[o].src = x /\ q[o].dst = m
  BY <1>3 DEF BroughtTwice
<1>5. /\ f[n] \in DOMAIN p /\ f[o] \in DOMAIN p /\ f[n] # f[o]
      /\ q[n] = p[f[n]] /\ q[o] = p[f[o]]
  BY <1>1, <1>2, <1>4
<1> QED
  BY <1>4, <1>5 DEF Repeats

-----------------------------------------------------------------------------
(* Links and hosts that are removed.                                       *)

\* Every link of t is one of s.
Among(t, s) == \A n \in DOMAIN t : \E o \in DOMAIN s : t[n] = s[o]

LEMMA OneRemoved ==
  ASSUME NEW s \in Seq(Link), NEW m, NEW t, t = RemoveOneLink(s, m)
  PROVE  /\ t \in Seq(Link)
         /\ Among(t, s)
         /\ None(s, m) => t = s
         /\ Once(s, m) => /\ None(t, m)
                          /\ \A x : x # m /\ Once(s, x) => Once(t, x)
<1>0. DOMAIN s = 1..Len(s) /\ Len(s) \in Nat
  BY LenProperties
<1>1. CASE LinksTo(s, m) = {}
  <2>1. t = s
    BY <1>1 DEF RemoveOneLink
  <2>2. None(s, m) /\ ~Once(s, m)
    BY <1>1 DEF LinksTo, None, Once
  <2> QED
    BY <2>1, <2>2 DEF Among
<1>2. CASE LinksTo(s, m) # {}
  <2> DEFINE p == CHOOSE n \in LinksTo(s, m) : TRUE
  <2>1. p \in 1..Len(s) /\ s[p].dst = m
    <3>1. p \in LinksTo(s, m)
      BY <1>2
    <3> QED
      BY <3>1, <1>0 DEF LinksTo
  <2>2. t = RemoveAt(s, p)
    BY <1>2 DEF RemoveOneLink
  <2> HIDE DEF p
  <2>3. /\ t \in Seq(Link)
        /\ DOMAIN t = 1..(Len(s) - 1)
        /\ \A n \in 1..(Len(s) - 1) : t[n] = IF n < p THEN s[n] ELSE s[n + 1]
    BY <2>1, <2>2, Removed
  <2>4. Among(t, s)
    BY <1>0, <2>1, <2>3 DEF Among
  <2>5. ~None(s, m)
    BY <1>0, <2>1 DEF None
  <2>6. ASSUME Once(s, m) PROVE None(t, m)
    <3>1. \A o \in 1..Len(s) : s[o].dst = m => o = p
      BY <1>0, <2>1, <2>6 DEF Once
    <3> SUFFICES ASSUME NEW n \in 1..(Len(s) - 1) PROVE t[n].dst # m
      BY <2>3 DEF None
    <3>2. CASE n < p
      BY <1>0, <2>1, <2>3, <3>1, <3>2
    <3>3. CASE ~(n < p)
      <4>1. n + 1 \in 1..Len(s) /\ n + 1 # p /\ t[n] = s[n + 1]
        BY <1>0, <2>1, <2>3, <3>3
      <4> QED
        BY <3>1, <4>1
    <3> QED
      BY <3>2, <3>3
  <2>7. ASSUME NEW x, x # m, Once(s, x) PROVE Once(t, x)
    <3>1. PICK n \in 1..Len(s) : /\ s[n].dst = x
                                 /\ \A o \in 1..Len(s) : s[o].dst = x => o = n
      BY <1>0, <2>7 DEF Once
    <3>2. n # p
      BY <2>1, <2>7, <3>1
    <3> DEFINE y == IF n < p THEN n ELSE n - 1
    <3>3. y \in 1..(Len(s) - 1) /\ t[y].dst = x
      <4>1. CASE n < p
        BY <4>1, <1>0, <2>1, <2>3, <3>1
      <4>2. CASE n > p
        <5>1. n - 1 \in 1..(Len(s) - 1) /\ ~(n - 1 < p) /\ (n - 1) + 1 = n
          BY <4>2, <1>0, <2>1
        <5>2. t[n - 1] = s[n]
          BY <2>3, <5>1
        <5> QED
          BY <4>2, <5>1, <5>2, <3>1, <2>1
      <4> QED
        BY <4>1, <4>2, <3>2, <2>1
    <3>4. \A o \in 1..(Len(s) - 1) : t[o].dst = x => o = y
      <4> SUFFICES ASSUME NEW o \in 1..(Len(s) - 1), t[o].dst = x PROVE o = y
        OBVIOUS
      <4>1. CASE o < p
        <5>1. o \in 1..Len(s) /\ s[o].dst = x
          BY <4>1, <1>0, <2>3
        <5>2. o = n
          BY <3>1, <5>1
        <5> QED
          BY <5>2, <4>1
      <4>2. CASE ~(o < p)
        <5>1. o + 1 \in 1..Len(s) /\ t[o] = s[o + 1]
          BY <4>2, <1>0, <2>3
        <5>2. o + 1 = n
          BY <3>1, <5>1
        <5> QED
          BY <5>2, <4>2, <2>1
      <4> QED
        BY <4>1, <4>2
    <3> HIDE DEF y
    <3>5. /\ y \in DOMAIN t /\ t[y].dst = x
          /\ \A o \in DOMAIN t : t[o].dst = x => o = y
      BY <2>3, <3>3, <3>4
    <3> QED
      BY <3>5 DEF Once
  <2> QED
    BY <2>3, <2>4, <2>5, <2>6, <2>7
<1> QED
  BY <1>1, <1>2

\* How often a link array leads to a host, in numbers.
LEMMA LinkCount ==
  ASSUME NEW s \in Seq(Link), NEW m
  PROVE  /\ None(s, m) <=> Cardinality(LinksTo(s, m)) = 0
         /\ Once(s, m) <=> Cardinality(LinksTo(s, m)) = 1
         /\ Cardinality(LinksTo(s, m)) \in Nat
<1> DEFINE L == LinksTo(s, m)
<1>1. IsFiniteSet(L) /\ Cardinality(L) \in Nat
  <2>1. Len(s) \in Nat /\ L \in SUBSET (1..Len(s))
    BY LenProperties DEF LinksTo
  <2>2. IsFiniteSet(1..Len(s))
    BY <2>1, FS_Interval
  <2> HIDE DEF L
  <2>3. IsFiniteSet(L)
    BY <2>1, <2>2, FS_Subset
  <2> QED
    BY <2>3, FS_CardinalityType
<1>2. None(s, m) <=> L = {}
  BY DEF None, LinksTo
<1>3. Once(s, m) <=> \E n : L = {n}
  <2>1. ASSUME Once(s, m) PROVE \E n : L = {n}
    <3>1. PICK n \in DOMAIN s : /\ s[n].dst = m
                                /\ \A o \in DOMAIN s : s[o].dst = m => o = n
      BY <2>1 DEF Once
    <3>2. L = {n}
      BY <3>1 DEF LinksTo
    <3> QED
      BY <3>2
  <2>2. ASSUME NEW n, L = {n} PROVE Once(s, m)
    <3>1. n \in L /\ \A o \in L : o = n
      BY <2>2
    <3>2. \A o : o \in L <=> o \in DOMAIN s /\ s[o].dst = m
      BY DEF LinksTo
    <3> HIDE DEF L
    <3> QED
      BY <3>1, <3>2 DEF Once
  <2> QED
    BY <2>1, <2>2
<1> HIDE DEF L
<1>4. L = {} <=> Cardinality(L) = 0
  BY <1>1, FS_EmptySet
<1>5. (\E n : L = {n}) <=> Cardinality(L) = 1
  BY <1>1, FS_Singleton
<1> QED
  BY <1>1, <1>2, <1>3, <1>4, <1>5 DEF L

(***************************************************************************)
(* What trimming does to a table, if it does not free the wrong host: it   *)
(* takes away at most normal hosts, and of the others only links.          *)
(***************************************************************************)
Trimmed(h, g) ==
  /\ DOMAIN g \subseteq DOMAIN h
  /\ \A m \in DOMAIN h \ DOMAIN g : m # Local /\ h[m].type = "normal"
  /\ \A m \in DOMAIN g :
       /\ g[m].type = h[m].type
       /\ g[m].dp = h[m].dp
       /\ g[m].maxTs = h[m].maxTs
       /\ Among(g[m].links, h[m].links)

\* A link left behind leads to a host to which there were two.
Leftover(h, g) ==
  \A x \in DOMAIN g : \A n \in DOMAIN g[x].links :
    \/ g[x].links[n].dst \in DOMAIN g \ {x}
    \/ Twice(h[x].links, g[x].links[n].dst)

LEMMA HostTrimmed ==
  ASSUME NEW h, Table(h), NEW v \in DOMAIN h, h[v].type = "normal"
  PROVE  /\ HostsOK(TrimLast(h, v))
         /\ Local \in DOMAIN TrimLast(h, v)
         /\ Trimmed(h, TrimLast(h, v))
         /\ Leftover(h, TrimLast(h, v))
         /\ (\A x \in DOMAIN h \ {v} : ~Twice(h[x].links, v)) => Table(TrimLast(h, v))
<1> DEFINE g == TrimLast(h, v)
           L(x) == RemoveOneLink(h[x].links, v)
<1>0. HostsOK(h) /\ v # Local /\ Local \in DOMAIN h
  BY DEF Table, LocalAlone
<1>1. /\ DOMAIN g = DOMAIN h \ {v}
      /\ g = [x \in DOMAIN g |-> g[x]]
      /\ \A x \in DOMAIN g : g[x] = [h[x] EXCEPT !.links = L(x)]
  BY DEF TrimLast
<1> HIDE DEF g
<1>2. \A x \in DOMAIN g :
        /\ h[x] \in Host
        /\ L(x) \in Seq(Link)
        /\ Among(L(x), h[x].links)
        /\ None(h[x].links, v) => L(x) = h[x].links
        /\ None(L(x), v) \/ Twice(h[x].links, v)
  <2> SUFFICES ASSUME NEW x \in DOMAIN g
               PROVE  /\ h[x] \in Host
                      /\ L(x) \in Seq(Link)
                      /\ Among(L(x), h[x].links)
                      /\ None(h[x].links, v) => L(x) = h[x].links
                      /\ None(L(x), v) \/ Twice(h[x].links, v)
    OBVIOUS
  <2>1. x \in DOMAIN h \ {v} /\ h[x] \in Host /\ h[x].links \in Seq(Link)
    BY <1>0, <1>1, HostFields
  <2>2. None(h[x].links, v) \/ Once(h[x].links, v) \/ Twice(h[x].links, v)
    BY DEF None, Once, Twice
  <2>3. /\ L(x) \in Seq(Link)
        /\ Among(L(x), h[x].links)
        /\ None(h[x].links, v) => L(x) = h[x].links
        /\ Once(h[x].links, v) => None(L(x), v)
    BY <2>1, OneRemoved
  <2> HIDE DEF L
  <2> QED
    BY <2>1, <2>2, <2>3
<1> HIDE DEF L
<1>3. \A x \in DOMAIN g :
        /\ g[x] \in Host
        /\ g[x].type = h[x].type
        /\ g[x].dp = h[x].dp
        /\ g[x].maxTs = h[x].maxTs
        /\ g[x].links = L(x)
  BY <1>1, <1>2 DEF Host
<1>4. Trimmed(h, g)
  BY <1>0, <1>1, <1>2, <1>3 DEF Trimmed
<1>5. HostsOK(g)
  BY <1>0, <1>1, <1>3 DEF HostsOK
<1>6. LocalAlone(g) /\ PeersDirect(g)
  BY <1>0, <1>1, <1>3 DEF Table, LocalAlone, PeersDirect
<1>7. g[Local].links = h[Local].links
  <2>1. None(h[Local].links, v)
    BY DEF Table, LinkedDirect
  <2> QED
    BY <2>1, <1>0, <1>1, <1>2, <1>3
<1>8. LinkedDirect(g)
  BY <1>1, <1>3, <1>7 DEF Table, LinkedDirect
<1>9. Leftover(h, g)
  <2> SUFFICES ASSUME NEW x \in DOMAIN g, NEW n \in DOMAIN g[x].links
               PROVE  \/ g[x].links[n].dst \in DOMAIN g \ {x}
                      \/ Twice(h[x].links, g[x].links[n].dst)
    BY DEF Leftover
  <2>1. n \in DOMAIN L(x) /\ g[x].links[n] = L(x)[n]
    BY <1>3
  <2>2. L(x)[n].dst # v \/ Twice(h[x].links, v)
    BY <2>1, <1>2 DEF None
  <2>3. PICK o \in DOMAIN h[x].links : L(x)[n] = h[x].links[o]
    BY <2>1, <1>2 DEF Among
  <2>4. L(x)[n].dst \in DOMAIN h \ {x}
    BY <2>3, <1>1 DEF Table, Resolved
  <2> QED
    BY <2>1, <2>2, <2>4, <1>1
<1>10. ASSUME \A x \in DOMAIN h \ {v} : ~Twice(h[x].links, v)
       PROVE  Table(g)
  <2>1. \A x \in DOMAIN g : \A n \in DOMAIN g[x].links : g[x].links[n].dst # v
    BY <1>1, <1>2, <1>3, <1>10 DEF None
  <2>2. Resolved(g)
    <3> SUFFICES ASSUME NEW x \in DOMAIN g, NEW n \in DOMAIN g[x].links
                 PROVE  g[x].links[n].dst \in DOMAIN g \ {x}
      BY DEF Resolved
    <3>1. PICK o \in DOMAIN h[x].links : g[x].links[n] = h[x].links[o]
      BY <1>2, <1>3 DEF Among
    <3>2. g[x].links[n].dst \in DOMAIN h \ {x}
      BY <3>1, <1>1 DEF Table, Resolved
    <3> QED
      BY <2>1, <3>2, <1>1
  <2> QED
    BY <1>5, <1>6, <1>8, <2>2 DEF Table
<1> QED
  BY <1>4, <1>5, <1>6, <1>9, <1>10 DEF g, LocalAlone

LEMMA TrimmedSelf == \A h : Trimmed(h, h)
  BY DEF Trimmed, Among

\* The links of a whole table all lead somewhere.
LEMMA LeftoverSelf == \A h : Table(h) => Leftover(h, h)
  BY DEF Leftover, Table, Resolved

\* trim_disjoint_hosts, where it frees the host it means to.
LEMMA TableTrimmed ==
  ASSUME NEW h, Table(h)
  PROVE  /\ HostsOK(trim_disjoint_hosts(h))
         /\ Local \in DOMAIN trim_disjoint_hosts(h)
         /\ Trimmed(h, trim_disjoint_hosts(h))
         /\ Leftover(h, trim_disjoint_hosts(h))
         /\ ~TrimLeavesLinks(h) => Table(trim_disjoint_hosts(h))
<1>1. CASE ToTrim(h) = {}
  BY <1>1, TrimmedSelf, LeftoverSelf DEF trim_disjoint_hosts, Table, LocalAlone
<1>2. CASE ToTrim(h) # {}
  <2> DEFINE v == CHOOSE m \in ToTrim(h) : TRUE
  <2>1. v \in ToTrim(h)
    BY <1>2
  <2>2. trim_disjoint_hosts(h) = TrimLast(h, v)
    BY <1>2 DEF trim_disjoint_hosts
  <2> HIDE DEF v
  <2>3. v \in DOMAIN h /\ h[v].type = "normal"
    BY <2>1 DEF ToTrim
  <2>4. ~TrimLeavesLinks(h) => \A x \in DOMAIN h \ {v} : ~Twice(h[x].links, v)
    BY <2>1 DEF TrimLeavesLinks
  <2> QED
    BY <2>2, <2>3, <2>4, HostTrimmed
<1> QED
  BY <1>1, <1>2

-----------------------------------------------------------------------------
(* The matrices.                                                           *)

LEMMA TableRows ==
  ASSUME NEW h, HostsOK(h)
  PROVE  /\ DOMAIN h \subseteq Nat
         /\ IsFiniteSet(DOMAIN h)
         /\ Cardinality(DOMAIN h) \in 0..Cardinality(Mac)
<1>1. DOMAIN h \in SUBSET Mac
  BY DEF HostsOK
<1>2. IsFiniteSet(DOMAIN h) /\ Cardinality(DOMAIN h) <= Cardinality(Mac)
  BY <1>1, MacAssumption, FS_Subset
<1>3. Cardinality(DOMAIN h) \in Nat /\ Cardinality(Mac) \in Nat
  BY <1>2, MacAssumption, FS_CardinalityType
<1>4. DOMAIN h \subseteq Nat
  BY <1>1, MacAssumption
<1> QED
  BY <1>2, <1>3, <1>4

\* A set of positions that is not empty has a last one.
LEMMA GreatestIn ==
  ASSUME NEW n \in Nat, NEW T, T \subseteq 1..n, T # {}
  PROVE  \E x \in T : \A y \in T : y <= x
<1> DEFINE U == {n - x : x \in T}
<1>0. \A x \in T : x \in Nat /\ n - x \in Nat
  OBVIOUS
<1>1. U \subseteq Nat /\ U # {}
  BY <1>0
<1> HIDE DEF U
<1>2. PICK u \in U : \A w \in U : u <= w
  BY <1>1, LeastNatural
<1>3. PICK x \in T : u = n - x
  BY DEF U
<1>4. \A y \in T : u <= n - y
  BY <1>2 DEF U
<1>5. \A y \in T : y <= x
  BY <1>3, <1>4
<1> QED
  BY <1>5

\* The matrix of the links; where it is not 0 there is a link.
LEMMA LinkMatrixEntries ==
  ASSUME NEW h, HostsOK(h)
  PROVE  /\ LinkMatrix(h) \in [1..Cardinality(DOMAIN h) ->
                                [1..Cardinality(DOMAIN h) -> Weight]]
         /\ \A r, c \in 1..Cardinality(DOMAIN h) :
              LinkMatrix(h)[r][c] # PATH_DISCON =>
                ~None(h[AtRow(h, r)].links, AtRow(h, c))
<1> DEFINE rows == 1..Cardinality(DOMAIN h)
           ns(src, dst) == LinksTo(h[src].links, dst)
           Rtt(src, dst) ==
             IF ns(src, dst) = {} THEN PATH_DISCON
             ELSE h[src].links[CHOOSE n \in ns(src, dst) :
                                 \A o \in ns(src, dst) : o <= n].rtt
<1>1. LinkMatrix(h) =
        [r \in rows |-> [c \in rows |-> Rtt(AtRow(h, r), AtRow(h, c))]]
  BY DEF LinkMatrix
<1>2. \A r \in rows : AtRow(h, r) \in DOMAIN h
  BY TableRows, Rows
<1>3. PATH_DISCON \in Weight /\ Rtts \subseteq Weight
  BY RttsAssumption, PathMaxAssumption DEF Weight, PATH_DISCON
<1>4. \A src \in DOMAIN h, dst \in DOMAIN h :
        /\ Rtt(src, dst) \in Weight
        /\ Rtt(src, dst) # PATH_DISCON => ~None(h[src].links, dst)
  <2> SUFFICES ASSUME NEW src \in DOMAIN h, NEW dst \in DOMAIN h
               PROVE  /\ Rtt(src, dst) \in Weight
                      /\ Rtt(src, dst) # PATH_DISCON => ~None(h[src].links, dst)
    OBVIOUS
  <2>1. CASE ns(src, dst) = {}
    BY <2>1, <1>3
  <2>2. CASE ns(src, dst) # {}
    <3> DEFINE s == h[src].links
               l == CHOOSE n \in ns(src, dst) : \A o \in ns(src, dst) : o <= n
    <3>1. s \in Seq(Link) /\ DOMAIN s = 1..Len(s) /\ Len(s) \in Nat
      BY HostFields
    <3>2. ns(src, dst) \subseteq DOMAIN s /\ \A n \in ns(src, dst) : s[n].dst = dst
      BY DEF LinksTo
    <3>3. l \in ns(src, dst)
      <4> HIDE DEF ns, s
      <4>1. \E n \in ns(src, dst) : \A o \in ns(src, dst) : o <= n
        BY <2>2, <3>1, <3>2, GreatestIn
      <4> QED
        BY <4>1
    <3>4. Rtt(src, dst) = s[l].rtt
      BY <2>2
    <3> HIDE DEF l, ns, Rtt, s
    <3>5. l \in 1..Len(s) /\ s[l].dst = dst
      BY <3>1, <3>2, <3>3
    <3>6. s[l] \in Link
      BY <3>1, <3>5, ElementOfSeq
    <3>7. Rtt(src, dst) \in Weight
      BY <1>3, <3>4, <3>6 DEF Link
    <3>8. ~None(s, dst)
      BY <3>1, <3>5 DEF None
    <3> QED
      BY <3>7, <3>8 DEF s
  <2> QED
    BY <2>1, <2>2
<1> HIDE DEF Rtt, rows
<1> QED
  BY <1>1, <1>2, <1>4 DEF rows

LEMMA PathsComputed ==
  ASSUME NEW h, HostsOK(h), NEW n, n = Cardinality(DOMAIN h),
         NEW c, c = compute_paths(h)
  PROVE  /\ n \in 0..Cardinality(Mac)
         /\ c.ct = n
         /\ Good(c, n, n, LinkMatrix(h))
<1> DEFINE l == LinkMatrix(h)
           m == ComputePaths(n, l)
<1>1. n \in 0..Cardinality(Mac) /\ n \in Nat
  BY TableRows, MacAssumption, FS_CardinalityType
<1>2. l \in [1..n -> [1..n -> Weight]]
  BY LinkMatrixEntries
<1> HIDE DEF l
<1>3. Good(m, n, n, l)
  BY <1>1, <1>2, ComputePathsGood
<1>4. c.ct = n /\ c.path = m.path /\ c.next = m.next
  BY DEF compute_paths, l
<1> HIDE DEF m
<1>5. Good(c, n, n, l)
  BY <1>3, <1>4 DEF Good, Matrices, Connects, HopsLinked, Descends, SelfDirect
<1> QED
  BY <1>1, <1>4, <1>5 DEF l

CacheOK(c) ==
  /\ c.ct \in 0..Cardinality(Mac)
  /\ \A r, s \in 1..c.ct : c.path[r][s] \in Weight /\ c.next[r][s] \in 0..c.ct

LEMMA ComputedOK ==
  ASSUME NEW h, HostsOK(h)
  PROVE  CacheOK(compute_paths(h))
<1> DEFINE n == Cardinality(DOMAIN h)
           c == compute_paths(h)
<1>1. n \in 0..Cardinality(Mac) /\ c.ct = n /\ Good(c, n, n, LinkMatrix(h))
  BY PathsComputed
<1> HIDE DEF c, n
<1> QED
  BY <1>1 DEF Good, Matrices, CacheOK, c

\* The edges that are exported lead from host to host.
LEMMA EdgesType ==
  ASSUME NEW h, HostsOK(h), NEW c, NEW edges \in EdgesOf(h, c)
  PROVE  edges \subseteq Mac \X Mac
<1> SUFFICES ASSUME NEW x \in edges PROVE x \in Mac \X Mac
  OBVIOUS
<1>1. \E m \in DOMAIN h : \E n \in DOMAIN h[m].links :
        x = <<m, h[m].links[n].dst>>
  BY DEF EdgesOf
<1>m. PICK m \in DOMAIN h : \E n \in DOMAIN h[m].links :
        x = <<m, h[m].links[n].dst>>
  BY <1>1
<1>2. PICK n \in DOMAIN h[m].links : x = <<m, h[m].links[n].dst>>
  BY <1>m
<1>3. h[m].links[n] \in Link
  BY HostFields, ElementOfSeq
<1> QED
  BY <1>2, <1>3, HostFields DEF Link

-----------------------------------------------------------------------------
(***************************************************************************)
(* The inductive invariant: the types; the table is whole as long as       *)
(* trimming has not broken it; and the matrices are those of the table,     *)
(* except that none exist before the first operation.                      *)
(***************************************************************************)
Empty == host = <<>> => cache = NoCache

Fresh == cache.ct # Cardinality(DOMAIN host) \/ cache = compute_paths(host)

IInv ==
  /\ TypeOK
  /\ Empty
  /\ Running => Table(host) /\ Fresh /\ RecomputeAlone

LEMMA TypeParts ==
  TypeOK <=> /\ HostsOK(host)
             /\ CacheOK(cache)
             /\ exported \subseteq Mac \X Mac
             /\ status \in {"ok", "corrupt", "dangling"}
  BY DEF TypeOK, HostsOK, CacheOK

LEMMA TypePartsNext ==
  TypeOK' <=> /\ HostsOK(host')
              /\ CacheOK(cache')
              /\ exported' \subseteq Mac \X Mac
              /\ status' \in {"ok", "corrupt", "dangling"}
  BY DEF TypeOK, HostsOK, CacheOK

LEMMA CacheUpdated ==
  ASSUME TypeOK, NEW h, Table(h), status = "ok", update_cache(h)
  PROVE  /\ IInv'
         /\ Trimmed(h, host')
         /\ Leftover(h, host')
<1>0. HostsOK(h)
  BY DEF Table
<1>e. \A g : Table(g) => g # <<>>
  BY DEF Table, LocalAlone
<1>1. CASE TrimFreesOther(h)
  <2>1. status' = "corrupt" /\ host' = h /\ cache' = cache /\ exported' = exported
    BY <1>1 DEF update_cache, TrimBreaks
  <2>2. TypeOK'
    BY <1>0, <2>1, TypeParts, TypePartsNext
  <2> QED
    BY <1>e, <2>1, <2>2, TrimmedSelf, LeftoverSelf DEF IInv, Empty, Running
<1>2. CASE ~TrimFreesOther(h) /\ TrimLeavesLinks(h)
  <2>1. /\ status' = "dangling" /\ host' = trim_disjoint_hosts(h)
        /\ cache' = cache /\ exported' = exported
    BY <1>2 DEF update_cache, TrimBreaks
  <2>2. /\ HostsOK(host') /\ Local \in DOMAIN host'
        /\ Trimmed(h, host') /\ Leftover(h, host')
    BY <2>1, TableTrimmed
  <2>3. TypeOK'
    BY <2>1, <2>2, TypeParts, TypePartsNext
  <2>4. host' # <<>>
    BY <2>2
  <2> QED
    BY <2>1, <2>2, <2>3, <2>4 DEF IInv, Empty, Running
<1>3. CASE ~TrimFreesOther(h) /\ ~TrimLeavesLinks(h)
  <2>1. /\ status' = status
        /\ host' = trim_disjoint_hosts(h)
        /\ cache' = compute_paths(host')
        /\ \E edges \in EdgesOf(host', cache') : exported' = exported \cup edges
    BY <1>3 DEF update_cache
  <2>2. Table(host') /\ Trimmed(h, host') /\ Leftover(h, host')
    BY <1>3, <2>1, TableTrimmed
  <2>3. HostsOK(host')
    BY <2>2 DEF Table
  <2>4. CacheOK(cache')
    BY <2>1, <2>3, ComputedOK
  <2>5. PICK edges \in EdgesOf(host', cache') : exported' = exported \cup edges
    BY <2>1
  <2>6. edges \subseteq Mac \X Mac
    BY <2>3, <2>5, EdgesType
  <2>7. TypeOK'
    BY <2>1, <2>3, <2>4, <2>5, <2>6, TypeParts, TypePartsNext
  <2>8. Fresh' /\ RecomputeAlone'
    <3>1. cache'.ct = Cardinality(DOMAIN host')
      BY <2>1, <2>3, PathsComputed
    <3> QED
      BY <2>1, <3>1 DEF Fresh, RecomputeAlone
  <2> QED
    BY <1>e, <2>2, <2>7, <2>8 DEF IInv, Empty
<1> QED
  BY <1>1, <1>2, <1>3

-----------------------------------------------------------------------------
(* The operations of the direct peers.                                     *)

\* One more link, to a host that had none.
LEMMA CountsAfterOneMore ==
  ASSUME NEW s \in Seq(Link), NEW t, NEW e, OneMore(s, t, e)
  PROVE  /\ \A n \in DOMAIN t : t[n] = e \/ \E o \in DOMAIN s : t[n] = s[o]
         /\ None(s, e.dst) => Once(t, e.dst)
         /\ \A x : x # e.dst /\ None(s, x) => None(t, x)
         /\ \A x : x # e.dst /\ Once(s, x) => Once(t, x)
<1>0. DOMAIN s = 1..Len(s) /\ Len(s) \in Nat
  BY LenProperties
<1>1. PICK p \in 1..(Len(s) + 1) :
        /\ DOMAIN t = 1..(Len(s) + 1)
        /\ \A n \in 1..(Len(s) + 1) :
             t[n] = IF n < p THEN s[n] ELSE IF n = p THEN e ELSE s[n - 1]
  BY DEF OneMore
<1>2. /\ p \in DOMAIN t /\ t[p] = e
      /\ \A n \in DOMAIN t : n < p => n \in 1..Len(s) /\ t[n] = s[n]
      /\ \A n \in DOMAIN t : n > p => n - 1 \in 1..Len(s) /\ t[n] = s[n - 1]
      /\ \A n \in DOMAIN t : n \in Int /\ p \in Int
  BY <1>0, <1>1
<1>3. \A n \in DOMAIN t : t[n] = e \/ \E o \in DOMAIN s : t[n] = s[o]
  <2> SUFFICES ASSUME NEW n \in DOMAIN t, n # p
               PROVE  \E o \in DOMAIN s : t[n] = s[o]
    BY <1>2
  <2>1. CASE n < p
    BY <2>1, <1>0, <1>2
  <2>2. CASE n > p
    BY <2>2, <1>0, <1>2
  <2> QED
    BY <2>1, <2>2, <1>2
<1>4. ASSUME None(s, e.dst) PROVE Once(t, e.dst)
  <2>1. \A n \in DOMAIN t : t[n].dst = e.dst => n = p
    <3> SUFFICES ASSUME NEW n \in DOMAIN t, n # p PROVE t[n].dst # e.dst
      OBVIOUS
    <3>1. CASE n < p
      BY <3>1, <1>0, <1>2, <1>4 DEF None
    <3>2. CASE n > p
      BY <3>2, <1>0, <1>2, <1>4 DEF None
    <3> QED
      BY <3>1, <3>2, <1>2
  <2> QED
    BY <1>2, <2>1 DEF Once
<1>5. ASSUME NEW x, x # e.dst, None(s, x) PROVE None(t, x)
  BY <1>3, <1>5 DEF None
<1>6. ASSUME NEW x, x # e.dst, Once(s, x) PROVE Once(t, x)
  <2>1. PICK o \in 1..Len(s) : /\ s[o].dst = x
                               /\ \A n \in 1..Len(s) : s[n].dst = x => n = o
    BY <1>0, <1>6 DEF Once
  <2> DEFINE y == IF o < p THEN o ELSE o + 1
  <2>2. y \in DOMAIN t /\ t[y].dst = x
    <3>1. CASE o < p
      BY <3>1, <1>0, <1>1, <2>1
    <3>2. CASE ~(o < p)
      <4>1. o + 1 \in 1..(Len(s) + 1) /\ ~(o + 1 < p) /\ o + 1 # p
            /\ (o + 1) - 1 = o
        BY <3>2, <1>0
      <4>2. t[o + 1] = s[o]
        BY <1>1, <4>1
      <4> QED
        BY <3>2, <4>1, <4>2, <1>1, <2>1
    <3> QED
      BY <3>1, <3>2
  <2>3. \A n \in DOMAIN t : t[n].dst = x => n = y
    <3> SUFFICES ASSUME NEW n \in DOMAIN t, t[n].dst = x PROVE n = y
      OBVIOUS
    <3>1. CASE n < p
      BY <3>1, <1>2, <2>1
    <3>2. CASE n = p
      BY <3>2, <1>2, <1>6
    <3>3. CASE n > p
      <4>1. n - 1 = o
        BY <3>3, <1>2, <2>1
      <4> QED
        BY <3>3, <4>1, <1>2
    <3> QED
      BY <3>1, <3>2, <3>3, <1>2
  <2> HIDE DEF y
  <2> QED
    BY <2>2, <2>3 DEF Once
<1> QED
  BY <1>3, <1>4, <1>5, <1>6

\* Whose dp_t a table points into, apart from the address m, and what it knows
\* of the links of the other nodes, are as they were.
SameBut(old, h, m) ==
  /\ DOMAIN old \subseteq DOMAIN h
  /\ DOMAIN h \subseteq DOMAIN old \cup {m}
  /\ \A x \in DOMAIN old \ {m} : h[x].type = old[x].type /\ h[x].dp = old[x].dp
  /\ \A x \in DOMAIN old \ {Local} :
       h[x].links = old[x].links /\ h[x].maxTs = old[x].maxTs
  /\ \A x \in DOMAIN h \ DOMAIN old : DOMAIN h[x].links = {}

\* A direct peer for an address without one.
LEMMA DirectAdded ==
  ASSUME NEW old, Table(old), NEW d \in Dp, NEW m \in Mac \ {Local},
         NEW rtt \in Rtts, LinksTo(old[Local].links, m) = {},
         NEW h, h = link_add(WithDirect(old, m, d), Local, m, rtt, 0)
  PROVE  /\ Table(h)
         /\ SameBut(old, h, m)
         /\ m \in DOMAIN old => old[m].type = "normal"
         /\ m \in DOMAIN h /\ h[m].type = "direct" /\ h[m].dp = d
<1> DEFINE g == WithDirect(old, m, d)
           new == NewHost("direct", d)
           e == [dst |-> m, rtt |-> rtt]
<1>0. /\ HostsOK(old) /\ Local \in DOMAIN old /\ 0 \in Ts
      /\ None(old[Local].links, m)
  BY TsType DEF Table, LocalAlone, LinksTo, None
<1>1. m \in DOMAIN old => old[m].type = "normal"
  <2> SUFFICES ASSUME m \in DOMAIN old PROVE old[m].type = "normal"
    OBVIOUS
  <2>1. old[m].type # "local"
    BY DEF Table, LocalAlone
  <2>2. old[m].type # "direct"
    BY <1>0 DEF Table, LinkedDirect, None, Once
  <2>3. old[m].type \in {"local", "direct", "normal"}
    BY <1>0, HostFields DEF Host
  <2> QED
    BY <2>1, <2>2, <2>3
<1>2. /\ DOMAIN g = DOMAIN old \cup {m}
      /\ g = [x \in DOMAIN g |-> g[x]]
      /\ \A x \in DOMAIN old \ {m} : g[x] = old[x]
      /\ g[m] \in Host /\ g[m].type = "direct" /\ g[m].dp = d
      /\ m \in DOMAIN old => g[m].links = old[m].links /\ g[m].maxTs = old[m].maxTs
      /\ m \notin DOMAIN old => DOMAIN g[m].links = {}
  <2>1. CASE m \in DOMAIN old
    <3>1. g = [old EXCEPT ![m].type = "direct", ![m].dp = d]
      BY <1>1, <2>1 DEF WithDirect
    <3>2. old[m] \in Host
      BY <1>0, <2>1, HostFields
    <3>3. g[m] = [old[m] EXCEPT !.type = "direct", !.dp = d]
      BY <2>1, <3>1
    <3>4. /\ DOMAIN g = DOMAIN old /\ g = [x \in DOMAIN g |-> g[x]]
          /\ \A x \in DOMAIN old \ {m} : g[x] = old[x]
      BY <3>1
    <3> HIDE DEF g
    <3>5. /\ g[m] \in Host /\ g[m].type = "direct" /\ g[m].dp = d
          /\ g[m].links = old[m].links /\ g[m].maxTs = old[m].maxTs
      BY <3>2, <3>3 DEF Host
    <3> QED
      BY <2>1, <3>4, <3>5
  <2>2. CASE m \notin DOMAIN old
    <3>1. g = [x \in DOMAIN old \cup {m} |-> IF x = m THEN new ELSE old[x]]
      BY <2>2 DEF WithDirect, WithHost
    <3>2. new \in Host /\ new.type = "direct" /\ new.dp = d /\ DOMAIN new.links = {}
      BY <1>0 DEF NewHost, Host
    <3> HIDE DEF g, new
    <3> QED
      BY <2>2, <3>1, <3>2
  <2> QED
    BY <2>1, <2>2
<1> HIDE DEF g
<1>3. HostsOK(g) /\ Local \in DOMAIN g /\ g[Local] = old[Local]
  BY <1>0, <1>2 DEF HostsOK
<1>4. LinkPut(g, h, Local, e, 0)
  BY <1>0, <1>3, LinkAdded DEF g
<1>5. /\ HostsOK(h)
      /\ DOMAIN h = DOMAIN old \cup {m}
      /\ \A x \in DOMAIN h \ {Local} : h[x] = g[x]
      /\ h[Local].type = old[Local].type
      /\ h[Local].dp = old[Local].dp
      /\ OneMore(old[Local].links, h[Local].links, e)
  BY <1>2, <1>3, <1>4 DEF LinkPut
<1>6. LocalAlone(h)
  BY <1>2, <1>5 DEF Table, LocalAlone
<1>7. PeersDirect(h)
  <2>1. d # NoDp
    BY NoDpAssumption
  <2> QED
    BY <1>2, <1>5, <2>1 DEF Table, PeersDirect
<1>8. /\ \A n \in DOMAIN h[Local].links :
           \/ h[Local].links[n] = e
           \/ \E o \in DOMAIN old[Local].links :
                h[Local].links[n] = old[Local].links[o]
      /\ Once(h[Local].links, m)
      /\ \A x : x # m /\ None(old[Local].links, x) => None(h[Local].links, x)
      /\ \A x : x # m /\ Once(old[Local].links, x) => Once(h[Local].links, x)
  <2>1. e.dst = m /\ old[Local].links \in Seq(Link)
    BY <1>0, HostFields
  <2> HIDE DEF e
  <2> QED
    BY <1>0, <1>5, <2>1, CountsAfterOneMore
<1>9. LinkedDirect(h)
  <2> SUFFICES ASSUME NEW x \in DOMAIN h
               PROVE  IF h[x].type = "direct" THEN Once(h[Local].links, x)
                                              ELSE None(h[Local].links, x)
    BY DEF LinkedDirect
  <2>1. CASE x = m
    BY <2>1, <1>2, <1>5, <1>8
  <2>2. CASE x # m
    <3>1. x \in DOMAIN old /\ h[x].type = old[x].type
      BY <2>2, <1>2, <1>5
    <3> QED
      BY <2>2, <3>1, <1>8 DEF Table, LinkedDirect
  <2> QED
    BY <2>1, <2>2
<1>10. Resolved(h)
  <2> SUFFICES ASSUME NEW x \in DOMAIN h, NEW n \in DOMAIN h[x].links
               PROVE  h[x].links[n].dst \in DOMAIN h \ {x}
    BY DEF Resolved
  <2>1. CASE x = Local
    <3>1. e.dst \in DOMAIN h \ {Local}
      BY <1>5
    <3>2. \A o \in DOMAIN old[Local].links :
            old[Local].links[o].dst \in DOMAIN h \ {Local}
      BY <1>0, <1>5 DEF Table, Resolved
    <3> HIDE DEF e
    <3> QED
      BY <2>1, <3>1, <3>2, <1>8
  <2>2. CASE x # Local
    <3>1. x \in DOMAIN old /\ h[x].links = old[x].links
      BY <2>2, <1>2, <1>5
    <3> QED
      BY <3>1, <1>5 DEF Table, Resolved
  <2> QED
    BY <2>1, <2>2
<1>11. Table(h)
  BY <1>5, <1>6, <1>7, <1>9, <1>10 DEF Table
<1>12. SameBut(old, h, m)
  BY <1>2, <1>5 DEF SameBut
<1> QED
  BY <1>1, <1>2, <1>5, <1>11, <1>12

\* Another round trip time for a link that this node has.
LEMMA RttUpdated ==
  ASSUME NEW old, Table(old), NEW m, NEW rtt \in Rtts,
         NEW k \in LinksTo(old[Local].links, m),
         NEW h, h = [old EXCEPT ![Local].links[k].rtt = rtt]
  PROVE  /\ Table(h)
         /\ SameBut(old, h, m)
         /\ DOMAIN h = DOMAIN old
         /\ \A x \in DOMAIN h : h[x].type = old[x].type /\ h[x].dp = old[x].dp
<1> DEFINE s == old[Local].links
           l == [s[k] EXCEPT !.rtt = rtt]
           t == [s EXCEPT ![k] = l]
           rec == [old[Local] EXCEPT !.links = t]
<1>0. /\ HostsOK(old) /\ Local \in DOMAIN old /\ old[Local] \in Host
      /\ s \in Seq(Link) /\ DOMAIN s = 1..Len(s) /\ Len(s) \in Nat
  BY HostFields DEF Table, LocalAlone
<1>1. k \in 1..Len(s) /\ s[k] \in Link
  BY <1>0, ElementOfSeq DEF LinksTo
<1>2. l \in Link /\ l.dst = s[k].dst
  BY <1>1 DEF Link
<1>3. h = [old EXCEPT ![Local] = rec]
  OBVIOUS
<1> HIDE DEF l
<1>4. /\ t \in Seq(Link) /\ DOMAIN t = DOMAIN s
      /\ \A n \in DOMAIN s : t[n].dst = s[n].dst
  <2> HIDE DEF s
  <2> QED
    BY <1>0, <1>1, <1>2
<1> HIDE DEF t
<1>5. /\ rec \in Host /\ rec.type = old[Local].type /\ rec.dp = old[Local].dp
      /\ rec.links = t
  BY <1>0, <1>4 DEF Host
<1> HIDE DEF rec
<1>6. /\ DOMAIN h = DOMAIN old /\ h = [x \in DOMAIN h |-> h[x]]
      /\ \A x \in DOMAIN old \ {Local} : h[x] = old[x]
      /\ h[Local] = rec
  BY <1>0, <1>3
<1>7. HostsOK(h)
  BY <1>0, <1>5, <1>6 DEF HostsOK
<1>8. \A x \in DOMAIN h : h[x].type = old[x].type /\ h[x].dp = old[x].dp
  BY <1>5, <1>6
<1>9. LocalAlone(h) /\ PeersDirect(h)
  BY <1>6, <1>8 DEF Table, LocalAlone, PeersDirect
<1>10. \A x : /\ None(s, x) => None(t, x)
              /\ Once(s, x) => Once(t, x)
  <2> HIDE DEF s
  <2> QED
    BY <1>4 DEF None, Once
<1>11. LinkedDirect(h)
  <2> SUFFICES ASSUME NEW x \in DOMAIN h
               PROVE  IF h[x].type = "direct" THEN Once(t, x) ELSE None(t, x)
    BY <1>5, <1>6 DEF LinkedDirect
  <2>1. IF h[x].type = "direct" THEN Once(s, x) ELSE None(s, x)
    BY <1>6, <1>8 DEF Table, LinkedDirect
  <2> QED
    BY <2>1, <1>10
<1>12. Resolved(h)
  <2> SUFFICES ASSUME NEW x \in DOMAIN h, NEW n \in DOMAIN h[x].links
               PROVE  h[x].links[n].dst \in DOMAIN h \ {x}
    BY DEF Resolved
  <2>1. CASE x = Local
    <3>1. n \in DOMAIN s /\ h[x].links[n].dst = s[n].dst
      BY <2>1, <1>4, <1>5, <1>6
    <3> QED
      BY <2>1, <3>1, <1>0, <1>6 DEF Table, Resolved
  <2>2. CASE x # Local
    BY <2>2, <1>6 DEF Table, Resolved
  <2> QED
    BY <2>1, <2>2
<1> QED
  BY <1>6, <1>7, <1>8, <1>9, <1>11, <1>12 DEF Table, SameBut

\* A direct peer is taken out: its host becomes normal and loses its link.
WithoutDirect(h, m) ==
  [h EXCEPT ![m].type = "normal", ![m].dp = NoDp,
            ![Local].links = RemoveOneLink(@, m)]

LEMMA DirectRemoved ==
  ASSUME NEW old, Table(old), NEW m, LinksTo(old[Local].links, m) # {},
         old[m].type = "direct",
         NEW h, h = WithoutDirect(old, m)
  PROVE  /\ Table(h)
         /\ SameBut(old, h, m)
         /\ m \in DOMAIN old \ {Local}
         /\ h[m].dp = NoDp
<1> DEFINE s == old[Local].links
           t == RemoveOneLink(s, m)
           rm == [old[m] EXCEPT !.type = "normal", !.dp = NoDp]
           rl == [old[Local] EXCEPT !.links = t]
<1>0. /\ HostsOK(old) /\ Local \in DOMAIN old /\ old[Local] \in Host
      /\ s \in Seq(Link)
  BY HostFields DEF Table, LocalAlone
<1>1. m \in DOMAIN old /\ m # Local /\ old[m] \in Host
  <2>1. m \in DOMAIN old
    BY <1>0 DEF Table, Resolved, LinksTo
  <2>2. m # Local
    BY <2>1 DEF Table, LocalAlone
  <2> QED
    BY <1>0, <2>1, <2>2, HostFields
<1>2. h = [old EXCEPT ![m] = rm, ![Local] = rl]
  <2> HIDE DEF t
  <2>1. h = [old EXCEPT ![m].type = "normal", ![m].dp = NoDp, ![Local].links = t]
    BY DEF t, WithoutDirect
  <2>2. DOMAIN h = DOMAIN old /\ h = [x \in DOMAIN h |-> h[x]]
    BY <2>1
  <2>3. \A x \in DOMAIN old \ {m, Local} : h[x] = old[x]
    BY <2>1
  <2>4. h[m] = rm
    BY <1>0, <1>1, <2>1
  <2>5. h[Local] = rl
    BY <1>0, <1>1, <2>1
  <2> HIDE DEF rm, rl
  <2> QED
    BY <1>0, <1>1, <2>2, <2>3, <2>4, <2>5
<1>3. /\ t \in Seq(Link) /\ Among(t, s)
      /\ None(t, m)
      /\ \A x : x # m /\ Once(s, x) => Once(t, x)
  <2>1. Once(s, m)
    BY <1>1 DEF Table, LinkedDirect
  <2> QED
    BY <1>0, <2>1, OneRemoved
<1> HIDE DEF t
<1>4. /\ rm \in Host /\ rm.type = "normal" /\ rm.dp = NoDp
      /\ rm.links = old[m].links /\ rm.maxTs = old[m].maxTs
  BY <1>1 DEF Host
<1>5. /\ rl \in Host /\ rl.type = old[Local].type /\ rl.dp = old[Local].dp
      /\ rl.links = t
  BY <1>0, <1>3 DEF Host
<1> HIDE DEF rm, rl
<1>6. /\ DOMAIN h = DOMAIN old /\ h = [x \in DOMAIN h |-> h[x]]
      /\ \A x \in DOMAIN old \ {m, Local} : h[x] = old[x]
      /\ h[m] = rm
      /\ h[Local] = rl
  BY <1>0, <1>1, <1>2
<1>7. HostsOK(h)
  <2>1. \A x \in DOMAIN h : x \in Mac /\ h[x] \in Host
    BY <1>0, <1>4, <1>5, <1>6 DEF HostsOK
  <2> QED
    BY <1>6, <2>1 DEF HostsOK
<1>8. /\ \A x \in DOMAIN h \ {m} : h[x].type = old[x].type /\ h[x].dp = old[x].dp
      /\ \A x \in DOMAIN h \ {Local} :
           h[x].links = old[x].links /\ h[x].maxTs = old[x].maxTs
      /\ h[m].type = "normal" /\ h[m].dp = NoDp
  BY <1>1, <1>4, <1>5, <1>6
<1>9. LocalAlone(h)
  BY <1>0, <1>1, <1>6, <1>8 DEF Table, LocalAlone
<1>10. PeersDirect(h)
  BY <1>1, <1>6, <1>8 DEF Table, PeersDirect
<1>11. LinkedDirect(h)
  <2> SUFFICES ASSUME NEW x \in DOMAIN h
               PROVE  IF h[x].type = "direct" THEN Once(t, x) ELSE None(t, x)
    BY <1>5, <1>6 DEF LinkedDirect
  <2>1. CASE x = m
    BY <2>1, <1>3, <1>8
  <2>2. CASE x # m
    <3>1. IF h[x].type = "direct" THEN Once(s, x) ELSE None(s, x)
      BY <2>2, <1>6, <1>8 DEF Table, LinkedDirect
    <3>2. None(s, x) => None(t, x)
      BY <1>3 DEF Among, None
    <3> QED
      BY <2>2, <3>1, <3>2, <1>3
  <2> QED
    BY <2>1, <2>2
<1>12. Resolved(h)
  <2> SUFFICES ASSUME NEW x \in DOMAIN h, NEW n \in DOMAIN h[x].links
               PROVE  h[x].links[n].dst \in DOMAIN h \ {x}
    BY DEF Resolved
  <2>1. CASE x = Local
    <3>1. n \in DOMAIN t /\ h[x].links[n] = t[n]
      BY <2>1, <1>5, <1>6
    <3>2. PICK o \in DOMAIN s : t[n] = s[o]
      BY <3>1, <1>3 DEF Among
    <3> QED
      BY <2>1, <3>1, <3>2, <1>0, <1>6 DEF Table, Resolved
  <2>2. CASE x # Local
    BY <2>2, <1>6, <1>8 DEF Table, Resolved
  <2> QED
    BY <2>1, <2>2
<1> QED
  BY <1>1, <1>6, <1>7, <1>8, <1>9, <1>10, <1>11, <1>12 DEF Table, SameBut


-----------------------------------------------------------------------------
(* Every step.                                                             *)

(***************************************************************************)
(* From the table old an operation makes the table h, which it hands to    *)
(* update_cache, without touching the peers of the addresses other than    *)
(* those in who; hosts it adds are normal, and links of other nodes change *)
(* only with a larger time stamp.                                          *)
(***************************************************************************)
Makes(old, h, who) ==
  /\ DOMAIN old \subseteq DOMAIN h
  /\ \A x \in DOMAIN old \ who : h[x].type = old[x].type /\ h[x].dp = old[x].dp
  /\ \A x \in DOMAIN h \ (DOMAIN old \cup who) : h[x].type = "normal"
  /\ \A x \in DOMAIN old \ {Local} : Refreshed(old[x], h[x])

Reaches(h) == Table(h) /\ Trimmed(h, host') /\ Leftover(h, host')

LEMMA LinkStep ==
  ASSUME IInv, NEW d \in Dp, NEW m \in Mac, NEW rtt \in Rtts,
         rt_dhost_add_link(d, m, rtt)
  PROVE  /\ IInv'
         /\ \E h :
              /\ Reaches(h) /\ SameBut(host, h, m)
              /\ \/ Makes(host, h, {})
                 \/ /\ Makes(host, h, {m})
                    /\ m # Local
                    /\ m \in DOMAIN host => host[m].type = "normal"
                    /\ m \in DOMAIN h /\ h[m].dp = d
<1>0. TypeOK /\ Table(host) /\ status = "ok" /\ m # Local
  BY DEF IInv, rt_dhost_add_link, Running
<1>1. CASE LinksTo(host[Local].links, m) # {}
  <2> DEFINE k == CHOOSE n \in LinksTo(host[Local].links, m) : TRUE
             h == [host EXCEPT ![Local].links[k].rtt = rtt]
  <2>1. k \in LinksTo(host[Local].links, m)
    BY <1>1
  <2>2. update_cache(h)
    BY <1>1 DEF rt_dhost_add_link
  <2> HIDE DEF k
  <2>3. /\ Table(h) /\ SameBut(host, h, m) /\ DOMAIN h = DOMAIN host
        /\ \A x \in DOMAIN h : h[x].type = host[x].type /\ h[x].dp = host[x].dp
    BY <1>0, <2>1, RttUpdated
  <2> HIDE DEF h
  <2>4. Makes(host, h, {})
    BY <2>3 DEF Makes, SameBut, Refreshed
  <2>5. IInv' /\ Trimmed(h, host') /\ Leftover(h, host')
    BY <1>0, <2>2, <2>3, CacheUpdated
  <2> QED
    BY <2>3, <2>4, <2>5 DEF Reaches
<1>2. CASE LinksTo(host[Local].links, m) = {}
  <2> DEFINE h == link_add(WithDirect(host, m, d), Local, m, rtt, 0)
  <2>1. update_cache(h)
    BY <1>2 DEF rt_dhost_add_link
  <2>2. /\ Table(h) /\ SameBut(host, h, m)
        /\ m \in DOMAIN host => host[m].type = "normal"
        /\ m \in DOMAIN h /\ h[m].dp = d
    BY <1>0, <1>2, DirectAdded
  <2> HIDE DEF h
  <2>3. Makes(host, h, {m})
    BY <2>2 DEF Makes, SameBut, Refreshed
  <2>4. IInv' /\ Trimmed(h, host') /\ Leftover(h, host')
    BY <1>0, <2>1, <2>2, CacheUpdated
  <2> QED
    BY <1>0, <2>2, <2>3, <2>4 DEF Reaches
<1> QED
  BY <1>1, <1>2

LEMMA EdgesStep ==
  ASSUME IInv, NEW p \in Packets, rt_update_edges(p)
  PROVE  /\ IInv'
         /\ \E h : /\ Reaches(h) /\ Makes(host, h, {})
                   /\ \E q \in SortedEdges(p) : Doubled(host, q, Len(q), h)
<1>0. TypeOK /\ Table(host) /\ status = "ok"
  BY DEF IInv, rt_update_edges, Running
<1>1. PICK q \in SortedEdges(p) : update_cache(TakeEdges(host, q))
  BY DEF rt_update_edges
<1> DEFINE h == TakeEdges(host, q)
<1>2. q \in Seq(Edge)
  BY SortedType
<1>3. Table(h) /\ SinceBut(host, h, Local) /\ Doubled(host, q, Len(q), h)
  BY <1>0, <1>2, EdgesTaken, EdgesTakenDoubles
<1> HIDE DEF h
<1>4. Makes(host, h, {})
  BY <1>3 DEF Makes, SinceBut
<1>5. update_cache(h)
  BY <1>1 DEF h
<1>6. IInv' /\ Trimmed(h, host') /\ Leftover(h, host')
  BY <1>0, <1>3, <1>5, CacheUpdated
<1> QED
  BY <1>3, <1>4, <1>6 DEF Reaches

LEMMA RemoveStep ==
  ASSUME IInv, NEW m \in Mac, rt_dhost_remove(m)
  PROVE  /\ IInv'
         /\ \E h : /\ Reaches(h) /\ Makes(host, h, {m}) /\ SameBut(host, h, m)
                   /\ m \in DOMAIN host \ {Local} /\ host[m].dp # NoDp
                   /\ h[m].dp = NoDp
<1>0. TypeOK /\ Table(host) /\ status = "ok"
  BY DEF IInv, rt_dhost_remove, Running
<1> DEFINE h == WithoutDirect(host, m)
<1>1. /\ update_cache(h) /\ host[m].type = "direct"
      /\ LinksTo(host[Local].links, m) # {}
  BY DEF rt_dhost_remove, WithoutDirect
<1>2. /\ Table(h) /\ SameBut(host, h, m)
      /\ m \in DOMAIN host \ {Local} /\ h[m].dp = NoDp
  BY <1>0, <1>1, DirectRemoved
<1> HIDE DEF h
<1>3. Makes(host, h, {m})
  BY <1>2 DEF Makes, SameBut, Refreshed
<1>4. IInv' /\ Trimmed(h, host') /\ Leftover(h, host')
  BY <1>0, <1>1, <1>2, CacheUpdated
<1>5. host[m].dp # NoDp
  BY <1>0, <1>1, <1>2 DEF Table, PeersDirect
<1> QED
  BY <1>2, <1>3, <1>4, <1>5 DEF Reaches

LEMMA LocalStep ==
  ASSUME IInv, rt_lhost_add
  PROVE  /\ IInv'
         /\ host = <<>> /\ DOMAIN host' = {Local} /\ host'[Local].dp = NoDp
<1> DEFINE rec == NewHost("local", NoDp)
<1>1. rec \in Host /\ rec.type = "local" /\ rec.dp = NoDp /\ rec.links = <<>>
  BY TsType DEF NewHost, Host
<1>2. /\ host = <<>> /\ cache' = cache /\ exported' = exported /\ status' = status
      /\ host' = [x \in {Local} |-> rec]
  BY DEF rt_lhost_add, WithHost
<1> HIDE DEF rec
<1>3. DOMAIN host' = {Local} /\ host'[Local] = rec
  BY <1>2
<1>4. HostsOK(host')
  BY <1>1, <1>2, MacAssumption DEF HostsOK
<1>5. TypeOK'
  BY <1>2, <1>4, TypeParts, TypePartsNext DEF IInv
<1>6. Table(host')
  <2>1. LocalAlone(host')
    BY <1>1, <1>3 DEF LocalAlone
  <2>2. PeersDirect(host')
    BY <1>1, <1>3 DEF PeersDirect
  <2>3. LinkedDirect(host')
    BY <1>1, <1>3 DEF LinkedDirect, None
  <2>4. Resolved(host')
    BY <1>1, <1>3 DEF Resolved
  <2> QED
    BY <1>4, <2>1, <2>2, <2>3, <2>4 DEF Table
<1>7. cache'.ct # Cardinality(DOMAIN host')
  <2>1. cache'.ct = 0
    BY <1>2 DEF IInv, Empty, NoCache
  <2>2. Cardinality({Local}) = 1
    BY FS_Singleton
  <2> QED
    BY <1>3, <2>1, <2>2
<1>8. host' # <<>>
  BY <1>3
<1> QED
  BY <1>1, <1>2, <1>3, <1>5, <1>6, <1>7, <1>8
  DEF IInv, Empty, Fresh, RecomputeAlone

LEMMA AnswerStep ==
  ASSUME IInv, rt_dhosts_to_host
  PROVE  IInv' /\ host' = host
<1>1. /\ host' = host /\ exported' = exported /\ status' = status
      /\ cache' = compute_paths(host') /\ host # <<>> /\ Running
  BY DEF rt_dhosts_to_host, Running
<1>2. TypeOK /\ Table(host) /\ HostsOK(host')
  BY <1>1, TypeParts DEF IInv
<1>3. CacheOK(cache')
  BY <1>1, <1>2, ComputedOK
<1>4. TypeOK'
  BY <1>1, <1>2, <1>3, TypeParts, TypePartsNext
<1>5. cache'.ct = Cardinality(DOMAIN host')
  BY <1>1, <1>2, PathsComputed
<1> QED
  BY <1>1, <1>2, <1>4, <1>5 DEF IInv, Empty, Fresh, RecomputeAlone

LEMMA InitIInv == Init => IInv
<1> SUFFICES ASSUME Init PROVE IInv
  OBVIOUS
<1>1. host = <<>> /\ cache = NoCache /\ exported = {} /\ status = "ok"
  BY DEF Init
<1>2. HostsOK(host)
  BY <1>1 DEF HostsOK
<1>3. CacheOK(cache)
  <2>1. Cardinality(Mac) \in Nat
    BY MacAssumption, FS_CardinalityType
  <2> QED
    BY <1>1, <2>1 DEF CacheOK, NoCache
<1>4. TypeOK
  BY <1>1, <1>2, <1>3, TypeParts
<1> QED
  BY <1>1, <1>4 DEF IInv, Empty, Running

LEMMA NextIInv == IInv /\ [Next]_vars => IInv'
<1> SUFFICES ASSUME IInv, [Next]_vars PROVE IInv'
  OBVIOUS
<1>1. CASE rt_lhost_add
  BY <1>1, LocalStep
<1>2. ASSUME NEW d \in Dp, NEW m \in Mac, NEW rtt \in Rtts,
             rt_dhost_add_link(d, m, rtt)
      PROVE  IInv'
  BY <1>2, LinkStep
<1>3. ASSUME NEW p \in Packets, rt_update_edges(p)
      PROVE  IInv'
  BY <1>3, EdgesStep
<1>4. ASSUME NEW m \in Mac, rt_dhost_remove(m)
      PROVE  IInv'
  BY <1>4, RemoveStep
<1>5. CASE rt_dhosts_to_host
  BY <1>5, AnswerStep
<1>6. CASE UNCHANGED vars
  <2>1. host' = host /\ cache' = cache /\ exported' = exported /\ status' = status
    BY <1>6 DEF vars
  <2> QED
    BY <2>1, TypeParts, TypePartsNext
    DEF IInv, Empty, Running, Fresh, RecomputeAlone
<1> QED
  BY <1>1, <1>2, <1>3, <1>4, <1>5, <1>6 DEF Next

(***************************************************************************)
(* The inductive invariant holds throughout.                               *)
(***************************************************************************)
THEOREM TableIsWhole == Spec => []IInv
  BY InitIInv, NextIInv, PTL DEF Spec

-----------------------------------------------------------------------------
(* The invariants.                                                         *)

\* Type correctness.
THEOREM TypeCorrect == Spec => []TypeOK
<1>1. IInv => TypeOK
  BY DEF IInv
<1> QED
  BY <1>1, TableIsWhole, PTL

(***************************************************************************)
(* The hosts this node has a link to are exactly its direct peers, with    *)
(* one link and a dp_t each, whatever link graphs come in.                 *)
(***************************************************************************)
THEOREM PeersAreLinked == Spec => []DirectIffLinked
<1>1. IInv => DirectIffLinked
  <2> SUFFICES ASSUME IInv, Running, NEW m \in DOMAIN host
               PROVE  /\ Cardinality(LinksTo(host[Local].links, m)) =
                           IF host[m].type = "direct" THEN 1 ELSE 0
                      /\ host[m].dp # NoDp <=> host[m].type = "direct"
    BY DEF DirectIffLinked
  <2>1. Table(host)
    BY DEF IInv
  <2>2. host[Local].links \in Seq(Link)
    BY <2>1, HostFields DEF Table, LocalAlone
  <2>3. IF host[m].type = "direct" THEN Once(host[Local].links, m)
                                   ELSE None(host[Local].links, m)
    BY <2>1 DEF Table, LinkedDirect
  <2>4. host[m].dp # NoDp <=> host[m].type = "direct"
    BY <2>1 DEF Table, PeersDirect
  <2> QED
    BY <2>2, <2>3, <2>4, LinkCount
<1> QED
  BY <1>1, TableIsWhole, PTL

(***************************************************************************)
(* Matrices of the right size are those of the present table.              *)
(***************************************************************************)
THEOREM MatricesAreFresh == Spec => []CacheFresh
<1>1. IInv => CacheFresh
  BY DEF IInv, CacheFresh, Answerable, Fresh
<1> QED
  BY <1>1, TableIsWhole, PTL

(***************************************************************************)
(* rt_dhosts_to_host computes matrices, under the read lock, only while    *)
(* this node is alone in the table.                                        *)
(***************************************************************************)
THEOREM RecomputesAlone == Spec => []RecomputeAlone
<1>1. IInv => RecomputeAlone
  BY DEF IInv, RecomputeAlone
<1> QED
  BY <1>1, TableIsWhole, PTL


-----------------------------------------------------------------------------
(* What a step may do.                                                     *)

Adds(m, d, h) ==
  /\ Makes(host, h, {m})
  /\ m \in DOMAIN host => host[m].dp = NoDp
  /\ m \in DOMAIN h /\ h[m].dp = d

Removes(m, h) ==
  /\ rt_dhost_remove(m)
  /\ Makes(host, h, {m})
  /\ m \in DOMAIN host /\ host[m].dp # NoDp /\ h[m].dp = NoDp

(***************************************************************************)
(* The steps, as far as hosts go.                                          *)
(***************************************************************************)
LEMMA Steps ==
  ASSUME IInv, [Next]_vars
  PROVE  \/ host' = host
         \/ host = <<>> /\ DOMAIN host' = {Local} /\ host'[Local].dp = NoDp
         \/ /\ Running
            /\ \E h : /\ Reaches(h)
                      /\ \/ Makes(host, h, {})
                         \/ \E m \in Mac \ {Local}, d \in Dp : Adds(m, d, h)
                         \/ \E m \in Mac \ {Local} : Removes(m, h)
<1> DEFINE Goal == 
         \/ host' = host
         \/ host = <<>> /\ DOMAIN host' = {Local} /\ host'[Local].dp = NoDp
         \/ /\ Running
            /\ \E h : /\ Reaches(h)
                      /\ \/ Makes(host, h, {})
                         \/ \E m \in Mac \ {Local}, d \in Dp : Adds(m, d, h)
                         \/ \E m \in Mac \ {Local} : Removes(m, h)
<1>1. CASE rt_lhost_add
  BY <1>1, LocalStep
<1>2. ASSUME NEW d \in Dp, NEW m \in Mac, NEW rtt \in Rtts,
             rt_dhost_add_link(d, m, rtt)
      PROVE  Goal
  <2>0. Running /\ Table(host)
    BY <1>2 DEF rt_dhost_add_link, IInv
  <2>1. PICK h :
          /\ Reaches(h)
          /\ \/ Makes(host, h, {})
             \/ /\ Makes(host, h, {m})
                /\ m # Local
                /\ m \in DOMAIN host => host[m].type = "normal"
                /\ m \in DOMAIN h /\ h[m].dp = d
    BY <1>2, LinkStep
  <2>2. CASE Makes(host, h, {})
    BY <2>0, <2>1, <2>2
  <2>3. CASE /\ Makes(host, h, {m})
             /\ m # Local
             /\ m \in DOMAIN host => host[m].type = "normal"
             /\ m \in DOMAIN h /\ h[m].dp = d
    <3>1. Adds(m, d, h)
      BY <2>0, <2>3 DEF Adds, Table, PeersDirect
    <3> QED
      BY <2>0, <2>1, <2>3, <3>1
  <2> QED
    BY <2>1, <2>2, <2>3
<1>3. ASSUME NEW p \in Packets, rt_update_edges(p)
      PROVE  Goal
  <2>1. Running
    BY <1>3 DEF rt_update_edges
  <2> QED
    BY <1>3, <2>1, EdgesStep
<1>4. ASSUME NEW m \in Mac, rt_dhost_remove(m)
      PROVE  Goal
  <2>1. Running
    BY <1>4 DEF rt_dhost_remove
  <2>2. PICK h : /\ Reaches(h) /\ Makes(host, h, {m})
                 /\ m \in DOMAIN host \ {Local} /\ host[m].dp # NoDp
                 /\ h[m].dp = NoDp
    BY <1>4, RemoveStep
  <2>3. Removes(m, h)
    BY <1>4, <2>2 DEF Removes
  <2> QED
    BY <2>1, <2>2, <2>3
<1>5. CASE rt_dhosts_to_host
  BY <1>5, AnswerStep
<1>6. CASE UNCHANGED vars
  BY <1>6 DEF vars
<1> QED
  BY <1>1, <1>2, <1>3, <1>4, <1>5, <1>6 DEF Next

\* The operations of direct peers give no host a second link to another.
LEMMA NoneDoubled ==
  ASSUME NEW old, NEW h, Table(h), NEW m, SameBut(old, h, m),
         NEW x \in DOMAIN h, NEW y \in DOMAIN h, Twice(h[x].links, y)
  PROVE  x \in DOMAIN old /\ Twice(old[x].links, y)
<1>1. x # Local
  BY DEF Table, LinkedDirect, Twice, Once, None
<1>2. x \in DOMAIN old
  BY DEF SameBut, Twice
<1> QED
  BY <1>1, <1>2 DEF SameBut

(***************************************************************************)
(* Every link leads to another host of the table, so that what             *)
(* find_host_by_addr returns in compute_paths is not NULL, unless trim_host*)
(* met a host with two links to its victim: two that were in the table, or *)
(* that the packet just taken brought.                                     *)
(***************************************************************************)
THEOREM LinksAreResolved == Spec => LinksResolve
<1> DEFINE Cause(x, y) ==
             \/ x \in DOMAIN host /\ Twice(host[x].links, y)
             \/ \E p \in Packets : rt_update_edges(p) /\ Repeats(p, x, y)
           Rule == status' # "corrupt" =>
                     \A x \in DOMAIN host' : \A l \in Range(host'[x].links) :
                       l.dst \notin DOMAIN host' \ {x} => Cause(x, l.dst)
<1>1. ASSUME IInv, Next PROVE Rule
  <2> SUFFICES ASSUME NEW x \in DOMAIN host', NEW n \in DOMAIN host'[x].links,
                      host'[x].links[n].dst \notin DOMAIN host' \ {x}
               PROVE  Cause(x, host'[x].links[n].dst)
    BY DEF Range
  <2> DEFINE y == host'[x].links[n].dst
  <2>1. ASSUME NEW h, Reaches(h)
        PROVE  /\ x \in DOMAIN h /\ y \in DOMAIN h
               /\ Twice(h[x].links, y)
    <3>1. Trimmed(h, host') /\ Leftover(h, host') /\ Table(h)
      BY <2>1 DEF Reaches
    <3>2. x \in DOMAIN h /\ Twice(h[x].links, y)
      BY <3>1 DEF Trimmed, Leftover
    <3>3. \E o \in DOMAIN h[x].links : h[x].links[o].dst = y
      BY <3>2 DEF Twice
    <3> QED
      BY <3>1, <3>2, <3>3 DEF Table, Resolved
  <2> HIDE DEF y
  <2>2. ASSUME NEW h, Reaches(h), NEW m, SameBut(host, h, m)
        PROVE  Cause(x, y)
    <3>1. Table(h)
      BY <2>2 DEF Reaches
    <3> QED
      BY <2>1, <2>2, <3>1, NoneDoubled
  <2>3. CASE rt_lhost_add
    <3>1. DOMAIN host' = {Local} /\ host'[Local].links = <<>>
      BY <2>3 DEF rt_lhost_add, WithHost, NewHost
    <3> QED
      BY <3>1
  <2>4. ASSUME NEW d \in Dp, NEW m \in Mac, NEW rtt \in Rtts,
               rt_dhost_add_link(d, m, rtt)
        PROVE  Cause(x, y)
    BY <1>1, <2>2, <2>4, LinkStep
  <2>5. ASSUME NEW p \in Packets, rt_update_edges(p)
        PROVE  Cause(x, y)
    <3>1. PICK h : Reaches(h) /\ \E q \in SortedEdges(p) : Doubled(host, q, Len(q), h)
      BY <1>1, <2>5, EdgesStep
    <3>2. PICK q \in SortedEdges(p) : Doubled(host, q, Len(q), h)
      BY <3>1
    <3>3. x \in DOMAIN h /\ Twice(h[x].links, y)
      BY <2>1, <3>1
    <3>4. (x \in DOMAIN host /\ Twice(host[x].links, y)) \/ BroughtTwice(q, Len(q), x, y)
      BY <3>2, <3>3 DEF Doubled
    <3>5. BroughtTwice(q, Len(q), x, y) => Repeats(p, x, y)
      BY SortedRepeats
    <3> QED
      BY <2>5, <3>4, <3>5
  <2>6. ASSUME NEW m \in Mac, rt_dhost_remove(m)
        PROVE  Cause(x, y)
    BY <1>1, <2>2, <2>6, RemoveStep
  <2>7. CASE rt_dhosts_to_host
    <3>1. host' = host /\ Running
      BY <2>7 DEF rt_dhosts_to_host
    <3> QED
      BY <1>1, <3>1 DEF IInv, Table, Resolved
  <2> QED
    BY <1>1, <2>3, <2>4, <2>5, <2>6, <2>7 DEF Next, y
<1>2. IInv /\ [Next]_vars => [Rule]_vars
  BY <1>1
<1>3. Spec => [][Rule]_vars
  <2> HIDE DEF Rule
  <2> QED
    BY <1>2, TableIsWhole, PTL DEF Spec
<1> QED
  BY <1>3 DEF LinksResolve

(***************************************************************************)
(* A repeated or overtaken link graph brings no links back: a host of      *)
(* another node gets links it did not have only with a larger time stamp.  *)
(***************************************************************************)
THEOREM OldLinksStayAway == Spec => NoOldLinksBack
<1> DEFINE Kept(m) ==
             /\ host'[m].maxTs >= host[m].maxTs
             /\ ~(Range(host'[m].links) \subseteq Range(host[m].links)) =>
                  host'[m].maxTs > host[m].maxTs
           Common == (DOMAIN host \cap DOMAIN host') \ {Local}
<1>1. ASSUME IInv, [Next]_vars, NEW m \in Common
      PROVE  Kept(m)
  <2>0. HostsOK(host) /\ host[m].maxTs \in Nat
    BY <1>1, TypeParts, HostFields, TsType DEF IInv
  <2>1. CASE host' = host
    BY <2>0, <2>1
  <2>2. CASE host = <<>>
    BY <2>2
  <2>3. ASSUME NEW h, Reaches(h), NEW who, Makes(host, h, who)
        PROVE  Kept(m)
    <3>1. /\ host'[m].maxTs = h[m].maxTs /\ Among(host'[m].links, h[m].links)
          /\ m \in DOMAIN h /\ HostsOK(h)
      BY <2>3 DEF Reaches, Trimmed, Table
    <3>2. Refreshed(host[m], h[m])
      BY <2>3 DEF Makes
    <3>3. h[m].maxTs \in Nat
      BY <3>1, HostFields, TsType
    <3>4. CASE h[m].maxTs > host[m].maxTs
      BY <2>0, <3>1, <3>3, <3>4
    <3>5. CASE h[m].links = host[m].links /\ h[m].maxTs = host[m].maxTs
      <4>1. Range(host'[m].links) \subseteq Range(host[m].links)
        BY <3>1, <3>5 DEF Among, Range
      <4> QED
        BY <2>0, <3>1, <3>5, <4>1
    <3> QED
      BY <3>2, <3>4, <3>5 DEF Refreshed
  <2> HIDE DEF Kept
  <2> QED
    BY <1>1, <2>1, <2>2, <2>3, Steps DEF Adds, Removes
<1>2. IInv /\ [Next]_vars => [\A m \in Common : Kept(m)]_vars
  BY <1>1
<1>3. Spec => [][\A m \in Common : Kept(m)]_vars
  <2> HIDE DEF Common, Kept
  <2> QED
    BY <1>2, TableIsWhole, PTL DEF Spec
<1> QED
  BY <1>3 DEF NoOldLinksBack

(***************************************************************************)
(* A dp_t stays in the table until rt_dhost_remove is called for its       *)
(* address: neither a link graph nor trimming takes it out.                *)
(***************************************************************************)
THEOREM PeersStayDirect == Spec => DirectStays
<1> DEFINE Gone(m) ==
             /\ host[m].type = "direct"
             /\ m \in DOMAIN host' => host'[m].dp # host[m].dp
           Rule == \A m \in DOMAIN host : Gone(m) => rt_dhost_remove(m)
<1>1. ASSUME IInv, [Next]_vars, NEW m \in DOMAIN host, Gone(m)
      PROVE  rt_dhost_remove(m)
  <2>1. host' # host /\ host # <<>>
    BY <1>1
  <2>2. /\ Running
        /\ \E h : /\ Reaches(h)
                  /\ \/ Makes(host, h, {})
                     \/ \E x \in Mac \ {Local}, d \in Dp : Adds(x, d, h)
                     \/ \E x \in Mac \ {Local} : Removes(x, h)
    BY <1>1, <2>1, Steps
  <2>3. host[m].dp # NoDp
    BY <1>1, <2>2 DEF IInv, Table, PeersDirect
  <2>4. PICK h : /\ Reaches(h)
                 /\ \/ Makes(host, h, {})
                    \/ \E x \in Mac \ {Local}, d \in Dp : Adds(x, d, h)
                    \/ \E x \in Mac \ {Local} : Removes(x, h)
    BY <2>2
  <2>5. ASSUME NEW who, Makes(host, h, who), m \notin who
        PROVE  FALSE
    <3>1. m \in DOMAIN h /\ h[m].type = "direct" /\ h[m].dp = host[m].dp
      BY <1>1, <2>5 DEF Makes
    <3>2. m \in DOMAIN host' /\ host'[m].dp = h[m].dp
      BY <2>4, <3>1 DEF Reaches, Trimmed
    <3> QED
      BY <1>1, <3>1, <3>2
  <2>6. CASE Makes(host, h, {})
    BY <2>5, <2>6
  <2>7. ASSUME NEW x \in Mac \ {Local}, NEW d \in Dp, Adds(x, d, h)
        PROVE  FALSE
    <3>1. x # m /\ Makes(host, h, {x})
      BY <2>3, <2>7 DEF Adds
    <3> QED
      BY <2>5, <3>1
  <2>8. ASSUME NEW x \in Mac \ {Local}, Removes(x, h)
        PROVE  rt_dhost_remove(m)
    <3>1. rt_dhost_remove(x) /\ Makes(host, h, {x})
      BY <2>8 DEF Removes
    <3>2. x = m
      BY <2>5, <3>1
    <3> QED
      BY <3>1, <3>2
  <2> QED
    BY <2>4, <2>6, <2>7, <2>8
<1>2. IInv /\ [Next]_vars => [Rule]_vars
  BY <1>1
<1>3. Spec => [][Rule]_vars
  <2> HIDE DEF Rule
  <2> QED
    BY <1>2, TableIsWhole, PTL DEF Spec
<1> QED
  BY <1>3 DEF DirectStays

(***************************************************************************)
(* The routing table implements DirectTable: a step sets or drops the dp_t *)
(* of one address, or none.                                                *)
(***************************************************************************)
THEOREM TableKeepsPeers == Spec => ImplementsDirectTable
<1>1. Init => DT!Init
  BY DEF Init, DT!Init, Owner
<1>2. ASSUME IInv, [Next]_vars
      PROVE  [DT!Next]_Owner
  <2> DEFINE R == Mac \ {Local}
             O(h, x) == IF x \in DOMAIN h THEN h[x].dp ELSE NoDp
  <2>0. /\ Owner = [x \in R |-> O(host, x)]
        /\ Owner' = [x \in R |-> O(host', x)]
    BY DEF Owner
  <2>1. CASE host' = host
    BY <2>1 DEF Owner
  <2>2. CASE host = <<>> /\ DOMAIN host' = {Local}
    <3>1. \A x \in R : O(host, x) = NoDp /\ O(host', x) = NoDp
      BY <2>2
    <3> HIDE DEF O
    <3> QED
      BY <2>0, <3>1
  <2>3. ASSUME NEW h, Running, Reaches(h), NEW who, Makes(host, h, who),
               NEW x \in R \ who
        PROVE  O(host', x) = O(host, x)
    <3>1. Table(host) /\ Table(h) /\ Trimmed(h, host')
      BY <1>2, <2>3 DEF IInv, Reaches
    <3>2. O(h, x) = O(host, x)
      <4>1. CASE x \in DOMAIN host
        BY <2>3, <4>1 DEF Makes
      <4>2. CASE x \in DOMAIN h \ DOMAIN host
        <5>1. h[x].type = "normal"
          BY <2>3, <4>2 DEF Makes
        <5> QED
          BY <3>1, <4>2, <5>1 DEF Table, PeersDirect
      <4>3. CASE x \notin DOMAIN h
        BY <2>3, <4>3 DEF Makes
      <4> QED
        BY <4>1, <4>2, <4>3
    <3>3. O(host', x) = O(h, x)
      <4>1. CASE x \in DOMAIN host'
        BY <3>1, <4>1 DEF Trimmed
      <4>2. CASE x \in DOMAIN h \ DOMAIN host'
        <5>1. h[x].type = "normal"
          BY <3>1, <4>2 DEF Trimmed
        <5> QED
          BY <3>1, <4>2, <5>1 DEF Table, PeersDirect
      <4>3. CASE x \notin DOMAIN h
        BY <3>1, <4>3 DEF Trimmed
      <4> QED
        BY <4>1, <4>2, <4>3
    <3> QED
      BY <3>2, <3>3
  <2>4. ASSUME NEW h, Running, Reaches(h), Makes(host, h, {})
        PROVE  Owner' = Owner
    <3>1. \A x \in R : O(host', x) = O(host, x)
      BY <2>3, <2>4
    <3> HIDE DEF O
    <3> QED
      BY <2>0, <3>1
  <2>5. ASSUME NEW h, Running, Reaches(h), NEW m \in R, NEW d \in Dp, Adds(m, d, h)
        PROVE  DT!Next
    <3>1. \A x \in R \ {m} : O(host', x) = O(host, x)
      BY <2>3, <2>5 DEF Adds
    <3>2. O(host, m) = NoDp
      BY <2>5 DEF Adds
    <3>3. O(host', m) = d
      <4>1. m \in DOMAIN h /\ h[m].dp = d /\ d # NoDp
        BY <2>5, NoDpAssumption DEF Adds
      <4>2. h[m].type = "direct"
        BY <2>5, <4>1 DEF Reaches, Table, PeersDirect
      <4>3. m \in DOMAIN host'
        BY <2>5, <4>1, <4>2 DEF Reaches, Trimmed
      <4> QED
        BY <2>5, <4>1, <4>3 DEF Reaches, Trimmed
    <3> HIDE DEF O
    <3>4. Owner[m] = NoDp /\ Owner' = [Owner EXCEPT ![m] = d]
      BY <2>0, <3>1, <3>2, <3>3
    <3> QED
      BY <3>4 DEF DT!Next, DT!Add
  <2>6. ASSUME NEW h, Running, Reaches(h), NEW m \in R, Removes(m, h)
        PROVE  DT!Next
    <3>1. \A x \in R \ {m} : O(host', x) = O(host, x)
      BY <2>3, <2>6 DEF Removes
    <3>2. O(host, m) # NoDp
      BY <2>6 DEF Removes
    <3>3. O(host', m) = NoDp
      BY <2>6 DEF Removes, Reaches, Trimmed
    <3> HIDE DEF O
    <3>4. Owner[m] # NoDp /\ Owner' = [Owner EXCEPT ![m] = NoDp]
      BY <2>0, <3>1, <3>2, <3>3
    <3> QED
      BY <3>4 DEF DT!Next, DT!Remove
  <2> HIDE DEF R
  <2> QED
    BY <1>2, <2>1, <2>2, <2>4, <2>5, <2>6, Steps DEF R
<1> QED
  BY <1>1, <1>2, TableIsWhole, PTL DEF Spec, ImplementsDirectTable, DT!Spec


-----------------------------------------------------------------------------
(* The answers of rt_dhosts_to_host.                                       *)

\* The recursive function inside Hops, and one turn of it.
Hop(w, b) ==
  LET x == cache.next[Last(w)][b]
  IN  IF x = NEXT_DISCON THEN w ELSE Append(w, x)

Walk(f, a, b, k) ==
  f = [n \in 0..k |-> IF n = 0 THEN <<a>> ELSE Hop(f[n - 1], b)]

LEMMA WalksExist ==
  ASSUME NEW a, NEW b, NEW n \in Nat
  PROVE  \E f : Walk(f, a, b, n)
<1> DEFINE first == <<a>>
           S == {k \in Nat : \E f : Walk(f, a, b, k)}
<1>1. 0 \in S
  <2> DEFINE f == [k \in 0..0 |-> first]
  <2>1. f = [k \in 0..0 |-> IF k = 0 THEN first ELSE Hop(f[k - 1], b)]
    <3> HIDE DEF first
    <3> QED
      OBVIOUS
  <2>2. Walk(f, a, b, 0)
    <3> HIDE DEF f
    <3> QED
      BY <2>1 DEF Walk
  <2> QED
    BY <2>2
<1>2. ASSUME NEW k \in Nat, k \in S
      PROVE  k + 1 \in S
  <2>1. PICK f : Walk(f, a, b, k)
    BY <1>2
  <2> DEFINE G(x) == IF x = 0 THEN first ELSE Hop(f[x - 1], b)
             g == [x \in 0..(k + 1) |-> G(x)]
             H(x) == IF x = 0 THEN first ELSE Hop(g[x - 1], b)
  <2>2. \A x \in 0..k : f[x] = G(x)
    BY <2>1 DEF Walk
  <2>3. \A x \in 1..(k + 1) : g[x - 1] = f[x - 1]
    <3> HIDE DEF G
    <3> QED
      BY <2>2
  <2>4. \A x \in 0..(k + 1) : G(x) = H(x)
    <3> HIDE DEF g, first
    <3> QED
      BY <2>3
  <2>5. g = [x \in 0..(k + 1) |-> H(x)]
    <3> HIDE DEF G, H
    <3> QED
      BY <2>4
  <2>6. Walk(g, a, b, k + 1)
    <3> HIDE DEF g
    <3> QED
      BY <2>5 DEF Walk
  <2> QED
    BY <2>6
<1> HIDE DEF S
<1>3. Nat \subseteq S
  BY <1>1, <1>2, SetInduction
<1> QED
  BY <1>3 DEF S

\* A row other than the first of a walk towards b is an entry of column b.
Towards(b) == {cache.next[x][b] : x \in 1..cache.ct} \ {NEXT_DISCON}

Rowwise(w, b) ==
  /\ w \in Seq(1..cache.ct)
  /\ Len(w) >= 1
  /\ \A n \in 2..Len(w) : w[n] \in Towards(b)

LEMMA HopRowwise ==
  ASSUME TypeOK, NEW b \in 1..cache.ct, NEW w, Rowwise(w, b)
  PROVE  Rowwise(Hop(w, b), b)
<1> DEFINE x == cache.next[Last(w)][b]
<1>0. /\ w \in Seq(1..cache.ct) /\ Len(w) \in Nat /\ Len(w) >= 1
      /\ \A n \in 2..Len(w) : w[n] \in Towards(b)
  BY LenProperties DEF Rowwise
<1>1. Last(w) \in 1..cache.ct
  <2>1. Len(w) \in 1..Len(w) /\ Last(w) = w[Len(w)]
    BY <1>0 DEF Last
  <2> QED
    BY <1>0, <2>1, ElementOfSeq
<1>2. x \in 0..cache.ct
  BY <1>1 DEF TypeOK
<1>3. CASE x = NEXT_DISCON
  BY <1>3 DEF Hop
<1>4. CASE x # NEXT_DISCON
  <2>1. x \in Towards(b) /\ x \in 1..cache.ct
    <3>1. cache.ct \in Nat
      BY MacAssumption, FS_CardinalityType DEF TypeOK
    <3> QED
      BY <1>1, <1>2, <1>4, <3>1 DEF Towards, NEXT_DISCON
  <2>2. Hop(w, b) = Append(w, x)
    BY <1>4 DEF Hop
  <2> HIDE DEF x
  <2>3. /\ Append(w, x) \in Seq(1..cache.ct)
        /\ Len(Append(w, x)) = Len(w) + 1
        /\ \A n \in 1..Len(w) : Append(w, x)[n] = w[n]
        /\ Append(w, x)[Len(w) + 1] = x
    BY <1>0, <2>1, AppendProperties
  <2>4. \A n \in 2..(Len(w) + 1) : Append(w, x)[n] \in Towards(b)
    BY <1>0, <2>1, <2>3
  <2> QED
    BY <1>0, <2>2, <2>3, <2>4 DEF Rowwise
<1> QED
  BY <1>3, <1>4

LEMMA HopsRowwise ==
  ASSUME TypeOK, NEW a \in 1..cache.ct, NEW b \in 1..cache.ct
  PROVE  /\ Hops(a, b) \in Seq(1..cache.ct)
         /\ \A n \in 1..Len(Hops(a, b)) : Hops(a, b)[n] \in Towards(b)
<1> DEFINE f == CHOOSE f : Walk(f, a, b, cache.ct)
           ct == cache.ct
<1>0. ct \in Nat
  BY MacAssumption, FS_CardinalityType DEF TypeOK
<1>1. Walk(f, a, b, ct)
  BY <1>0, WalksExist
<1>2. Hops(a, b) = Tail(f[ct])
  BY DEF Hops, Walk, Hop
<1> HIDE DEF f
<1> DEFINE S == {n \in Nat : n <= ct => Rowwise(f[n], b)}
<1>3. 0 \in S
  <2>1. f[0] = <<a>>
    BY <1>0, <1>1 DEF Walk
  <2>2. f[0] \in Seq(1..ct) /\ Len(f[0]) = 1
    BY <2>1
  <2>3. Rowwise(f[0], b)
    BY <2>2 DEF Rowwise
  <2> QED
    BY <2>3
<1>4. ASSUME NEW n \in Nat, n \in S
      PROVE  n + 1 \in S
  <2> SUFFICES ASSUME n + 1 <= ct PROVE Rowwise(f[n + 1], b)
    OBVIOUS
  <2>1. n + 1 \in 0..ct /\ n + 1 # 0 /\ (n + 1) - 1 = n
    BY <1>0
  <2>2. f[n + 1] = Hop(f[n], b)
    BY <1>1, <2>1 DEF Walk
  <2>3. Rowwise(f[n], b)
    BY <1>0, <1>4
  <2> QED
    BY <2>2, <2>3, HopRowwise
<1> HIDE DEF S
<1>5. Nat \subseteq S
  BY <1>3, <1>4, SetInduction
<1>6. Rowwise(f[ct], b)
  BY <1>0, <1>5 DEF S
<1> DEFINE w == f[ct]
<1>7. w \in Seq(1..ct) /\ Len(w) \in Nat /\ Len(w) >= 1
      /\ \A n \in 2..Len(w) : w[n] \in Towards(b)
  BY <1>6, LenProperties DEF Rowwise
<1> HIDE DEF w
<1>8. w # <<>>
  BY <1>7
<1>9. /\ Tail(w) \in Seq(1..ct)
      /\ Len(Tail(w)) = Len(w) - 1
      /\ \A n \in 1..(Len(w) - 1) : Tail(w)[n] = w[n + 1]
  BY <1>7, <1>8
<1>10. \A n \in 1..(Len(w) - 1) : Tail(w)[n] \in Towards(b)
  BY <1>7, <1>9
<1> QED
  BY <1>2, <1>9, <1>10 DEF w

\* What begins with s and goes on with x contains x.
LEMMA PrefixContains ==
  ASSUME NEW S, NEW s \in Seq(S), NEW x \in S, NEW t \in Seq(S),
         IsPrefix(Append(s, x), t)
  PROVE  \E n \in 1..Len(t) : t[n] = x
<1> DEFINE u == Append(s, x)
           k == Len(s) + 1
<1>1. Len(s) \in Nat /\ Len(t) \in Nat
  BY LenProperties
<1>2. u \in Seq(S) /\ Len(u) = k /\ u[k] = x
  BY AppendProperties
<1> HIDE DEF u
<1>3. k <= Len(t) /\ SubSeq(u, 1, k) = SubSeq(t, 1, k)
  BY <1>2 DEF IsPrefix, u
<1>4. k \in 1..k /\ k \in 1..Len(t)
  BY <1>1, <1>3
<1>5. SubSeq(u, 1, k)[k] = u[k] /\ SubSeq(t, 1, k)[k] = t[k]
  BY <1>1, <1>2, <1>3, <1>4
<1> QED
  BY <1>2, <1>3, <1>4, <1>5



\* Where the matrix of the links leads from this node, there is a direct peer.
LEMMA LinkedRow ==
  ASSUME NEW h, Table(h), NEW r \in 1..Cardinality(DOMAIN h),
         LinkMatrix(h)[RowOf(h, Local)][r] # PATH_DISCON
  PROVE  h[AtRow(h, r)].type = "direct"
<1>1. HostsOK(h) /\ Local \in DOMAIN h
  BY DEF Table, LocalAlone
<1>2. /\ RowOf(h, Local) \in 1..Cardinality(DOMAIN h)
      /\ AtRow(h, RowOf(h, Local)) = Local
      /\ AtRow(h, r) \in DOMAIN h
  BY <1>1, TableRows, Rows
<1>3. ~None(h[Local].links, AtRow(h, r))
  BY <1>1, <1>2, LinkMatrixEntries
<1> QED
  BY <1>2, <1>3 DEF Table, LinkedDirect

(***************************************************************************)
(* What rt_dhosts_to_host hands out for multicast, and for unicast to      *)
(* another node, are direct peers; for unicast to this node it is always   *)
(* this node's own host, which is none.  The multicast branch hands out    *)
(* the ends of paths, and a path that passes through this node and is      *)
(* stored in next has its end right behind this node, because              *)
(* compute_paths only joins legs that are links.                           *)
(***************************************************************************)
THEOREM SendsToPeers == Spec => []ForwardsToDirect
<1>1. ASSUME IInv, Answerable PROVE ForwardsToDirect
  <2> DEFINE n == Cardinality(DOMAIN host)
             L == LinkMatrix(host)
             here == RowOf(host, Local)
  <2>1. /\ TypeOK /\ Table(host) /\ HostsOK(host) /\ Local \in DOMAIN host
        /\ cache.ct = n /\ cache = compute_paths(host)
    BY <1>1 DEF IInv, Answerable, Fresh, Table, LocalAlone
  <2>2. n \in Nat /\ Good(cache, n, n, L)
    BY <2>1, PathsComputed, TableRows, Rows
  <2>3. /\ \A m \in DOMAIN host : RowOf(host, m) \in 1..n
                                  /\ AtRow(host, RowOf(host, m)) = m
        /\ \A r \in 1..n : AtRow(host, r) \in DOMAIN host
    BY <2>1, TableRows, Rows
  <2>4. \A r \in 1..n : L[here][r] # PATH_DISCON => host[AtRow(host, r)].type = "direct"
    BY <2>1, LinkedRow
  <2> HIDE DEF n, L
  <2>5. here \in 1..n /\ AtRow(host, here) = Local
    BY <2>1, <2>3
  <2> HIDE DEF here
  <2>c. \A b \in 1..n : cache.path[here][b] # PATH_DISCON =>
          here = b \/ L[here][b] # PATH_DISCON
    BY <2>2, <2>5 DEF Good, Connects
  <2>m. \A a, b \in 1..n : cache.next[a][b] \in 0..n
    BY <2>2 DEF Good, Matrices
  <2>6. \A a, b \in 1..n :
          cache.next[a][b] # NEXT_DISCON =>
            /\ L[a][cache.next[a][b]] # PATH_DISCON
            /\ L[cache.next[a][b]][b] # PATH_DISCON
    BY <2>2 DEF Good, HopsLinked
  <2>7. ASSUME NEW m \in DOMAIN host \ {Local}, NEW x \in Unicast(m)
        PROVE  host[x].type = "direct"
    <3> DEFINE there == RowOf(host, m)
               hop == cache.next[here][there]
    <3>1. there \in 1..n /\ AtRow(host, there) = m /\ there # here
      BY <2>3, <2>5
    <3>2. /\ cache.path[here][there] # PATH_DISCON
          /\ x = IF hop = NEXT_DISCON THEN m ELSE AtRow(host, hop)
      BY <2>7 DEF Unicast, here
    <3> HIDE DEF there
    <3>3. CASE hop = NEXT_DISCON
      BY <2>4, <2>c, <3>1, <3>2, <3>3
    <3>4. CASE hop # NEXT_DISCON
      <4>1. hop \in 1..n /\ L[here][hop] # PATH_DISCON
        BY <2>2, <2>5, <2>6, <2>m, <3>1, <3>4 DEF NEXT_DISCON
      <4> QED
        BY <2>4, <3>2, <3>4, <4>1
    <3> QED
      BY <3>3, <3>4
  <2>8. ASSUME NEW m \in DOMAIN host, NEW x \in Multicast(m)
        PROVE  host[x].type = "direct"
    <3> DEFINE from == RowOf(host, m)
    <3>1. from \in 1..n
      BY <2>3
    <3>2. PICK r \in 1..n :
            /\ x = AtRow(host, r)
            /\ IsPrefix(Append(Hops(from, here), here), Hops(from, r))
      BY <2>1, <2>8 DEF Multicast, here
    <3> HIDE DEF from
    <3>3. /\ Hops(from, here) \in Seq(1..n)
          /\ Hops(from, r) \in Seq(1..n)
          /\ \A k \in 1..Len(Hops(from, r)) : Hops(from, r)[k] \in Towards(r)
      BY <2>1, <2>5, <3>1, HopsRowwise
    <3>4. PICK k \in 1..Len(Hops(from, r)) : Hops(from, r)[k] = here
      <4> DEFINE s == Hops(from, here)
                 t == Hops(from, r)
                 S == 1..n
      <4>1. /\ s \in Seq(S) /\ t \in Seq(S) /\ here \in S
            /\ IsPrefix(Append(s, here), t)
        BY <2>5, <3>2, <3>3
      <4> HIDE DEF s, t, S
      <4>2. \E k \in 1..Len(t) : t[k] = here
        BY ONLY <4>1, PrefixContains
      <4> QED
        BY <4>2 DEF t
    <3>5. here \in Towards(r)
      BY <3>3, <3>4
    <3>6. PICK a \in 1..n : cache.next[a][r] = here /\ here # NEXT_DISCON
      BY <2>1, <3>5 DEF Towards
    <3>7. L[here][r] # PATH_DISCON
      BY <2>6, <3>6
    <3> QED
      BY <2>4, <3>2, <3>7
  <2>9. Unicast(Local) = {Local}
    <3>1. cache.path[here][here] = PATH_MIN /\ cache.next[here][here] = NEXT_DISCON
      BY <2>2, <2>5 DEF Good, SelfDirect
    <3> QED
      BY <3>1 DEF Unicast, here, PATH_MIN, PATH_DISCON
  <2> QED
    BY <2>7, <2>8, <2>9 DEF ForwardsToDirect
<1>2. IInv => ForwardsToDirect
  BY <1>1 DEF ForwardsToDirect
<1> QED
  BY <1>2, TableIsWhole, PTL
=============================================================================
