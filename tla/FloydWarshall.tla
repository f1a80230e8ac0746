--------------------------- MODULE FloydWarshall ---------------------------
(***************************************************************************)
(* compute_paths (routing.c) one relaxation at a time, for an arbitrary    *)
(* number N of hosts and arbitrary link weights.                           *)
(***************************************************************************)
EXTENDS Paths

CONSTANTS N,      \* rd->hosts.ct
          Rtts    \* the rtt_us values that links carry

ASSUME NAssumption == N \in Nat \ {0}
ASSUME RttsAssumption == Rtts \subseteq Weight

Row == 1..N

VARIABLES link,       \* the links of the host table, as a matrix
          path, next, \* rd->path and rd->next
          k, i, j     \* the loop counters; k = N + 1 after the loop

vars == <<link, path, next, k, i, j>>

\* A link matrix: no host has a link to itself.
LinkMatrices ==
  {l \in [Row -> [Row -> Rtts \cup {PATH_DISCON}]] :
     \A r \in Row : l[r][r] = PATH_DISCON}

Start(l) ==
  /\ link = l
  /\ path = Adjacency(l).path
  /\ next = Adjacency(l).next
  /\ k = 1 /\ i = 1 /\ j = 1

Init == \E l \in LinkMatrices : Start(l)

Looping == k <= N

RelaxStep ==
  /\ Looping
  /\ path' = Relax([path |-> path, next |-> next], k, i, j).path
  /\ next' = Relax([path |-> path, next |-> next], k, i, j).next
  /\ j' = IF j < N THEN j + 1 ELSE 1
  /\ i' = IF j < N THEN i ELSE IF i < N THEN i + 1 ELSE 1
  /\ k' = IF j < N \/ i < N THEN k ELSE k + 1
  /\ UNCHANGED link

\* The next call of compute_paths: the matrices are freed and set up again
\* for a host table in which the links of one host have changed.
Recompute ==
  /\ ~Looping
  /\ \E r \in Row, out \in [Row -> Rtts \cup {PATH_DISCON}] :
       /\ out[r] = PATH_DISCON
       /\ link' = [link EXCEPT ![r] = out]
  /\ path' = Adjacency(link').path
  /\ next' = Adjacency(link').next
  /\ k' = 1 /\ i' = 1 /\ j' = 1

Next == RelaxStep \/ Recompute

Spec == Init /\ [][Next]_vars

-----------------------------------------------------------------------------
TypeOK ==
  /\ link \in LinkMatrices
  /\ path \in [Row -> [Row -> Weight]]
  /\ next \in [Row -> [Row -> Row \cup {NEXT_DISCON}]]
  /\ k \in 1..(N + 1)
  /\ i \in Row
  /\ j \in Row

Linked(a, b) == a = b \/ link[a][b] # PATH_DISCON

(***************************************************************************)
(* What compute_paths really establishes: an entry is connected exactly    *)
(* when the pair is one host or has a link of its own.  PATH_DISCON is 0   *)
(* and the test at routing.c:236 is "x < path[i][j]", so a pair without a  *)
(* link is never given a path through another host.                        *)
(***************************************************************************)
ConnectedIffLinked ==
  \A a, b \in Row : path[a][b] # PATH_DISCON <=> Linked(a, b)

(***************************************************************************)
(* rt_dhosts_to_host uses next[cur][dst] as the host to send to, although  *)
(* the loop stores an intermediate host of the path there.  That is sound  *)
(* only because an intermediate is a host cur has a link to, is not an end *)
(* of the path, and itself has a link to dst.                              *)
(***************************************************************************)
NextIsALinkedHop ==
  \A a, b \in Row :
    next[a][b] # NEXT_DISCON =>
      /\ next[a][b] \notin {a, b}
      /\ link[a][next[a][b]] # PATH_DISCON
      /\ link[next[a][b]][b] # PATH_DISCON

\* The rows met on the way from a to b by following next, as the loops of
\* rt_dhosts_to_host do; hop[n] is the n-th, NEXT_DISCON once the walk ended.
Hop(a, b, n) ==
  LET hop[m \in 0..n] ==
        IF m = 0 THEN a
        ELSE IF hop[m - 1] = NEXT_DISCON THEN NEXT_DISCON
             ELSE next[hop[m - 1]][b]
  IN  hop[n]

(***************************************************************************)
(* The unbounded for(;;) walks of rt_dhosts_to_host over next (routing.c:  *)
(* 914 and 936) reach NEXT_DISCON within N hops, whatever the links, the   *)
(* weight-1 ties of the len hack included.                                 *)
(***************************************************************************)
WalkEnds == ~Looping => \A a, b \in Row : Hop(a, b, N) = NEXT_DISCON

\* What a link adds at least to a path it is part of: two legs of length 1
\* make a path of length 1 (the len hack), so such a link may add nothing.
Cost(w) == IF w = 1 THEN 0 ELSE w

\* Labellings of the hosts in which no link climbs by more than its cost.
Heights ==
  {f \in [Row -> Weight] :
     \A a, b \in Row :
       link[a][b] # PATH_DISCON => f[b] - f[a] <= Cost(link[a][b])}

(***************************************************************************)
(* No overflowed sum is ever taken for a short path: a connected entry is  *)
(* no smaller than what the links from a to b cost at least, or than       *)
(* PATH_MAX if they cost more than fits the word.  (The climb from a to b, *)
(* at its greatest over all labellings, is the cost of the cheapest walk.) *)
(***************************************************************************)
NoShortcuts ==
  ~Looping =>
    \A f \in Heights : \A a, b \in Row :
      path[a][b] # PATH_DISCON => f[b] - f[a] <= path[a][b]

(***************************************************************************)
(* The triple loop updates the matrices in place, reading entries of the   *)
(* same round: it still computes what the round-by-round ComputePaths does *)
(* (which module Routing uses), because round k leaves row and column k    *)
(* alone, the overflow and the len hack included.                          *)
(***************************************************************************)
LoopIsComputePaths ==
  ~Looping => [path |-> path, next |-> next] = ComputePaths(N, link)

\* b can be reached from a over links, in at most N hops.
Reaches(a, b) ==
  LET reach[n \in 0..N] ==
        IF n = 0 THEN {a}
        ELSE reach[n - 1] \cup
             {d \in Row : \E c \in reach[n - 1] : link[c][d] # PATH_DISCON}
  IN  b \in reach[N]

(***************************************************************************)
(* What the comment at routing.c:181 says: "use Floyd-Warshal to find all  *)
(* pairs of shortest paths".  A pair that links connect has a path.        *)
(***************************************************************************)
AllPairsFound ==
  ~Looping =>
    \A a, b \in Row : Reaches(a, b) => path[a][b] # PATH_DISCON
=============================================================================
