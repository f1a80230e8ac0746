---------------------------- MODULE PathsProofs ----------------------------
(***************************************************************************)
(* What the operators of Paths compute, for any number of hosts, any links *)
(* and any width of the weights.  The recursion of ComputePaths is handled *)
(* by induction over sets of naturals.                                     *)
(***************************************************************************)
EXTENDS Paths, WellFoundedInduction, TLAPS

\* A set of naturals that is not empty has a least element.
LEMMA LeastNatural ==
  ASSUME NEW T, T \subseteq Nat, T # {}
  PROVE  \E x \in T : \A y \in T : x <= y
<1> DEFINE R == OpToRel(<, Nat)
<1>1. IsWellFoundedOn(R, Nat)
  BY NatLessThanWellFounded
<1> HIDE DEF R
<1>2. PICK x \in T : \A y \in T : ~ (<<y, x>> \in R)
  BY <1>1, WFMin
<1>3. \A y \in T : ~ (y < x)
  BY <1>2 DEF R, OpToRel
<1> QED
  BY <1>3

\* Induction over the naturals, with a set in the place of a predicate.
LEMMA SetInduction ==
  ASSUME NEW S, 0 \in S, \A n \in Nat : n \in S => n + 1 \in S
  PROVE  Nat \subseteq S
<1> SUFFICES ASSUME Nat \ S # {} PROVE FALSE
  OBVIOUS
<1>1. PICK x \in Nat \ S : \A y \in Nat \ S : x <= y
  BY LeastNatural
<1>2. x # 0 /\ x - 1 \in Nat
  BY <1>1
<1>3. x - 1 \in S
  BY <1>1, <1>2
<1> QED
  BY <1>2, <1>3

-----------------------------------------------------------------------------
(***************************************************************************)
(* The sum of two connected legs is connected, fits the word, and is no    *)
(* shorter than either leg, the wrap-around and the len hack included.     *)
(***************************************************************************)
LEMMA PathSumBounds ==
  ASSUME NEW a \in 1..PATH_MAX, NEW b \in 1..PATH_MAX
  PROVE  /\ PathSum(a, b) \in 1..PATH_MAX
         /\ PathSum(a, b) >= a
         /\ PathSum(a, b) >= b
<1> DEFINE m == (a + b) % (PATH_MAX + 1)
<1>1. m \in 0..PATH_MAX
  BY PathMaxAssumption
<1> HIDE DEF m
<1>2. PathSum(a, b) =
        LET x == m - (IF a = 1 /\ b = 1 THEN 1 ELSE 0)
        IN  IF x < a \/ x < b THEN PATH_MAX ELSE x
  BY DEF PathSum, m
<1> QED
  BY <1>1, <1>2, PathMaxAssumption

\* A sum that did not overflow is exact, but for the len hack.
LEMMA PathSumExact ==
  ASSUME NEW a \in 1..PATH_MAX, NEW b \in 1..PATH_MAX
  PROVE  \/ PathSum(a, b) = PATH_MAX
         \/ a = 1 /\ b = 1 /\ PathSum(a, b) = 1
         \/ PathSum(a, b) = a + b
<1> DEFINE m == (a + b) % (PATH_MAX + 1)
<1>1. CASE a + b <= PATH_MAX
  <2>1. m = a + b
    BY <1>1, PathMaxAssumption
  <2> HIDE DEF m
  <2>2. PathSum(a, b) =
          LET x == m - (IF a = 1 /\ b = 1 THEN 1 ELSE 0)
          IN  IF x < a \/ x < b THEN PATH_MAX ELSE x
    BY DEF PathSum, m
  <2> QED
    BY <2>1, <2>2
<1>2. CASE a + b > PATH_MAX
  <2>1. m = a + b - (PATH_MAX + 1)
    <3>1. a + b = 1 * (PATH_MAX + 1) + (a + b - (PATH_MAX + 1))
      BY PathMaxAssumption
    <3>2. a + b - (PATH_MAX + 1) \in 0..PATH_MAX
      BY <1>2, PathMaxAssumption
    <3> QED
      BY <3>1, <3>2, PathMaxAssumption
  <2> HIDE DEF m
  <2>2. PathSum(a, b) =
          LET x == m - (IF a = 1 /\ b = 1 THEN 1 ELSE 0)
          IN  IF x < a \/ x < b THEN PATH_MAX ELSE x
    BY DEF PathSum, m
  <2> QED
    BY <2>1, <2>2, PathMaxAssumption
<1> QED
  BY <1>1, <1>2, PathMaxAssumption

(***************************************************************************)
(* The recursive function inside ComputePaths exists for every n, and its  *)
(* values do not depend on n.                                              *)
(***************************************************************************)
After(f, n, link) ==
  f = [k \in 0..n |-> IF k = 0 THEN Adjacency(link) ELSE Round(f[k - 1], k)]

LEMMA AfterExists ==
  ASSUME NEW link, NEW n \in Nat
  PROVE  \E f : After(f, n, link)
<1> DEFINE S == {m \in Nat : \E f : After(f, m, link)}
<1>1. 0 \in S
  <2> DEFINE f == [k \in 0..0 |-> Adjacency(link)]
  <2>1. f = [k \in 0..0 |-> IF k = 0 THEN Adjacency(link) ELSE Round(f[k - 1], k)]
    OBVIOUS
  <2>2. After(f, 0, link)
    BY <2>1 DEF After
  <2> QED
    BY <2>2
<1>2. ASSUME NEW m \in Nat, m \in S
      PROVE  m + 1 \in S
  <2>1. PICK f : After(f, m, link)
    BY <1>2
  <2> DEFINE G(k) == IF k = 0 THEN Adjacency(link) ELSE Round(f[k - 1], k)
             g == [k \in 0..(m + 1) |-> G(k)]
  <2>2. \A k \in 0..m : f[k] = G(k)
    BY <2>1 DEF After
  <2>3. \A k \in 1..(m + 1) : g[k - 1] = f[k - 1]
    BY <2>2
  <2>4. \A k \in 0..(m + 1) :
          G(k) = IF k = 0 THEN Adjacency(link) ELSE Round(g[k - 1], k)
    <3> HIDE DEF g
    <3> QED
      BY <2>3
  <2>5. g = [k \in 0..(m + 1) |->
               IF k = 0 THEN Adjacency(link) ELSE Round(g[k - 1], k)]
    <3> DEFINE H(k) == IF k = 0 THEN Adjacency(link) ELSE Round(g[k - 1], k)
    <3>1. \A k \in 0..(m + 1) : G(k) = H(k)
      BY <2>4
    <3> HIDE DEF G, H
    <3> QED
      BY <3>1 DEF H
  <2>6. After(g, m + 1, link)
    BY <2>5 DEF After
  <2> QED
    BY <2>6
<1> HIDE DEF S
<1>3. Nat \subseteq S
  BY <1>1, <1>2, SetInduction
<1> QED
  BY <1>3 DEF S

LEMMA AfterUnique ==
  ASSUME NEW link, NEW n \in Nat, NEW m \in Nat, n <= m,
         NEW f, After(f, n, link), NEW g, After(g, m, link)
  PROVE  f[n] = g[n]
<1> DEFINE S == {k \in Nat : k <= n => f[k] = g[k]}
<1>1. 0 \in S
  BY DEF After
<1>2. ASSUME NEW k \in Nat, k \in S
      PROVE  k + 1 \in S
  <2> SUFFICES ASSUME k + 1 <= n PROVE f[k + 1] = g[k + 1]
    OBVIOUS
  <2>1. f[k] = g[k]
    BY <1>2
  <2>2. k + 1 \in 0..n /\ k + 1 \in 0..m /\ k + 1 # 0 /\ (k + 1) - 1 = k
    OBVIOUS
  <2>3. f[k + 1] = Round(f[k], k + 1)
    BY <2>2 DEF After
  <2>4. g[k + 1] = Round(g[k], k + 1)
    BY <2>2 DEF After
  <2> QED
    BY <2>1, <2>3, <2>4
<1> HIDE DEF S
<1>3. Nat \subseteq S
  BY <1>1, <1>2, SetInduction
<1> QED
  BY <1>3 DEF S

LEMMA ComputePathsAfter ==
  ASSUME NEW link, NEW n \in Nat
  PROVE  \E f : After(f, n, link) /\ ComputePaths(n, link) = f[n]
<1> DEFINE f == CHOOSE f : After(f, n, link)
<1>1. After(f, n, link)
  BY AfterExists
<1>2. ComputePaths(n, link) = f[n]
  BY DEF ComputePaths, After
<1> QED
  BY <1>1, <1>2

(***************************************************************************)
(* compute_paths as a recurrence: without any round it is the adjacency    *)
(* matrix, and each round continues from what the rounds before it left.   *)
(***************************************************************************)
LEMMA ComputePathsStart ==
  ASSUME NEW link
  PROVE  ComputePaths(0, link) = Adjacency(link)
<1>1. PICK f : After(f, 0, link) /\ ComputePaths(0, link) = f[0]
  BY ComputePathsAfter
<1> QED
  BY <1>1 DEF After

LEMMA ComputePathsRound ==
  ASSUME NEW link, NEW n \in Nat
  PROVE  ComputePaths(n + 1, link) = Round(ComputePaths(n, link), n + 1)
<1>1. PICK f : After(f, n, link) /\ ComputePaths(n, link) = f[n]
  BY ComputePathsAfter
<1>2. PICK g : After(g, n + 1, link) /\ ComputePaths(n + 1, link) = g[n + 1]
  BY ComputePathsAfter
<1>3. f[n] = g[n]
  BY <1>1, <1>2, AfterUnique
<1>4. n + 1 \in 0..(n + 1) /\ n + 1 # 0 /\ (n + 1) - 1 = n
  OBVIOUS
<1>5. g[n + 1] = Round(g[n], n + 1)
  BY <1>2, <1>4 DEF After
<1> QED
  BY <1>1, <1>2, <1>3, <1>5

-----------------------------------------------------------------------------
(***************************************************************************)
(* What k rounds over the links of n hosts leave behind: weights and rows; *)
(* a pair is connected exactly when it is one host or has a link; an       *)
(* intermediate host is linked to both ends.                               *)
(***************************************************************************)
Matrices(m, n, k) ==
  /\ m.path \in [1..n -> [1..n -> Weight]]
  /\ m.next \in [1..n -> [1..n -> 0..k]]

Connects(m, n, link) ==
  \A a, b \in 1..n :
    m.path[a][b] # PATH_DISCON <=> a = b \/ link[a][b] # PATH_DISCON

HopsLinked(m, n, link) ==
  \A a, b \in 1..n :
    m.next[a][b] # NEXT_DISCON =>
      /\ m.next[a][b] \notin {a, b}
      /\ link[a][m.next[a][b]] # PATH_DISCON
      /\ link[m.next[a][b]][b] # PATH_DISCON

(***************************************************************************)
(* Why a walk along next ends: each hop leads to a host from which the     *)
(* rest is shorter, or equally short (the len hack: all weights are 1) but *)
(* with an intermediate host of a smaller row number.                      *)
(***************************************************************************)
Descends(m, n) ==
  \A a, b \in 1..n :
    m.next[a][b] # NEXT_DISCON =>
      \/ m.path[m.next[a][b]][b] < m.path[a][b]
      \/ /\ m.path[m.next[a][b]][b] = m.path[a][b]
         /\ m.next[m.next[a][b]][b] < m.next[a][b]

\* A host is at its own, by no intermediate.
SelfDirect(m, n) ==
  \A a \in 1..n : m.path[a][a] = PATH_MIN /\ m.next[a][a] = NEXT_DISCON

Good(m, n, k, link) ==
  /\ Matrices(m, n, k)
  /\ Connects(m, n, link)
  /\ HopsLinked(m, n, link)
  /\ Descends(m, n)
  /\ SelfDirect(m, n)

\* The matrices of a link table, before any round.
LEMMA AdjacencyGood ==
  ASSUME NEW n \in Nat, NEW link \in [1..n -> [1..n -> Weight]]
  PROVE  Good(Adjacency(link), n, 0, link)
<1> DEFINE m == Adjacency(link)
<1>1. m.path = [r \in 1..n |-> [link[r] EXCEPT ![r] = PATH_MIN]]
  BY DEF Adjacency
<1>2. m.next = [r \in 1..n |-> [c \in 1..n |-> NEXT_DISCON]]
  BY DEF Adjacency
<1>3. PATH_MIN \in Weight /\ PATH_MIN # PATH_DISCON
  BY PathMaxAssumption DEF PATH_MIN, PATH_DISCON, Weight
<1> HIDE DEF m
<1>4. \A a, b \in 1..n : m.path[a][b] = IF a = b THEN PATH_MIN ELSE link[a][b]
  BY <1>1
<1>5. \A a, b \in 1..n : m.next[a][b] = NEXT_DISCON
  BY <1>2
<1>6. Matrices(m, n, 0)
  BY <1>1, <1>2, <1>3 DEF Matrices, NEXT_DISCON
<1>7. Connects(m, n, link)
  BY <1>3, <1>4 DEF Connects
<1>8. HopsLinked(m, n, link) /\ Descends(m, n) /\ SelfDirect(m, n)
  BY <1>4, <1>5 DEF HopsLinked, Descends, SelfDirect
<1> QED
  BY <1>6, <1>7, <1>8 DEF Good, m

(***************************************************************************)
(* A relaxation that is taken replaces a connected entry by a smaller,     *)
(* still connected one, and goes through a host that is neither end; its   *)
(* new length exceeds the second leg unless both legs have length 1.       *)
(***************************************************************************)
LEMMA TakenEntry ==
  ASSUME NEW n \in Nat, NEW path \in [1..n -> [1..n -> Weight]],
         NEW k \in 1..n, NEW a \in 1..n, NEW b \in 1..n, Better(path, k, a, b)
  PROVE  /\ PathSum(path[a][k], path[k][b]) \in 1..PATH_MAX
         /\ PathSum(path[a][k], path[k][b]) < path[a][b]
         /\ PathSum(path[a][k], path[k][b]) >= path[k][b]
         /\ path[a][b] # PATH_DISCON
         /\ path[a][k] # PATH_DISCON
         /\ path[k][b] # PATH_DISCON
         /\ k \notin {a, b}
<1> DEFINE x == PathSum(path[a][k], path[k][b])
<1>1. path[a][k] \in 1..PATH_MAX /\ path[k][b] \in 1..PATH_MAX
  <2>1. path[a][k] \in Weight /\ path[k][b] \in Weight
    OBVIOUS
  <2>2. path[a][k] # 0 /\ path[k][b] # 0
    BY DEF Better, PATH_DISCON
  <2>3. \A w \in Weight : w # 0 => w \in 1..PATH_MAX
    BY PathMaxAssumption DEF Weight
  <2> QED
    BY <2>1, <2>2, <2>3
<1>2. x \in 1..PATH_MAX /\ x >= path[a][k] /\ x >= path[k][b]
  BY <1>1, PathSumBounds
<1>3. x < path[a][b]
  BY DEF Better
<1>4. path[a][b] \in 0..PATH_MAX
  BY DEF Weight
<1> HIDE DEF x
<1>5. k # a /\ k # b
  BY <1>1, <1>2, <1>3, <1>4
<1> QED
  BY <1>1, <1>2, <1>3, <1>4, <1>5, PathMaxAssumption DEF x, PATH_DISCON

\* The entries of a round.
LEMMA RoundEntries ==
  ASSUME NEW n \in Nat, NEW k \in 1..n, NEW m, Matrices(m, n, k - 1)
  PROVE  /\ Matrices(Round(m, k), n, k)
         /\ \A a, b \in 1..n :
              IF Better(m.path, k, a, b)
              THEN /\ Round(m, k).path[a][b] = PathSum(m.path[a][k], m.path[k][b])
                   /\ Round(m, k).next[a][b] = k
              ELSE /\ Round(m, k).path[a][b] = m.path[a][b]
                   /\ Round(m, k).next[a][b] = m.next[a][b]
<1> DEFINE taken == [a \in 1..n |-> {b \in 1..n : Better(m.path, k, a, b)}]
           P == [a \in 1..n |-> [b \in 1..n |->
                  IF b \in taken[a] THEN PathSum(m.path[a][k], m.path[k][b])
                                    ELSE m.path[a][b]]]
           X == [a \in 1..n |-> [b \in 1..n |->
                  IF b \in taken[a] THEN k ELSE m.next[a][b]]]
<1>1. DOMAIN m.path = 1..n
  BY DEF Matrices
<1>2. Round(m, k).path = P
  BY <1>1 DEF Round
<1>3. Round(m, k).next = X
  BY <1>1 DEF Round
<1>4. \A a, b \in 1..n : b \in taken[a] <=> Better(m.path, k, a, b)
  OBVIOUS
<1> HIDE DEF taken
<1>5. \A a, b \in 1..n :
        /\ P[a][b] = IF b \in taken[a] THEN PathSum(m.path[a][k], m.path[k][b])
                                       ELSE m.path[a][b]
        /\ X[a][b] = IF b \in taken[a] THEN k ELSE m.next[a][b]
  OBVIOUS
<1>6. \A a, b \in 1..n : Better(m.path, k, a, b) =>
        PathSum(m.path[a][k], m.path[k][b]) \in Weight
  <2> SUFFICES ASSUME NEW a \in 1..n, NEW b \in 1..n, Better(m.path, k, a, b)
               PROVE  PathSum(m.path[a][k], m.path[k][b]) \in Weight
    OBVIOUS
  <2>1. PathSum(m.path[a][k], m.path[k][b]) \in 1..PATH_MAX
    BY TakenEntry DEF Matrices
  <2> QED
    BY <2>1, PathMaxAssumption DEF Weight
<1>7. P \in [1..n -> [1..n -> Weight]]
  BY <1>4, <1>6 DEF Matrices
<1>8. X \in [1..n -> [1..n -> 0..k]]
  <2>1. \A a, b \in 1..n : m.next[a][b] \in 0..(k - 1)
    BY DEF Matrices
  <2>2. \A a, b \in 1..n : (IF b \in taken[a] THEN k ELSE m.next[a][b]) \in 0..k
    BY <2>1
  <2> QED
    BY <2>2
<1> HIDE DEF P, X
<1> QED
  BY <1>2, <1>3, <1>4, <1>5, <1>7, <1>8 DEF Matrices

\* Round k leaves row k and column k alone.
LEMMA RoundKeepsCross ==
  ASSUME NEW n \in Nat, NEW k \in 1..n, NEW m, Matrices(m, n, k - 1),
         NEW a \in 1..n
  PROVE  /\ Round(m, k).path[a][k] = m.path[a][k]
         /\ Round(m, k).path[k][a] = m.path[k][a]
         /\ Round(m, k).next[a][k] = m.next[a][k]
         /\ Round(m, k).next[k][a] = m.next[k][a]
<1>1. ~Better(m.path, k, a, k) /\ ~Better(m.path, k, k, a)
  BY TakenEntry DEF Matrices
<1> QED
  BY <1>1, RoundEntries

LEMMA RoundGood ==
  ASSUME NEW n \in Nat, NEW k \in 1..n, NEW m, NEW link,
         Good(m, n, k - 1, link)
  PROVE  Good(Round(m, k), n, k, link)
<1> DEFINE r == Round(m, k)
           Taken(a, b) == Better(m.path, k, a, b)
           x(a, b) == PathSum(m.path[a][k], m.path[k][b])
<1>0. Matrices(m, n, k - 1) /\ k - 1 \in Nat
  BY DEF Good
<1>1. Matrices(r, n, k)
  BY <1>0, RoundEntries
<1>2. \A a, b \in 1..n :
        IF Taken(a, b) THEN r.path[a][b] = x(a, b) /\ r.next[a][b] = k
        ELSE r.path[a][b] = m.path[a][b] /\ r.next[a][b] = m.next[a][b]
  BY <1>0, RoundEntries
<1>3. \A a, b \in 1..n : Taken(a, b) =>
        /\ x(a, b) \in 1..PATH_MAX
        /\ x(a, b) < m.path[a][b]
        /\ x(a, b) >= m.path[k][b]
        /\ m.path[a][b] # PATH_DISCON
        /\ m.path[a][k] # PATH_DISCON
        /\ m.path[k][b] # PATH_DISCON
        /\ k \notin {a, b}
  BY <1>0, TakenEntry DEF Matrices
<1>4. \A a \in 1..n : r.path[k][a] = m.path[k][a] /\ r.next[k][a] = m.next[k][a]
  BY <1>0, RoundKeepsCross
<1>w. \A a, b \in 1..n : m.path[a][b] \in 0..PATH_MAX /\ m.next[a][b] \in 0..(k - 1)
  BY <1>0 DEF Matrices, Weight
<1> HIDE DEF r, Taken, x
<1>5. Connects(r, n, link)
  <2>1. \A a, b \in 1..n : r.path[a][b] # PATH_DISCON <=> m.path[a][b] # PATH_DISCON
    <3>1. \A a, b \in 1..n : Taken(a, b) => x(a, b) # PATH_DISCON
      BY <1>3, PathMaxAssumption DEF PATH_DISCON
    <3> QED
      BY <1>2, <1>3, <3>1
  <2> QED
    BY <2>1 DEF Good, Connects
<1>6. HopsLinked(r, n, link)
  <2> SUFFICES ASSUME NEW a \in 1..n, NEW b \in 1..n, r.next[a][b] # NEXT_DISCON
               PROVE  /\ r.next[a][b] \notin {a, b}
                      /\ link[a][r.next[a][b]] # PATH_DISCON
                      /\ link[r.next[a][b]][b] # PATH_DISCON
    BY DEF HopsLinked
  <2>1. CASE Taken(a, b)
    <3>1. link[a][k] # PATH_DISCON /\ link[k][b] # PATH_DISCON /\ k \notin {a, b}
      BY <2>1, <1>3 DEF Good, Connects
    <3> QED
      BY <2>1, <3>1, <1>2
  <2>2. CASE ~Taken(a, b)
    BY <2>2, <1>2 DEF Good, HopsLinked
  <2> QED
    BY <2>1, <2>2
<1>7. Descends(r, n)
  <2> SUFFICES ASSUME NEW a \in 1..n, NEW b \in 1..n, r.next[a][b] # NEXT_DISCON
               PROVE  \/ r.path[r.next[a][b]][b] < r.path[a][b]
                      \/ /\ r.path[r.next[a][b]][b] = r.path[a][b]
                         /\ r.next[r.next[a][b]][b] < r.next[a][b]
    BY DEF Descends
  <2>1. CASE Taken(a, b)
    <3>1. r.next[a][b] = k /\ r.path[a][b] = x(a, b)
      BY <2>1, <1>2
    <3>2. m.next[k][b] < k
      BY <1>w
    <3>3. x(a, b) \in Int /\ m.path[k][b] \in Int /\ x(a, b) >= m.path[k][b]
      BY <2>1, <1>3, <1>w, PathMaxAssumption
    <3> QED
      BY <3>1, <3>2, <3>3, <1>4
  <2>2. CASE ~Taken(a, b)
    <3> DEFINE c == m.next[a][b]
    <3>1. r.next[a][b] = c /\ r.path[a][b] = m.path[a][b] /\ c # NEXT_DISCON
      BY <2>2, <1>2
    <3>2. c \in 1..n
      BY <3>1, <1>w DEF NEXT_DISCON
    <3>3. \/ m.path[c][b] < m.path[a][b]
          \/ m.path[c][b] = m.path[a][b] /\ m.next[c][b] < c
      BY <3>1 DEF Good, Descends
    <3>4. m.path[c][b] \in Int /\ m.path[a][b] \in Int
      BY <3>2, <1>w, PathMaxAssumption
    <3> HIDE DEF c
    <3>5. CASE Taken(c, b)
      <4>1. r.path[c][b] = x(c, b) /\ x(c, b) < m.path[c][b] /\ x(c, b) \in Int
        BY <3>2, <3>5, <1>2, <1>3, PathMaxAssumption
      <4>2. x(c, b) < m.path[a][b]
        BY <4>1, <3>3, <3>4
      <4> QED
        BY <4>1, <4>2, <3>1
    <3>6. CASE ~Taken(c, b)
      <4>1. r.path[c][b] = m.path[c][b] /\ r.next[c][b] = m.next[c][b]
        BY <3>2, <3>6, <1>2
      <4> QED
        BY <4>1, <3>1, <3>3
    <3> QED
      BY <3>5, <3>6
  <2> QED
    BY <2>1, <2>2
<1>8. SelfDirect(r, n)
  <2> SUFFICES ASSUME NEW a \in 1..n
               PROVE  r.path[a][a] = PATH_MIN /\ r.next[a][a] = NEXT_DISCON
    BY DEF SelfDirect
  <2>1. m.path[a][a] = 1 /\ m.next[a][a] = NEXT_DISCON
    BY DEF Good, SelfDirect, PATH_MIN
  <2>2. Taken(a, a) => x(a, a) \in 1..PATH_MAX /\ x(a, a) < m.path[a][a]
    BY <1>3
  <2>3. ~Taken(a, a)
    BY <2>1, <2>2, PathMaxAssumption
  <2> QED
    BY <1>2, <2>1, <2>3 DEF PATH_MIN
<1> QED
  BY <1>1, <1>5, <1>6, <1>7, <1>8 DEF Good, r

(***************************************************************************)
(* What compute_paths returns, whatever the links: no multi-hop path is    *)
(* ever found, next holds only hosts linked to both ends, and following    *)
(* next descends.                                                          *)
(***************************************************************************)
THEOREM ComputePathsGood ==
  ASSUME NEW n \in Nat, NEW link \in [1..n -> [1..n -> Weight]]
  PROVE  \A k \in 0..n : Good(ComputePaths(k, link), n, k, link)
<1> DEFINE S == {k \in Nat : k <= n => Good(ComputePaths(k, link), n, k, link)}
<1>1. 0 \in S
  BY ComputePathsStart, AdjacencyGood
<1>2. ASSUME NEW k \in Nat, k \in S
      PROVE  k + 1 \in S
  <2> SUFFICES ASSUME k + 1 <= n PROVE Good(ComputePaths(k + 1, link), n, k + 1, link)
    OBVIOUS
  <2>1. k + 1 \in 1..n /\ (k + 1) - 1 = k
    OBVIOUS
  <2>2. Good(ComputePaths(k, link), n, (k + 1) - 1, link)
    BY <1>2, <2>1
  <2>3. Good(Round(ComputePaths(k, link), k + 1), n, k + 1, link)
    BY <2>1, <2>2, RoundGood
  <2> QED
    BY <2>3, ComputePathsRound
<1> HIDE DEF S
<1>3. Nat \subseteq S
  BY <1>1, <1>2, SetInduction
<1> QED
  BY <1>3 DEF S
=============================================================================
