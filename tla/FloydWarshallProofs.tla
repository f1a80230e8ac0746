------------------------ MODULE FloydWarshallProofs ------------------------
(***************************************************************************)
(* What compute_paths establishes, for any number of hosts, any links and  *)
(* any width of the weights.                                               *)
(***************************************************************************)
EXTENDS FloydWarshall, PathsProofs, FiniteSetTheorems, TLAPS

\* A link matrix is a matrix of weights.
LEMMA LinkMatrixType ==
  ASSUME NEW l \in LinkMatrices
  PROVE  l \in [Row -> [Row -> Weight]]
<1> DEFINE R == Rtts \cup {PATH_DISCON}
<1>1. \A w \in R : w \in Weight
  BY RttsAssumption, PathMaxAssumption DEF Weight, PATH_DISCON
<1>2. l \in [Row -> [Row -> R]]
  BY DEF LinkMatrices
<1> HIDE DEF R
<1> QED
  BY <1>1, <1>2

\* The matrices before the loop, entry by entry.
LEMMA AdjacencyEntries ==
  ASSUME NEW l \in LinkMatrices
  PROVE  /\ Adjacency(l).path \in [Row -> [Row -> Weight]]
         /\ Adjacency(l).next \in [Row -> [Row -> Row \cup {NEXT_DISCON}]]
         /\ \A a, b \in Row :
              /\ Adjacency(l).path[a][b] = IF a = b THEN PATH_MIN ELSE l[a][b]
              /\ Adjacency(l).next[a][b] = NEXT_DISCON
<1>1. l \in [Row -> [Row -> Weight]]
  BY LinkMatrixType
<1>2. Adjacency(l).path = [r \in Row |-> [l[r] EXCEPT ![r] = PATH_MIN]]
  BY <1>1 DEF Adjacency
<1>3. Adjacency(l).next = [r \in Row |-> [c \in Row |-> NEXT_DISCON]]
  BY <1>1 DEF Adjacency
<1>4. PATH_MIN \in Weight
  BY PathMaxAssumption DEF PATH_MIN, Weight
<1> QED
  BY <1>1, <1>2, <1>3, <1>4

-----------------------------------------------------------------------------
(***************************************************************************)
(* NoShortcuts while the loop runs.  An entry of length 1 must not climb   *)
(* at all: two of them make another of length 1.                           *)
(***************************************************************************)
ClimbBound ==
  \A f \in Heights : \A a, b \in Row :
    path[a][b] # PATH_DISCON =>
      /\ f[b] - f[a] <= path[a][b]
      /\ path[a][b] = 1 => f[b] <= f[a]

(***************************************************************************)
(* The inductive invariant.  NextIsALinkedHop needs ConnectedIffLinked (a  *)
(* leg the loop found connected is a link of its own), and both need the   *)
(* types.                                                                  *)
(***************************************************************************)
IInv ==
  /\ TypeOK
  /\ ConnectedIffLinked
  /\ NextIsALinkedHop
  /\ ClimbBound

\* The state from which each call of compute_paths enters its loop.
LEMMA SetupIInv ==
  ASSUME link' \in LinkMatrices,
         path' = Adjacency(link').path,
         next' = Adjacency(link').next,
         k' = 1 /\ i' = 1 /\ j' = 1
  PROVE  IInv'
<1>1. TypeOK'
  BY AdjacencyEntries, NAssumption DEF TypeOK, Row
<1>2. ConnectedIffLinked'
  BY AdjacencyEntries DEF ConnectedIffLinked, Linked, PATH_MIN, PATH_DISCON
<1>3. NextIsALinkedHop'
  BY AdjacencyEntries DEF NextIsALinkedHop
<1>4. ClimbBound'
  <2> SUFFICES ASSUME NEW f \in Heights', NEW a \in Row, NEW b \in Row,
                      path'[a][b] # PATH_DISCON
               PROVE  /\ f[b] - f[a] <= path'[a][b]
                      /\ path'[a][b] = 1 => f[b] <= f[a]
    BY DEF ClimbBound
  <2>1. path'[a][b] = IF a = b THEN PATH_MIN ELSE link'[a][b]
    BY AdjacencyEntries
  <2>2. f[a] \in 0..PATH_MAX /\ f[b] \in 0..PATH_MAX
    BY DEF Heights, Weight
  <2>3. CASE a = b
    BY <2>1, <2>2, <2>3, PathMaxAssumption DEF PATH_MIN
  <2>4. CASE a # b
    <3>1. f[b] - f[a] <= Cost(link'[a][b])
      BY <2>1, <2>4 DEF Heights
    <3>2. link'[a][b] \in 0..PATH_MAX
      BY LinkMatrixType DEF Weight
    <3> QED
      BY <2>1, <2>2, <2>4, <3>1, <3>2, PathMaxAssumption DEF Cost
  <2> QED
    BY <2>3, <2>4
<1> QED
  BY <1>1, <1>2, <1>3, <1>4 DEF IInv

LEMMA InitIInv == Init => IInv
<1> SUFFICES ASSUME Init PROVE IInv
  OBVIOUS
<1>0. link \in LinkMatrices /\ path = Adjacency(link).path
      /\ next = Adjacency(link).next /\ k = 1 /\ i = 1 /\ j = 1
  BY DEF Init, Start
<1>1. TypeOK
  BY <1>0, AdjacencyEntries, NAssumption DEF TypeOK, Row
<1>2. ConnectedIffLinked
  BY <1>0, AdjacencyEntries DEF ConnectedIffLinked, Linked, PATH_MIN, PATH_DISCON
<1>3. NextIsALinkedHop
  BY <1>0, AdjacencyEntries DEF NextIsALinkedHop
<1>4. ClimbBound
  <2> SUFFICES ASSUME NEW f \in Heights, NEW a \in Row, NEW b \in Row,
                      path[a][b] # PATH_DISCON
               PROVE  /\ f[b] - f[a] <= path[a][b]
                      /\ path[a][b] = 1 => f[b] <= f[a]
    BY DEF ClimbBound
  <2>1. path[a][b] = IF a = b THEN PATH_MIN ELSE link[a][b]
    BY <1>0, AdjacencyEntries
  <2>2. f[a] \in 0..PATH_MAX /\ f[b] \in 0..PATH_MAX
    BY DEF Heights, Weight
  <2>3. CASE a = b
    BY <2>1, <2>2, <2>3, PathMaxAssumption DEF PATH_MIN
  <2>4. CASE a # b
    <3>1. f[b] - f[a] <= Cost(link[a][b])
      BY <2>1, <2>4 DEF Heights
    <3>2. link[a][b] \in 0..PATH_MAX
      BY <1>0, LinkMatrixType DEF Weight
    <3> QED
      BY <2>1, <2>2, <2>4, <3>1, <3>2, PathMaxAssumption DEF Cost
  <2> QED
    BY <2>3, <2>4
<1> QED
  BY <1>1, <1>2, <1>3, <1>4 DEF IInv

(***************************************************************************)
(* A relaxation that is taken replaces a connected entry by a smaller,     *)
(* still connected one, and goes through a host that is neither end.       *)
(***************************************************************************)
LEMMA TakenRelaxation ==
  ASSUME IInv, Looping, Better(path, k, i, j)
  PROVE  LET x == PathSum(path[i][k], path[k][j])
         IN  /\ x \in 1..PATH_MAX
             /\ x < path[i][j]
             /\ path[i][j] # PATH_DISCON
             /\ k \in Row
             /\ k \notin {i, j}
             /\ link[i][k] # PATH_DISCON
             /\ link[k][j] # PATH_DISCON
<1> DEFINE x == PathSum(path[i][k], path[k][j])
<1>1. k \in Row /\ i \in Row /\ j \in Row
  BY NAssumption DEF IInv, TypeOK, Looping, Row
<1>2. path[i][k] \in 1..PATH_MAX /\ path[k][j] \in 1..PATH_MAX
  BY <1>1, PathMaxAssumption DEF IInv, TypeOK, Better, Weight, PATH_DISCON
<1>3. x \in 1..PATH_MAX /\ x >= path[i][k] /\ x >= path[k][j]
  BY <1>2, PathSumBounds
<1>4. x < path[i][j]
  BY DEF Better
<1>5. path[i][j] \in 0..PATH_MAX
  BY <1>1 DEF IInv, TypeOK, Weight
<1>6. path[i][j] # PATH_DISCON
  BY <1>3, <1>4, <1>5, PathMaxAssumption DEF PATH_DISCON
<1>7. k \notin {i, j}
  <2>1. k # i
    BY <1>2, <1>3, <1>4, <1>5, PathMaxAssumption
  <2>2. k # j
    BY <1>2, <1>3, <1>4, <1>5, PathMaxAssumption
  <2> QED
    BY <2>1, <2>2
<1>8. link[i][k] # PATH_DISCON /\ link[k][j] # PATH_DISCON
  <2>1. Linked(i, k) /\ Linked(k, j)
    BY <1>1, <1>2 DEF IInv, ConnectedIffLinked, PATH_DISCON
  <2> QED
    BY <2>1, <1>7 DEF Linked
<1> QED
  BY <1>1, <1>3, <1>4, <1>6, <1>7, <1>8

\* What a relaxation does to the two matrices, entry by entry.
LEMMA RelaxEntries ==
  ASSUME IInv, RelaxStep
  PROVE  \/ path' = path /\ next' = next
         \/ /\ Better(path, k, i, j)
            /\ path' = [path EXCEPT ![i][j] = PathSum(path[i][k], path[k][j])]
            /\ next' = [next EXCEPT ![i][j] = k]
BY DEF RelaxStep, Relax

LEMMA RelaxIInv == IInv /\ RelaxStep => IInv'
<1> SUFFICES ASSUME IInv, RelaxStep PROVE IInv'
  OBVIOUS
<1> DEFINE x == PathSum(path[i][k], path[k][j])
<1>t. TypeOK
  BY DEF IInv
<1>c. /\ link' = link
      /\ k' \in 1..(N + 1) /\ i' \in Row /\ j' \in Row
  BY <1>t, NAssumption DEF RelaxStep, TypeOK, Row, Looping
<1>1. CASE path' = path /\ next' = next
  BY <1>1, <1>c
     DEF IInv, TypeOK, ConnectedIffLinked, Linked, NextIsALinkedHop,
         ClimbBound, Heights
<1>2. CASE /\ Better(path, k, i, j)
           /\ path' = [path EXCEPT ![i][j] = x]
           /\ next' = [next EXCEPT ![i][j] = k]
  <2>1. /\ x \in 1..PATH_MAX
        /\ x < path[i][j]
        /\ path[i][j] # PATH_DISCON
        /\ k \in Row
        /\ k \notin {i, j}
        /\ link[i][k] # PATH_DISCON
        /\ link[k][j] # PATH_DISCON
    BY <1>2, TakenRelaxation DEF RelaxStep
  <2> HIDE DEF x
  <2>2. x \in Weight /\ x # PATH_DISCON
    BY <2>1, PathMaxAssumption DEF Weight, PATH_DISCON
  <2>3. TypeOK'
    BY <1>2, <1>c, <1>t, <2>1, <2>2 DEF TypeOK
  <2>4. \A a, b \in Row : path'[a][b] = IF a = i /\ b = j THEN x ELSE path[a][b]
    BY <1>2, <1>t DEF TypeOK
  <2>5. \A a, b \in Row : next'[a][b] = IF a = i /\ b = j THEN k ELSE next[a][b]
    BY <1>2, <1>t DEF TypeOK
  <2>6. ConnectedIffLinked'
    BY <2>1, <2>2, <2>4, <1>c DEF IInv, ConnectedIffLinked, Linked
  <2>7. NextIsALinkedHop'
    BY <2>1, <2>5, <1>c DEF IInv, NextIsALinkedHop
  <2>8. ClimbBound'
    <3> SUFFICES ASSUME NEW f \in Heights, NEW a \in Row, NEW b \in Row,
                        path'[a][b] # PATH_DISCON
                 PROVE  /\ f[b] - f[a] <= path'[a][b]
                        /\ path'[a][b] = 1 => f[b] <= f[a]
      BY <1>c DEF ClimbBound, Heights
    <3>1. CASE ~(a = i /\ b = j)
      BY <3>1, <2>4 DEF IInv, ClimbBound
    <3>2. CASE a = i /\ b = j
      <4>0. i \in Row /\ j \in Row
        BY <1>t DEF TypeOK
      <4>1. path[i][k] \in 1..PATH_MAX /\ path[k][j] \in 1..PATH_MAX
        BY <1>2, <4>0, <2>1, <1>t, PathMaxAssumption
           DEF TypeOK, Better, Weight, PATH_DISCON
      <4>2. /\ f[k] - f[i] <= path[i][k] /\ (path[i][k] = 1 => f[k] <= f[i])
            /\ f[j] - f[k] <= path[k][j] /\ (path[k][j] = 1 => f[j] <= f[k])
        BY <4>0, <4>1, <2>1 DEF IInv, ClimbBound, PATH_DISCON
      <4>3. f[i] \in 0..PATH_MAX /\ f[j] \in 0..PATH_MAX /\ f[k] \in 0..PATH_MAX
        BY <4>0, <2>1 DEF Heights, Weight
      <4>4. \/ x = PATH_MAX
            \/ path[i][k] = 1 /\ path[k][j] = 1 /\ x = 1
            \/ x = path[i][k] + path[k][j]
        BY <4>1, PathSumExact DEF x
      <4>5. path'[a][b] = x
        BY <3>2, <2>4
      <4> QED
        BY <3>2, <4>1, <4>2, <4>3, <4>4, <4>5, PathMaxAssumption
    <3> QED
      BY <3>1, <3>2
  <2> QED
    BY <2>3, <2>6, <2>7, <2>8 DEF IInv
<1> QED
  BY <1>1, <1>2, RelaxEntries

LEMMA RecomputeIInv == IInv /\ Recompute => IInv'
<1> SUFFICES ASSUME IInv, Recompute PROVE IInv'
  OBVIOUS
<1>1. link' \in LinkMatrices
  BY DEF IInv, TypeOK, Recompute, LinkMatrices
<1> QED
  BY <1>1, SetupIInv DEF Recompute

(***************************************************************************)
(* The loop of compute_paths keeps its matrices in their types, finds a    *)
(* pair connected exactly when it is one host or has a link, stores only   *)
(* linked intermediate hosts in next, and finds no path shorter than links *)
(* can make it.                                                            *)
(***************************************************************************)
THEOREM ComputePathsCorrect == Spec => []IInv
<1>1. IInv /\ UNCHANGED vars => IInv'
  BY DEF IInv, vars, TypeOK, ConnectedIffLinked, Linked, NextIsALinkedHop,
         ClimbBound, Heights
<1>2. IInv /\ [Next]_vars => IInv'
  BY <1>1, RelaxIInv, RecomputeIInv DEF Next
<1> QED
  BY InitIInv, <1>2, PTL DEF Spec

\* compute_paths keeps path and next in their types.
THEOREM TypeCorrect == Spec => []TypeOK
BY ComputePathsCorrect, PTL DEF IInv

\* compute_paths connects a pair exactly when it is one host or has a link
\* of its own, for every number of hosts: no multi-hop path is ever found.
THEOREM OnlyLinkedPairsConnected == Spec => []ConnectedIffLinked
BY ComputePathsCorrect, PTL DEF IInv

\* An intermediate host stored in next is adjacent to both ends.
THEOREM IntermediateIsAdjacent == Spec => []NextIsALinkedHop
BY ComputePathsCorrect, PTL DEF IInv

\* No overflow of a sum of weights, at any width of the word, makes
\* compute_paths report a path as shorter than its links.
THEOREM NoOverflowShortcuts == Spec => []NoShortcuts
<1>1. IInv => NoShortcuts
  BY DEF IInv, ClimbBound, NoShortcuts
<1> QED
  BY <1>1, ComputePathsCorrect, PTL

-----------------------------------------------------------------------------
(***************************************************************************)
(* The loop is in the middle of round k: the entries it has passed are     *)
(* those of the round, the others those of the rounds before.  Row k and   *)
(* column k are the same in both, which is why it does not matter that the *)
(* loop reads entries it may have written in the same round.               *)
(***************************************************************************)
Before == ComputePaths(k - 1, link)

Passed(a, b) == a < i \/ (a = i /\ b < j)

RoundSoFar ==
  \A a, b \in Row :
    IF Passed(a, b)
    THEN /\ path[a][b] = Round(Before, k).path[a][b]
         /\ next[a][b] = Round(Before, k).next[a][b]
    ELSE /\ path[a][b] = Before.path[a][b]
         /\ next[a][b] = Before.next[a][b]

\* The matrices of the rounds before, whatever the state of the loop.
LEMMA BeforeGood ==
  ASSUME TypeOK
  PROVE  /\ Good(Before, N, k - 1, link)
         /\ Row = 1..N /\ N \in Nat /\ k - 1 \in 0..N
<1>1. Row = 1..N /\ N \in Nat /\ k - 1 \in 0..N
  BY NAssumption DEF TypeOK, Row
<1>2. link \in [1..N -> [1..N -> Weight]]
  BY <1>1, LinkMatrixType DEF TypeOK
<1> QED
  BY <1>1, <1>2, ComputePathsGood DEF Before

\* A new call starts before the first entry of the first round.
LEMMA SetupRoundSoFar ==
  ASSUME link' \in LinkMatrices,
         path' = Adjacency(link').path,
         next' = Adjacency(link').next,
         k' = 1 /\ i' = 1 /\ j' = 1
  PROVE  RoundSoFar'
<1>1. Before' = ComputePaths(0, link')
  BY DEF Before
<1>2. Before' = Adjacency(link')
  BY <1>1, ComputePathsStart
<1>3. \A a, b \in Row : ~Passed(a, b)'
  BY NAssumption DEF Passed, Row
<1> QED
  BY <1>2, <1>3 DEF RoundSoFar

LEMMA InitRoundSoFar == Init => RoundSoFar
<1> SUFFICES ASSUME Init PROVE RoundSoFar
  OBVIOUS
<1>0. link \in LinkMatrices /\ path = Adjacency(link).path
      /\ next = Adjacency(link).next /\ k = 1 /\ i = 1 /\ j = 1
  BY DEF Init, Start
<1>1. Before = ComputePaths(0, link)
  BY <1>0 DEF Before
<1>2. Before = Adjacency(link)
  BY <1>1, ComputePathsStart
<1>3. \A a, b \in Row : ~Passed(a, b)
  BY <1>0, NAssumption DEF Passed, Row
<1> QED
  BY <1>0, <1>2, <1>3 DEF RoundSoFar

\* The entry the loop works on gets what the round gives it.
LEMMA RelaxedEntry ==
  ASSUME TypeOK, RoundSoFar, RelaxStep
  PROVE  \A a, b \in Row :
           IF Passed(a, b) \/ (a = i /\ b = j)
           THEN /\ path'[a][b] = Round(Before, k).path[a][b]
                /\ next'[a][b] = Round(Before, k).next[a][b]
           ELSE /\ path'[a][b] = Before.path[a][b]
                /\ next'[a][b] = Before.next[a][b]
<1>0. Row = 1..N /\ N \in Nat /\ k \in 1..N /\ i \in Row /\ j \in Row
  BY NAssumption DEF TypeOK, RelaxStep, Looping, Row
<1>1. Matrices(Before, N, k - 1)
  BY BeforeGood DEF Good
<1>2. ~Passed(i, j)
  BY <1>0 DEF Passed
<1>3. path[i][j] = Before.path[i][j] /\ next[i][j] = Before.next[i][j]
  BY <1>0, <1>2 DEF RoundSoFar
<1>4. path[i][k] = Before.path[i][k] /\ path[k][j] = Before.path[k][j]
  <2>1. Round(Before, k).path[i][k] = Before.path[i][k]
    BY <1>0, <1>1, RoundKeepsCross
  <2>2. Round(Before, k).path[k][j] = Before.path[k][j]
    BY <1>0, <1>1, RoundKeepsCross
  <2> QED
    BY <1>0, <2>1, <2>2 DEF RoundSoFar
<1>5. Better(path, k, i, j) <=> Better(Before.path, k, i, j)
  BY <1>3, <1>4 DEF Better
<1>6. IF Better(Before.path, k, i, j)
      THEN /\ Round(Before, k).path[i][j] = PathSum(path[i][k], path[k][j])
           /\ Round(Before, k).next[i][j] = k
      ELSE /\ Round(Before, k).path[i][j] = path[i][j]
           /\ Round(Before, k).next[i][j] = next[i][j]
  BY <1>0, <1>1, <1>3, <1>4, RoundEntries
<1>7. IF Better(path, k, i, j)
      THEN /\ path' = [path EXCEPT ![i][j] = PathSum(path[i][k], path[k][j])]
           /\ next' = [next EXCEPT ![i][j] = k]
      ELSE path' = path /\ next' = next
  BY DEF RelaxStep, Relax
<1>8. path'[i][j] = Round(Before, k).path[i][j]
      /\ next'[i][j] = Round(Before, k).next[i][j]
  BY <1>0, <1>5, <1>6, <1>7 DEF TypeOK
<1>9. \A a, b \in Row : ~(a = i /\ b = j) =>
        path'[a][b] = path[a][b] /\ next'[a][b] = next[a][b]
  BY <1>7 DEF TypeOK
<1> QED
  BY <1>2, <1>8, <1>9 DEF RoundSoFar

LEMMA RelaxRoundSoFar == TypeOK /\ RoundSoFar /\ RelaxStep => RoundSoFar'
<1> SUFFICES ASSUME TypeOK, RoundSoFar, RelaxStep PROVE RoundSoFar'
  OBVIOUS
<1>0. Row = 1..N /\ N \in Nat \ {0} /\ k \in 1..N /\ i \in Row /\ j \in Row
      /\ link' = link
  BY NAssumption DEF TypeOK, RelaxStep, Looping, Row
<1> DEFINE D(a, b) == Passed(a, b) \/ (a = i /\ b = j)
<1>1. CASE j < N \/ i < N
  <2>1. k' = k /\ Before' = Before
    BY <1>0, <1>1 DEF RelaxStep, Before
  <2>2. \A a, b \in Row : Passed(a, b)' <=> D(a, b)
    <3>1. j' = IF j < N THEN j + 1 ELSE 1
      BY DEF RelaxStep
    <3>2. i' = IF j < N THEN i ELSE i + 1
      BY <1>1 DEF RelaxStep
    <3> QED
      BY <1>0, <3>1, <3>2 DEF Passed
  <2> QED
    BY <2>1, <2>2, RelaxedEntry DEF RoundSoFar
<1>2. CASE ~(j < N \/ i < N)
  <2>1. j = N /\ i = N /\ k' = k + 1 /\ i' = 1 /\ j' = 1
    BY <1>0, <1>2 DEF RelaxStep
  <2>2. \A a, b \in Row : ~Passed(a, b)' /\ D(a, b)
    BY <1>0, <2>1 DEF Passed
  <2>3. k - 1 \in Nat /\ (k - 1) + 1 = k /\ (k + 1) - 1 = k
    BY <1>0
  <2>4. ComputePaths(k, link) = Round(Before, k)
    BY <2>3, ComputePathsRound DEF Before
  <2>5. Before' = ComputePaths(k, link)
    BY <1>0, <2>1, <2>3 DEF Before
  <2> QED
    BY <2>2, <2>4, <2>5, RelaxedEntry DEF RoundSoFar
<1> QED
  BY <1>1, <1>2

\* When the loop is left, its inner counters have been reset.
LoopLeft == ~Looping => i = 1 /\ j = 1

LEMMA RoundSoFarAlways == Spec => [](RoundSoFar /\ LoopLeft)
<1>1. TypeOK /\ RoundSoFar /\ Recompute => RoundSoFar'
  <2> SUFFICES ASSUME TypeOK, Recompute PROVE RoundSoFar'
    OBVIOUS
  <2>1. link' \in LinkMatrices
    BY DEF TypeOK, Recompute, LinkMatrices
  <2> QED
    BY <2>1, SetupRoundSoFar DEF Recompute
<1>2. RoundSoFar /\ LoopLeft /\ UNCHANGED vars => RoundSoFar' /\ LoopLeft'
  BY DEF RoundSoFar, LoopLeft, Looping, Before, Passed, vars
<1>3. TypeOK /\ LoopLeft /\ Next => LoopLeft'
  BY NAssumption DEF TypeOK, LoopLeft, Looping, Next, RelaxStep, Recompute, Row
<1>4. TypeOK /\ RoundSoFar /\ LoopLeft /\ [Next]_vars => RoundSoFar' /\ LoopLeft'
  BY <1>1, <1>2, <1>3, RelaxRoundSoFar DEF Next
<1>5. Init => LoopLeft
  BY DEF Init, Start, LoopLeft
<1> QED
  BY InitRoundSoFar, <1>4, <1>5, TypeCorrect, PTL DEF Spec

\* After the loop, the matrices are those of ComputePaths.
LEMMA LoopEnd ==
  ASSUME TypeOK, RoundSoFar, LoopLeft, ~Looping
  PROVE  /\ path = ComputePaths(N, link).path
         /\ next = ComputePaths(N, link).next
         /\ Good(ComputePaths(N, link), N, N, link)
<1> DEFINE c == ComputePaths(N, link)
<1>1. k = N + 1 /\ N \in Nat /\ k - 1 = N /\ Row = 1..N
  BY NAssumption DEF TypeOK, Looping, Row
<1>2. Before = c /\ Good(c, N, N, link)
  BY <1>1, BeforeGood DEF Before
<1>3. \A a, b \in Row : ~Passed(a, b)
  BY <1>1 DEF LoopLeft, Passed
<1> HIDE DEF c
<1>4. \A a, b \in Row : path[a][b] = c.path[a][b] /\ next[a][b] = c.next[a][b]
  BY <1>2, <1>3 DEF RoundSoFar
<1>5. c.path \in [Row -> [Row -> Weight]] /\ c.next \in [Row -> [Row -> 0..N]]
  BY <1>1, <1>2 DEF Good, Matrices
<1>6. path = c.path
  BY <1>4, <1>5 DEF TypeOK
<1>7. next = c.next
  BY <1>4, <1>5 DEF TypeOK
<1> QED
  BY <1>2, <1>6, <1>7 DEF c

(***************************************************************************)
(* The loop of compute_paths, which updates its matrices in place, leaves  *)
(* what the round-by-round ComputePaths of module Routing computes, for    *)
(* every number of hosts, all links and every width of the weights.        *)
(***************************************************************************)
THEOREM LoopComputesPaths == Spec => []LoopIsComputePaths
<1>1. TypeOK /\ RoundSoFar /\ LoopLeft => LoopIsComputePaths
  <2> SUFFICES ASSUME TypeOK, RoundSoFar, LoopLeft, ~Looping
               PROVE  [path |-> path, next |-> next] = ComputePaths(N, link)
    BY DEF LoopIsComputePaths
  <2>1. path = ComputePaths(N, link).path /\ next = ComputePaths(N, link).next
    BY LoopEnd
  <2>2. N - 1 \in Nat /\ (N - 1) + 1 = N
    BY NAssumption
  <2>3. ComputePaths(N, link) = Round(ComputePaths(N - 1, link), N)
    BY <2>2, ComputePathsRound
  <2>4. \A m : Round(m, N) = [path |-> Round(m, N).path, next |-> Round(m, N).next]
    BY DEF Round
  <2> QED
    BY <2>1, <2>3, <2>4
<1> QED
  BY <1>1, RoundSoFarAlways, TypeCorrect, PTL

-----------------------------------------------------------------------------
(***************************************************************************)
(* The recursive function inside Hop: the walk from a to b along next.     *)
(***************************************************************************)
Walk(f, a, b, n) ==
  f = [m \in 0..n |-> IF m = 0 THEN a
                      ELSE IF f[m - 1] = NEXT_DISCON THEN NEXT_DISCON
                           ELSE next[f[m - 1]][b]]

LEMMA WalkExists ==
  ASSUME NEW a, NEW b, NEW n \in Nat
  PROVE  \E f : Walk(f, a, b, n)
<1> DEFINE Step(x) == IF x = NEXT_DISCON THEN NEXT_DISCON ELSE next[x][b]
           S == {m \in Nat : \E f : Walk(f, a, b, m)}
<1>1. 0 \in S
  <2> DEFINE f == [m \in 0..0 |-> a]
  <2>1. f = [m \in 0..0 |-> IF m = 0 THEN a ELSE Step(f[m - 1])]
    OBVIOUS
  <2>2. Walk(f, a, b, 0)
    BY <2>1 DEF Walk
  <2> QED
    BY <2>2
<1>2. ASSUME NEW m \in Nat, m \in S
      PROVE  m + 1 \in S
  <2>1. PICK f : Walk(f, a, b, m)
    BY <1>2
  <2> DEFINE G(x) == IF x = 0 THEN a ELSE Step(f[x - 1])
             g == [x \in 0..(m + 1) |-> G(x)]
             H(x) == IF x = 0 THEN a ELSE Step(g[x - 1])
  <2>2. \A x \in 0..m : f[x] = G(x)
    BY <2>1 DEF Walk
  <2>3. \A x \in 1..(m + 1) : g[x - 1] = f[x - 1]
    <3> HIDE DEF Step
    <3> QED
      BY <2>2
  <2>4. \A x \in 0..(m + 1) : G(x) = H(x)
    <3> HIDE DEF g, Step
    <3> QED
      BY <2>3
  <2>5. g = [x \in 0..(m + 1) |-> H(x)]
    <3> HIDE DEF G, H
    <3> QED
      BY <2>4
  <2>6. Walk(g, a, b, m + 1)
    <3> HIDE DEF g
    <3> QED
      BY <2>5 DEF Walk
  <2> QED
    BY <2>6
<1> HIDE DEF S
<1>3. Nat \subseteq S
  BY <1>1, <1>2, SetInduction
<1> QED
  BY <1>3 DEF S

LEMMA HopWalk ==
  ASSUME NEW a, NEW b, NEW n \in Nat
  PROVE  \E f : Walk(f, a, b, n) /\ Hop(a, b, n) = f[n]
<1> DEFINE f == CHOOSE f : Walk(f, a, b, n)
<1>1. Walk(f, a, b, n)
  BY WalkExists
<1>2. Hop(a, b, n) = f[n]
  BY DEF Hop, Walk
<1> QED
  BY <1>1, <1>2

\* x is further along on the way to b than y.
Lower(x, y, b) ==
  \/ path[x][b] < path[y][b]
  \/ path[x][b] = path[y][b] /\ next[x][b] < next[y][b]

\* As long as the walk goes on, each host lies lower than all before it.
LEMMA WalkDescends ==
  ASSUME TypeOK, Descends([path |-> path, next |-> next], N),
         NEW a \in Row, NEW b \in Row, NEW f, Walk(f, a, b, N)
  PROVE  \A q \in 0..N : f[q] # NEXT_DISCON =>
           /\ f[q] \in Row
           /\ \A p \in 0..(q - 1) : f[p] \in Row /\ Lower(f[q], f[p], b)
<1> DEFINE Down(q) == /\ f[q] \in Row
                      /\ \A p \in 0..(q - 1) : f[p] \in Row /\ Lower(f[q], f[p], b)
           S == {q \in Nat : q <= N /\ f[q] # NEXT_DISCON => Down(q)}
<1>0. N \in Nat /\ Row = 1..N
  BY NAssumption DEF Row
<1>t. \A x, y \in Row : path[x][y] \in Int /\ next[x][y] \in Int
  <2>1. \A x, y \in Row : path[x][y] \in Weight /\ next[x][y] \in Row \cup {NEXT_DISCON}
    BY DEF TypeOK
  <2>2. Weight \subseteq Int /\ Row \cup {NEXT_DISCON} \subseteq Int
    BY <1>0, PathMaxAssumption DEF Weight, NEXT_DISCON
  <2> QED
    BY <2>1, <2>2
<1>1. 0 \in S
  <2>1. f[0] = a
    BY <1>0 DEF Walk
  <2> QED
    BY <2>1
<1>2. ASSUME NEW q \in Nat, q \in S
      PROVE  q + 1 \in S
  <2> SUFFICES ASSUME q + 1 <= N, f[q + 1] # NEXT_DISCON
               PROVE  Down(q + 1)
    OBVIOUS
  <2>1. q + 1 \in 0..N /\ q + 1 # 0 /\ (q + 1) - 1 = q
    BY <1>0
  <2>2. f[q + 1] = IF f[q] = NEXT_DISCON THEN NEXT_DISCON ELSE next[f[q]][b]
    BY <2>1 DEF Walk
  <2>3. f[q] # NEXT_DISCON /\ f[q + 1] = next[f[q]][b]
    BY <2>2
  <2>4. Down(q)
    BY <1>0, <1>2, <2>3
  <2>5. f[q] \in Row /\ f[q + 1] \in Row
    BY <2>3, <2>4 DEF TypeOK
  <2>6. Lower(f[q + 1], f[q], b)
    BY <1>0, <2>3, <2>5 DEF Descends, Lower
  <2>7. ASSUME NEW p \in 0..q
        PROVE  f[p] \in Row /\ Lower(f[q + 1], f[p], b)
    <3>1. CASE p = q
      BY <3>1, <2>5, <2>6
    <3>2. CASE p # q
      <4>1. f[p] \in Row /\ Lower(f[q], f[p], b)
        BY <3>2, <2>4
      <4> QED
        BY <4>1, <2>5, <2>6, <1>t DEF Lower
    <3> QED
      BY <3>1, <3>2
  <2> QED
    BY <2>1, <2>5, <2>7
<1> HIDE DEF S, Down
<1>3. Nat \subseteq S
  BY <1>1, <1>2, SetInduction
<1> QED
  BY <1>0, <1>3 DEF S, Down

(***************************************************************************)
(* The for(;;) walks of rt_dhosts_to_host end within as many hops as there *)
(* are hosts: a longer one would meet a host twice, and each host it meets *)
(* lies lower than all before.                                             *)
(***************************************************************************)
THEOREM WalksEnd == Spec => []WalkEnds
<1>1. TypeOK /\ RoundSoFar /\ LoopLeft => WalkEnds
  <2> SUFFICES ASSUME TypeOK, RoundSoFar, LoopLeft, ~Looping,
                      NEW a \in Row, NEW b \in Row, Hop(a, b, N) # NEXT_DISCON
               PROVE  FALSE
    BY DEF WalkEnds
  <2>0. N \in Nat /\ Row = 1..N
    BY NAssumption DEF Row
  <2>1. Descends([path |-> path, next |-> next], N)
    BY LoopEnd DEF Good, Descends
  <2>2. PICK f : Walk(f, a, b, N) /\ Hop(a, b, N) = f[N]
    BY <2>0, HopWalk
  <2>3. f[N] \in Row /\ \A p \in 0..(N - 1) : f[p] \in Row
    BY <2>0, <2>1, <2>2, WalkDescends
  <2>4. \A q \in 0..N : f[q] \in Row
    BY <2>0, <2>3
  <2>5. f \in [0..N -> Row]
    BY <2>2, <2>4 DEF Walk
  <2>6. \A q \in 0..N : f[q] # NEXT_DISCON
    BY <2>0, <2>4 DEF NEXT_DISCON
  <2>7. IsFiniteSet(0..N) /\ IsFiniteSet(Row) /\ Cardinality(Row) < Cardinality(0..N)
    <3>1. IsFiniteSet(0..N) /\ Cardinality(0..N) = IF 0 > N THEN 0 ELSE N - 0 + 1
      BY <2>0, FS_Interval
    <3>2. IsFiniteSet(1..N) /\ Cardinality(1..N) = IF 1 > N THEN 0 ELSE N - 1 + 1
      BY <2>0, FS_Interval
    <3> QED
      BY <2>0, <3>1, <3>2
  <2>8. PICK p, q \in 0..N : p # q /\ f[p] = f[q]
    BY <2>5, <2>7, FS_PigeonHole
  <2>9. PICK y, z \in 0..N : y < z /\ f[y] = f[z]
    BY <2>0, <2>8
  <2>10. Lower(f[z], f[y], b)
    <3>1. y \in 0..(z - 1)
      BY <2>0, <2>9
    <3> QED
      BY <3>1, <2>1, <2>2, <2>6, WalkDescends
  <2>11. path[f[z]][b] \in Int /\ next[f[z]][b] \in Int
    <3>1. path[f[z]][b] \in Weight /\ next[f[z]][b] \in Row \cup {NEXT_DISCON}
      BY <2>4 DEF TypeOK
    <3> QED
      BY <2>0, <3>1, PathMaxAssumption DEF Weight, NEXT_DISCON
  <2> QED
    BY <2>9, <2>10, <2>11 DEF Lower
<1> QED
  BY <1>1, RoundSoFarAlways, TypeCorrect, PTL
=============================================================================
