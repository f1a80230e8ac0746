------------------------------- MODULE Paths -------------------------------
(***************************************************************************)
(* The arithmetic of compute_paths (routing.c): the adjacency matrix, one  *)
(* relaxation of its Floyd-Warshall loop, and the loop as a whole.         *)
(*                                                                         *)
(* Hosts are row numbers 1..n of the sorted host array (the code counts    *)
(* from 0); a matrix is a function of a row and a column.  Weights are uint32_t *)
(* in the code: PATH_MAX stands for UINT32_MAX and sums wrap modulo        *)
(* PATH_MAX + 1.                                                           *)
(***************************************************************************)
EXTENDS Integers

CONSTANT PATH_MAX

ASSUME PathMaxAssumption == PATH_MAX \in Nat /\ PATH_MAX >= 2

PATH_DISCON == 0
PATH_MIN == 1

\* SIZE_MAX in the code; 0 is no row here.
NEXT_DISCON == 0

Weight == 0..PATH_MAX

\* A faulty variant of PathSum: the sum as it wraps, without the saturation.
PathSumWraps(a, b) ==
  ((a + b) % (PATH_MAX + 1)) - (IF a = 1 /\ b = 1 THEN 1 ELSE 0)

(***************************************************************************)
(* The length of a path made of two known legs: the wrapping sum, less one *)
(* when both legs have length 1 (the "len hack"), saturated on overflow.   *)
(***************************************************************************)
PathSum(a, b) ==
  LET x == ((a + b) % (PATH_MAX + 1)) - (IF a = 1 /\ b = 1 THEN 1 ELSE 0)
  IN  IF x < a \/ x < b THEN PATH_MAX ELSE x

\* Faulty variants of Better: without the test for disconnected legs, and
\* taking ties.
BetterNoSkip(path, k, i, j) ==
  PathSum(path[i][k], path[k][j]) < path[i][j]

BetterOrEqual(path, k, i, j) ==
  /\ path[i][k] # PATH_DISCON
  /\ path[k][j] # PATH_DISCON
  /\ PathSum(path[i][k], path[k][j]) <= path[i][j]

\* Going through k is taken only if it is shorter than the known entry.
Better(path, k, i, j) ==
  /\ path[i][k] # PATH_DISCON
  /\ path[k][j] # PATH_DISCON
  /\ PathSum(path[i][k], path[k][j]) < path[i][j]

\* A faulty variant of Relax: the row counted from 1 too often.
RelaxOffByOne(m, k, i, j) ==
  IF Better(m.path, k, i, j)
  THEN [path |-> [m.path EXCEPT ![i][j] = PathSum(m.path[i][k], m.path[k][j])],
        next |-> [m.next EXCEPT ![i][j] = k + 1]]
  ELSE m

\* The body of the triple loop, on a pair of matrices.
Relax(m, k, i, j) ==
  IF Better(m.path, k, i, j)
  THEN [path |-> [m.path EXCEPT ![i][j] = PathSum(m.path[i][k], m.path[k][j])],
        next |-> [m.next EXCEPT ![i][j] = k]]
  ELSE m

\* The matrices before the triple loop; link[i][j] is the rtt of the link
\* from i to j, or PATH_DISCON.
Adjacency(link) ==
  [path |-> [r \in DOMAIN link |-> [link[r] EXCEPT ![r] = PATH_MIN]],
   next |-> [r \in DOMAIN link |-> [c \in DOMAIN link |-> NEXT_DISCON]]]

\* A faulty variant of Round: the row counted from 1 too often.
RoundOffByOne(m, k) ==
  LET taken == [i \in DOMAIN m.path |->
                 {j \in DOMAIN m.path : Better(m.path, k, i, j)}]
  IN  [path |-> [i \in DOMAIN m.path |-> [j \in DOMAIN m.path |->
                  IF j \in taken[i] THEN PathSum(m.path[i][k], m.path[k][j])
                                    ELSE m.path[i][j]]],
       next |-> [i \in DOMAIN m.path |-> [j \in DOMAIN m.path |->
                  IF j \in taken[i] THEN k + 1 ELSE m.next[i][j]]]]

(***************************************************************************)
(* The whole of compute_paths for n hosts.  The body for one k never       *)
(* changes row k or column k (RoundKeepsCross in PathsProofs), so that all *)
(* the entries of one round can be computed from the round before.         *)
(***************************************************************************)
Round(m, k) ==
  LET taken == [i \in DOMAIN m.path |->
                 {j \in DOMAIN m.path : Better(m.path, k, i, j)}]
  IN  [path |-> [i \in DOMAIN m.path |-> [j \in DOMAIN m.path |->
                  IF j \in taken[i] THEN PathSum(m.path[i][k], m.path[k][j])
                                    ELSE m.path[i][j]]],
       next |-> [i \in DOMAIN m.path |-> [j \in DOMAIN m.path |->
                  IF j \in taken[i] THEN k ELSE m.next[i][j]]]]

ComputePaths(n, link) ==
  LET after[k \in 0..n] ==
        IF k = 0 THEN Adjacency(link) ELSE Round(after[k - 1], k)
  IN  after[n]
=============================================================================
