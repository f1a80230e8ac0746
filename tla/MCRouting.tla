------------------------------ MODULE MCRouting ------------------------------
(* Instances of Routing for TLC: link graphs with time stamps 1 and 2, whose *)
(* bytes compare the other way round, and round trip times 1 and 3 to match. *)
EXTENDS Routing, TLC

E(s, d, r, t) == [src |-> s, dst |-> d, rtt |-> r, ts |-> t]

\* All link graphs of at most one edge, doubled back or from this node too.
OneEdge ==
  {<<>>} \cup {<<E(s, d, 2 * t - 1, t)>> : s \in Mac, d \in Mac, t \in {1, 2}}

\* Two edges of another node, to one or to two hosts, with different round
\* trip times and time stamps, in every order.
TwoEdges ==
  UNION {{<<E(s, d, 2 * t - 1, t), E(s, e, 5 - 2 * t, 3 - t)>> :
            d \in Mac \ {s}, e \in Mac \ {s}, t \in {1, 2}} :
         s \in Mac \ {Local}}

SomePackets == OneEdge \cup TwoEdges

\* Peers are interchangeable.
Interchangeable == Permutations(Dp)
=============================================================================
