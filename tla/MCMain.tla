------------------------------- MODULE MCMain -------------------------------
(* Instances of Main for TLC. *)
EXTENDS Main, TLC

\* Connections are interchangeable.
Interchangeable == Permutations(Conn)
=============================================================================
