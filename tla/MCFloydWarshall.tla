-------------------------- MODULE MCFloydWarshall --------------------------
(* Small instances of FloydWarshall for TLC. *)
EXTENDS FloydWarshall
=============================================================================
