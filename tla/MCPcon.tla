------------------------------- MODULE MCPcon -------------------------------
(* Instances of Pcon for TLC: addresses of two digits in base 3. *)
EXTENDS Pcon, TLC

\* Threads are interchangeable.
Interchangeable == Permutations(Thread)
=============================================================================
