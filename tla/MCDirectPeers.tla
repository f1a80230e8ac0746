---------------------------- MODULE MCDirectPeers ----------------------------
(* Instances of DirectPeers for TLC. *)
EXTENDS DirectPeers
=============================================================================
