----------------------------- MODULE DirectTable -----------------------------
(***************************************************************************)
(* What the routing table promises to the direct peers (routing.h): for    *)
(* each remote address at most one dp_t that the table points into, set    *)
(* when rt_dhost_add_link finds none and dropped by rt_dhost_remove, one   *)
(* address at a time.  Nothing else (link graphs received from others,     *)
(* trimming, path computation) ever sets, drops or exchanges one.          *)
(***************************************************************************)
CONSTANTS Mac, Dp, NoDp

VARIABLE owner

Init == owner = [m \in Mac |-> NoDp]

Add(m, d) ==
  /\ owner[m] = NoDp
  /\ owner' = [owner EXCEPT ![m] = d]

Remove(m) ==
  /\ owner[m] # NoDp
  /\ owner' = [owner EXCEPT ![m] = NoDp]

Next == \E m \in Mac : Remove(m) \/ \E d \in Dp : Add(m, d)

Spec == Init /\ [][Next]_owner
=============================================================================
