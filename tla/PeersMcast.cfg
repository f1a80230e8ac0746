SPECIFICATION Spec
CONSTANTS
  Dp = {d1, d2}
  Vnet = vnet
  Mac = {m1, m2}
  Local = local
  Junk = junk
  Stray = stray
  Faults = {"mcast"}
INVARIANTS HeldWhileUsed
