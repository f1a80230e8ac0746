SPECIFICATION FairSpec
CONSTANTS
  Dp = {d1, d2}
  Vnet = vnet
  Mac = {m1}
  Local = local
  Junk = junk
  Stray = stray
  Faults = {"nomem", "rekey", "mcast"}
INVARIANTS TypeOK DpgSound NoDanglingHost UsedPeersLive
PROPERTIES KeepsToDirectTable LinkComesBack
