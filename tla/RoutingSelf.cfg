SPECIFICATION Spec
CONSTANTS
  Mac = {1, 2, 3}
  Local = 2
  Dp = {d1}
  NoDp = NoDp
  Rtts = {1, 3}
  PATH_MAX = 5
  BYTE = 2
  Packets <- SomePackets
INVARIANT ForwardsOnlyToPeers
\* A table that trimming broke is the end.
CHECK_DEADLOCK FALSE
