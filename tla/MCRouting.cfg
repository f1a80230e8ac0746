SPECIFICATION Spec
CONSTANTS
  Mac = {1, 2, 3}
  Local = 2
  Dp = {d1, d2}
  NoDp = NoDp
  Rtts = {0, 1, 3}
  PATH_MAX = 5
  BYTE = 2
  Packets <- SomePackets
SYMMETRY Interchangeable
INVARIANTS TypeOK DirectIffLinked CacheFresh RecomputeAlone ForwardsToDirect
PROPERTIES LinksResolve NoOldLinksBack ImplementsDirectTable DirectStays
\* A table that trimming broke is the end.
CHECK_DEADLOCK FALSE
