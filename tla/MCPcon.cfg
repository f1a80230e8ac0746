SPECIFICATION Spec
CONSTANTS
  Thread = {t1, t2}
  Nobody = nobody
  Node = {11, 22}
  BYTE = 3
  EASE = 2
  InitSz = 1
  MaxTime = 3
  MaxBack = 1
  MaxAhead = 1
  Faults = {"nomem"}
SYMMETRY Interchangeable
INVARIANTS TypeOK SearchRight TableFits
PROPERTY Eased
