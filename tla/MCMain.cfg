SPECIFICATION Spec
CONSTANTS
  Conn = {c1, c2, c3, c4}
  MaxFd = 5
  Faults = {"tun", "config", "nomem", "thread"}
SYMMETRY Interchangeable
\* The process may exit, and connections are used once.
CHECK_DEADLOCK FALSE
INVARIANTS TypeOK OwnDescriptors LeaksKnown
