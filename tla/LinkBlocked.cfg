SPECIFICATION FairSpec
CONSTANTS
  Node = {a, b}
  Taps = {a, b}
  Cap = 4
  Slow = {}
  LinkMult = 2
  Leaving = {}
  Crashing = {}
  Stray = {"returns"}
PROPERTY ComesBack
CHECK_DEADLOCK FALSE
