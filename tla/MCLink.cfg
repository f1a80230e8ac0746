SPECIFICATION FairSpec
CONSTANTS
  Node = {a, b}
  Taps = {a}
  Cap = 4
  Slow = {a}
  LinkMult = 2
  Leaving = {a}
  Crashing = {a, b}
  Stray = {"returns", "hangs"}
CHECK_DEADLOCK FALSE
INVARIANT TypeOK
PROPERTIES ComesBackIfRead RttMeasured CrashNoticed
