SPECIFICATION Spec
CONSTANTS
  N = 3
  PATH_MAX = 5
  Rtts = {1, 2, 5}
INVARIANTS
  TypeOK ConnectedIffLinked NextIsALinkedHop WalkEnds NoShortcuts
  LoopIsComputePaths
