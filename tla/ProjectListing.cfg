CONSTANTS
  N = 4
  Writes = {w1, w2}
  Limits = {1, 2}
  MaxTime = 3
SPECIFICATION Spec
INVARIANTS
  ErrorsAreBounded
  PatchesMerge
PROPERTIES
  SkipsAreExplained
CHECK_DEADLOCK FALSE
