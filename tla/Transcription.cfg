CONSTANTS
  Jobs = {j1, j2}
  Workers = {w1, w2}
  AudioAssets = {a1, a2}
  Backgrounds = {b1}
  Keys = {k1, k2}
  MaxRevision = 3
  None = None
SPECIFICATION Spec
SYMMETRY Symmetry
INVARIANTS
  SucceededHasRevision
  WorkspacesAreExplained
PROPERTIES
  OnlyOwnersActivate
