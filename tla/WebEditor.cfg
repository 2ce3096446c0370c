CONSTANTS
  AudioAssets = {a1, a2}
  Backgrounds = {}
  Jobs = {j1, j2}
  Keys = {k1, k2}
  MaxRevision = 3
  None = None
  Calls = {c1, c2}
  MaxEdits = 1
SPECIFICATION Spec
SYMMETRY Symmetry
INVARIANTS
  OverwritesAreExplained
  
