CONSTANTS
  AudioAssets = {a1, a2, a3}
  Backgrounds = {b1}
  Jobs = {j1, j2, j3}
  Keys = {k1, k2}
  MaxRevision = 4
  Txs = {t1, t2, t3}
  None = None
SPECIFICATION TxSpec
SYMMETRY Symmetry
INVARIANTS
  ActiveIsLatest
  ActiveMatchesAudio
  RevisionsUnbroken
  EditsFollowTheirBase
  OneJobPerKey
  ConstraintsNeverFire
  ReadyFollowsSources
PROPERTIES
  ImplementsStore
