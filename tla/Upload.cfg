CONSTANTS
  Uploads = {u1, u2}
  MaxBytes = 2
  MaxDuration = 1
  MaxFields = 3
SPECIFICATION Spec
INVARIANTS
  AssetHasBytes
  RecordedIsWhatWasSent
  OrphansAreExplained
CHECK_DEADLOCK FALSE
