CONSTANTS
  MaxBytes = 5
  MaxHeader = 7
  ChunkSize = 2
SPECIFICATION Spec
INVARIANTS
  AnswersWhatIsAsked
  CompleteIsAll
CHECK_DEADLOCK FALSE
