CONSTANTS
  Job = job
  Limit = 2
  MaxEvents = 5
  MaxId = 7
  Resuming = TRUE
SPECIFICATION FairSpec
INVARIANTS
  ReceivedIsPrefix
  NoLateEvent
  EndMeansComplete
  StreamsEnd
PROPERTIES
  LearnsOutcome
CHECK_DEADLOCK FALSE
