CONSTANTS
  Job = job
  Limit = 2
  MaxEvents = 5
  MaxId = 7
  Resuming = FALSE
SPECIFICATION FairSpec
PROPERTIES
  LearnsOutcome
CHECK_DEADLOCK FALSE
