CONSTANTS
  Transcripts <- ThreeWords
  WordCount = 3
  Duration = 8
  Nudge = 4
  Unit = 2
  MaxCommands = 3
SPECIFICATION TimelineSpec
INVARIANTS
  ValidatorsAgree
  AcceptedIsPlayable
  WordsAreKept
PROPERTIES
  StructureIsSafe
  NudgeIsRigid
CHECK_DEADLOCK FALSE
