CONSTANTS
  w1 = w1
  w2 = w2
  Jobs = {j1, j2}
  Times = {1, 2}
  Workers = {w1, w2}
  Queues <- MixedQueues
  OneShot <- MixedOneShot
  None = None
SPECIFICATION FairSpec
INVARIANTS
  LogFollowsPipeline
  LastEventIsRow
  OneWorkerPerJob
  AttemptsWereQueued
PROPERTIES
  TerminalIsFinal
  ImplementsFeed
  SettledOrAbandoned
  QueuedIsClaimed
