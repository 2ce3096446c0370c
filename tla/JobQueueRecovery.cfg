CONSTANTS
  w1 = w1
  w2 = w2
  Jobs = {j1}
  Times = {1}
  Workers = {w1, w2}
  Queues <- EqualQueues
  OneShot <- NoOneShot
  None = None
SPECIFICATION SupervisedSpec
PROPERTIES
  AbandonedWorkIsRecovered
