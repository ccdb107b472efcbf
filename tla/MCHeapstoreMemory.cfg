SPECIFICATION Spec
CONSTANTS
  t1 = t1
  t2 = t2
  id1 = id1
  id2 = id2
  low = low
  high = high
  Threads <- MCThreads
  Ids <- MCIds
  Usages <- MCUsages
  MaxPools = 2
  MaxAllocations = 1
  NoThread = NoThread
  NoRecord = NoRecord
INVARIANTS
  TableIsAcknowledged
PROPERTIES
  AnswersTruthful
