SPECIFICATION FairSpec
CONSTANTS
  t1 = t1
  t2 = t2
  i1 = i1
  i2 = i2
  i3 = i3
  i4 = i4
  a = a
  b = b
  c = c
  Threads <- MCThreads
  Items <- MCItems
  SessionIds <- MCSessionIds
  SessionId <- MCSessionId
  BatchSizes <- MCBatchSizes
  MaxItems = 2
  NoThread = NoThread
  NoItem = NoItem
INVARIANTS
  CountMatchesList
  ExactlyOnePlace
  OvershootBounded
PROPERTIES
  CommitTruthful
  CommitTerminates
