SPECIFICATION Spec
CONSTANTS
  t1 = t1
  t2 = t2
  NoThread = NoThread
  Threads <- MCThreads
  MaxDays = 2
  Requests <- MCRequests
SYMMETRY MCSymmetry
INVARIANTS
  EnginesFollowFlag
  SuccessMeansServing
  FacadeServes
  CleanupHonest
