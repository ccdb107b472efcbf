SPECIFICATION Spec
CONSTANTS
  t1 = t1
  t2 = t2
  Threads <- MCThreads
  NoThread = NoThread
  NoBreaker = NoBreaker
  Configs <- MCConfigs
  MaxCalls = 2
  MaxFailures = 2
  MaxClock = 1
INVARIANTS
  ConfigInForce
  TripsCounted
  ConcurrentOpsMatch
  PeakSeen
  TotalsAgree
