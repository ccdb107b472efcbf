SPECIFICATION Spec
CONSTANTS
  w1 = w1
  w2 = w2
  m = m
  ipc = ipc
  gateway = gateway
  a = a
  b = b
  c = c
  Writers <- MCWriters
  Cleaners <- MCCleaners
  NoThread = NoThread
  Services <- MCServices
  NoService = NoService
  MaxServices = 1
  Lines <- MCLines
  ServiceOf <- MCServiceOf
  LevelOf <- MCLevelOf
  Levels = {1}
  Keep = 1
  MaxClock = 2
  Main = Main
  NoFile = NoFile
  Closed = Closed
  Unlinked = Unlinked
SYMMETRY Symmetry
INVARIANTS
  LinesConserved
  HandlesMatch
  Chronological
PROPERTIES
  OnlyExpiredRemoved
