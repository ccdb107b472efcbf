SPECIFICATION Spec
CONSTANTS
  t1 = t1
  t2 = t2
  id1 = id1
  id2 = id2
  val1 = val1
  val2 = val2
  Threads <- MCThreads
  Ids <- MCIds
  Values <- MCValues
  Batches <- MCBatches
  CommitOutcomes = {"committed", "rolled_back"}
  Readers <- MCReaders
  NoThread = NoThread
  NoRow = NoRow
INVARIANTS
  NoOpenTransaction
PROPERTIES
  ImplementsRegistry

