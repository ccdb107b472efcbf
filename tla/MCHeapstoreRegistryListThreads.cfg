SPECIFICATION Spec
CONSTANTS
  t1 = t1
  t2 = t2
  id1 = id1
  id2 = id2
  id3 = id3
  val1 = val1
  val2 = val2
  Threads <- MCThreads
  Ids <- MCIds
  Values <- MCValues
  Inserts <- MCInserts
  MaxNodes = 3
  None = None
PROPERTIES
  InsertLosesNothing
