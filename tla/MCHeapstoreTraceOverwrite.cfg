SPECIFICATION FairSpec
CONSTANTS
  t1 = t1
  t2 = t2
  s1 = s1
  s2 = s2
  s3 = s3
  s4 = s4
  Threads <- MCThreads
  Spans <- MCSpans
  HasAttributes <- MCHasAttributes
  Batches <- MCBatches
  MaxSpans = 2
  MaxClock = 1
  NoThread = NoThread
  NoSpan = NoSpan
PROPERTIES
  ExportsSurviveFlush
