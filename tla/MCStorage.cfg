SPECIFICATION Spec
CONSTANTS
  Garbage = Garbage
  LearnedEdge = {e1, skipped}
  Allowed = {e1}
  FlushThreshold = 2
  MaxRecords = 3
  MaxFlushFaults = 2
  Process = {main, other}
  Main = main
  MaxLines = 3
  MaxLogFaults = 1
INVARIANTS
  LatestLoaded
  RecordsNumbered
  Inv
\* A process does not start on a file it cannot read.
CHECK_DEADLOCK FALSE
