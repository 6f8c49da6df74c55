SPECIFICATION Spec
CONSTANTS
  Garbage = Garbage
  LearnedEdge = {e1, skipped}
  Allowed = {e1}
  FlushThreshold = 2
  MaxRecords = 3
  MaxFlushFaults = 2
  Process = {main, other}
  Main = main
  MaxLines = 2
  MaxLogFaults = 1
INVARIANTS
  RepeatedFlushSafe
CHECK_DEADLOCK FALSE
