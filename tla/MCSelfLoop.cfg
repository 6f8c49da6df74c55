SPECIFICATION Spec
CONSTANTS
  Node <- MCNode
  Start = 0
  Halt = 4
  Kind <- MCKind
  Reentrant = {}
  Reads <- MCReads
  Writes <- MCWrites
  Hop <- MCHop
  Tables <- SelfLoopTables
  EventNodes = {}
  EventEdges = {}
  RingSize = 2
  ReceiptRingSize = 2
  MaxPar = 2
  StarTableSize = 3
  MaxBurst = 2
  MaxTotal = 6
  MaxFaults = 0
INVARIANTS
  DrainSettlesAll
