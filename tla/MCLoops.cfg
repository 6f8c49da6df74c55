SPECIFICATION Spec
CONSTANTS
  Node <- LoopNode
  Start = 0
  Halt = 6
  Kind <- LoopKind
  Reentrant = {5}
  Reads <- LoopWrites
  Writes <- LoopWrites
  Hop <- LoopHop
  Tables <- LoopTables
  EventNodes <- LoopEvents
  EventEdges <- LoopDeltas
  RingSize = 2
  ReceiptRingSize = 2
  MaxPar = 2
  StarTableSize = 1
  MaxBurst = 2
  MaxTotal = 7
  MaxFaults = 1
INVARIANTS
  FrontierJustified
PROPERTIES
  IssuedOnce
