SPECIFICATION FairSpec
CONSTANTS
  Node <- MCNode
  Start = 0
  Halt = 4
  Kind <- MCKind
  Reentrant = {}
  Reads <- MCReads
  Writes <- MCWrites
  Hop <- MCHop
  Tables <- OneShotTables
  EventNodes = {}
  EventEdges = {}
  RingSize = 2
  ReceiptRingSize = 2
  MaxPar = 2
  StarTableSize = 3
  MaxBurst = 2
  MaxTotal = 0
  MaxFaults = 0
INVARIANTS
  TypeOK
  Handover
  InFlightIndependent
PROPERTIES
  Rounds
  OutstandingSettles
  Termination
