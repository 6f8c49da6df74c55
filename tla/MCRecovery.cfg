SPECIFICATION RSpec
CONSTANTS
  Node <- MCNode
  Start = 0
  Halt = 4
  Kind <- MCKind
  Reentrant = {}
  Reads <- MCNone
  Writes <- MCNone
  Hop <- MCHop
  Tables <- MCTables
  EventNodes = {}
  EventEdges = {}
  RingSize = 2
  ReceiptRingSize = 2
  MaxPar = 3
  StarTableSize = 3
  MaxBurst = 2
  MaxTotal = 2
  MaxFaults = 1
  Budgets <- MCBudgets
  DeltaRingSize = 1
  TraceRingSize = 1
  MaxCalls = 3
INVARIANTS
  RTypeOK
  TicketsUnique
  DebtSurvivesReplay
  AuditsPass
  StarBounded
PROPERTIES
  HaltHolds
