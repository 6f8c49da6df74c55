SPECIFICATION DSpec
CONSTANTS
  N = 4
  Start = 0
  Halt = 3
  Tensors <- MCTensors
  ReceiptSlots = 2
  HotReceipts <- MCHotReceipts
  JitEdges <- MCJitEdges
  MaxReceipts = 3
  GroupTables <- MCGroupTables
  MaxGroup = 2
  RegionCount = 9
  Handled <- MCHandled
  Strategies <- MCStrategies
  LocksOf <- MCLocksOf
  LockRules <- MCLockRules
  MaxTokens = 5
  BeamWidth = 2
  MaxDepth = 2
  MaxTerminal = 1
  MaxFirstHop = 1
  MaxRounds = 2
  MaxFaults = 1
  MaxTensorCalls = 1
INVARIANTS DInv ReceiptsAppliedOnce MemberRunsOnce CandidatesAreWalks
PROPERTY ParTakesUnspent
CHECK_DEADLOCK FALSE
