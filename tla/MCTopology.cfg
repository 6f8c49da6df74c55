SPECIFICATION Spec
CONSTANTS
  Topologies <- MCTopologies
  RequiredGates <- MCRequired
  Cutset <- MCCutset
  ExecuteFinished = "finished"
  Commit = "commit"
  Bound <- MCBound
  Speaking <- MCSpeaking
  Capacity = 5
  Unset = Unset
INVARIANTS
  Inv
  DominanceExact
  CutsetExact
  ComponentsExact
  AcceptedCanHalt
PROPERTIES
  Terminates
CHECK_DEADLOCK FALSE
