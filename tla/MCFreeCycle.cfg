SPECIFICATION Spec
CONSTANTS
  Topologies <- MixedCycle
  RequiredGates <- MCRequired
  Cutset <- MCCutset
  ExecuteFinished = "finished"
  Commit = "commit"
  Bound <- MCBound
  Speaking <- MCSpeaking
  Capacity = 5
  Unset = Unset
INVARIANTS
  FreeCyclesReported
CHECK_DEADLOCK FALSE
