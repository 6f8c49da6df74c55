SPECIFICATION Spec
CONSTANTS
  Sources <- MCSources
  Edits <- MCEdits
  Operators <- MCOperators
  OperatorNodes <- MCOperatorNodes
  AgentNodes <- MCAgentNodes
  Symbolic <- MCSymbolic
  Observed <- MCObserved
  StaticHandlers <- MCStaticHandlers
  FirstGenerated = 8
  Whole = 4
  Infinity = 9
  MaxBuilds = 2
  MaxNesting = 3
  Absent = Absent
  Torn = Torn
INVARIANTS
  Inv
  BuildCoherent
  ControlAgrees
  ParIndependent
  FusedOnce
  FusedTouchTensors
  WeightsObeyLayers
\* A build that is done, with no builds left.
CHECK_DEADLOCK FALSE
