SPECIFICATION FairSpec
CONSTANTS
  Slot <- MCSlot
  Accepted <- MCAccepted
  MaxUploadFaults = 1
  Event <- MCEvent
  Yields <- MCYields
  IsDelta <- MCDelta
  Malformed <- MCMalformed
  SourceFeeds <- MCSourceFeeds
  BridgeFeeds <- MCBridgeFeeds
  RawCapacity = 2
  UpdateCapacity = 2
  DeltaCapacity = 1
  MaxBatchSize = 2
  Retries = 2
INVARIANTS
  Inv
  SlotsFollowUpdates
  AcceptedEventsNormalized
  AnsweredOrSuperseded
PROPERTIES
  DropCompletes
\* The pipeline stops once its workers are dropped.
CHECK_DEADLOCK FALSE
