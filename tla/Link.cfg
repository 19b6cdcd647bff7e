SPECIFICATION FairSpec
CONSTANTS
  Sessions = {m1, m2}
  Nothing = Nothing
  FrameUnits = 2
  Capacity = 1
  BaseDelay = 1
  DelayCeiling = 2
  ChunkSizes = {1, 4}
  MaxCalls = 4
  MaxFaults = 2
  EndpointDies = TRUE
INVARIANTS
  BacklogFirst
  HeardInItsMeeting
  LosslessWithoutFault
PROPERTIES
  ImplementsStream
  StartAnswered
  BacklogFlushed
  OrphanReturns
CHECK_DEADLOCK FALSE
