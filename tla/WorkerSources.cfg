SPECIFICATION FairSpec
CONSTANTS
  MaxGeneration = 2
  MaxDelay = 2
  Reports = 3
INVARIANTS
  RetriesOnlyLost
  FailsItsOwn
PROPERTIES
  LostOnlyByStarted
  SourceReturns
CHECK_DEADLOCK FALSE
