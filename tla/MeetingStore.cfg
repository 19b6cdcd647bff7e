SPECIFICATION Spec
CONSTANTS
  Capacity = 2
  MaxConsecutive = 1
  MaxSessions = 2
  MaxStreams = 3
  MaxRuns = 2
  MaxTime = 3
  MaxDeletions = 1
INVARIANTS
  LaterSessionsFollow
  StaleIsDeleted
  DeletedStaysDeleted
CHECK_DEADLOCK FALSE
