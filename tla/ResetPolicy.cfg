SPECIFICATION PolicySpec
CONSTANTS
  Meetings = {m1}
  Nothing = Nothing
  MaxConsecutive = 2
  MaxStarts = 1
  MaxAudio = 0
  MaxFaults = 3
PROPERTY
  FailsWithinPolicy
CHECK_DEADLOCK FALSE
