SPECIFICATION Spec
CONSTANTS
  Meetings = {m1, m2}
  Nothing = Nothing
  MaxConsecutive = 2
  MaxStarts = 3
  MaxAudio = 3
  MaxFaults = 0
INVARIANTS
  TranscriptOfItsMeeting
CHECK_DEADLOCK FALSE
