SPECIFICATION FairSpec
CONSTANTS
  Meetings = {m1}
  Nothing = Nothing
  MaxConsecutive = 2
  MaxStarts = 1
  MaxAudio = 3
  MaxFaults = 4
INVARIANTS
  AudioGoesWhereItIsRead
PROPERTIES
  EndedTranscriptIsFinal
  FailsAfterBarrenResets
  EndFinalizes
  ReconnectingEnds
CHECK_DEADLOCK FALSE
