SPECIFICATION Spec
CONSTANTS
  Providers = {deepgram, azure}
  NoProvider = none
  Cap = 2
  Window = 2
  Backoff = 1
  MaxSaves = 2
  MaxProcesses = 6
  MaxTime = 5
INVARIANTS
  OneProcess
  StoppedMeansSilent
  StormBounded
PROPERTY
  MeetingServed
CHECK_DEADLOCK FALSE
