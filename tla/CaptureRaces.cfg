SPECIFICATION Spec
CONSTANTS
  Microphones = {usb}
  Default = Default
  MaxGeneration = 2
  MaxEndpoints = 2
  Orderly = FALSE
INVARIANTS
  IdleMeansClosed
  PausedMeansSilent
  EndedForGood
  CapturesSelection
CHECK_DEADLOCK FALSE
