SPECIFICATION Spec
CONSTANTS
  MaxGeneration = 1
  MaxDelay = 2
  Reports = 1
INVARIANT LostMeansPending
CHECK_DEADLOCK FALSE
