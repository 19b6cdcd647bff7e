SPECIFICATION Spec
CONSTANTS
  Tick = 2
  MaxBuffered = 2
  Target = 6
  Rates = {4, 9}
  SystemSizes = {2}
  NativeSizes = {2, 5}
  MaxTime = 10
  MaxLead = 2
  MaxWaiting = 2
INVARIANTS
  InStep
  BoundedShift
  StreamedIsRecorded
CHECK_DEADLOCK FALSE
