SPECIFICATION Spec
CONSTANTS
  Providers = {deepgram, azure}
  Keys = {k1, k2}
  NoKey = NoKey
  NoRow = NoRow
  Torn = Torn
  Default = deepgram
  MaxLaunches = 3
  MaxSaves = 3
INVARIANTS
  ServesWhatWasTyped
  RowHasItsKey
PROPERTY
  RefusalSticks
CHECK_DEADLOCK FALSE
