SPECIFICATION FairSpec
CONSTANTS
  Microphones = {}
  Default = Default
  MaxGeneration = 3
  MaxEndpoints = 2
  Orderly = TRUE
INVARIANTS
  NoMixedAudio
  ActiveMeansRecording
  FailedMeansClosed
PROPERTIES
  KeepsBook
  StaleWatcherLeaves
  LostEndpointFailsMeeting
CHECK_DEADLOCK FALSE
