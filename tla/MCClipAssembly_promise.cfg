SPECIFICATION FairSpec
CONSTANTS
  Stamps <- MCFarStamps
  Announced <- MCFarAnnounced
  Gap = 5
  Second = 2
  MaxBatch = 2
  Tolerated <- MCNoFaults
PROPERTIES
  KeepsPromise
  CompleteIsTranscribed
CHECK_DEADLOCK FALSE
