SPECIFICATION Spec
CONSTANTS
  Stamps <- MCNearStamps
  Announced <- MCNearAnnounced
  Gap = 5
  Second = 2
  MaxBatch = 2
  Tolerated <- MCOneOfEach
INVARIANTS
  IndexSorted
  SpokenInOrder
  JobNamesNew
PROPERTIES
  JobClipFinal
CHECK_DEADLOCK FALSE
