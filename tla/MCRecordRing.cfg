SPECIFICATION FairSpec
CONSTANTS
  S = 3
  T = 12
  MaxPos = 15
  MaxSent = 6
INVARIANTS
  TakeIsFresh
  StreamedAsAnnounced
PROPERTIES
  SavedTakeSurvives
  StreamSettles
  WaitingStreamWorked
