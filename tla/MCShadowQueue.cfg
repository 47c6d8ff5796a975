SPECIFICATION FairSpec
CONSTANTS
  Names <- MCNames
  MaxSem = 5
  MaxUpdates = 3
  MaxLength = 7
INVARIANTS
  TokenExists
  FirstAttemptComplete
PROPERTIES
  KeepsUpdates
  CycleTurns
  ShadowConverges
CHECK_DEADLOCK FALSE
