SPECIFICATION Spec
CONSTANTS
  Names <- MCNames
  MaxSem = 3
  MaxUpdates = 3
  MaxLength = 5
INVARIANTS
  RetryWellFormed
CHECK_DEADLOCK FALSE
