SPECIFICATION FairSpec
CONSTANTS
  Docs <- MCDocs
  MaxInt = 99
PROPERTIES
  EveryMessageRead
CHECK_DEADLOCK FALSE
