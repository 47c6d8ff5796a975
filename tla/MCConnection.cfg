SPECIFICATION FairSpec
CONSTANTS
  KeepAlive = 2
  MaxMessageHandlers = 5
  MaxFaults = 2
  MaxMessages = 1
  MaxSections = 1
  MaxWire = 2
INVARIANTS
  StopsOnlyFor
  DeafOnlyFor
  UnheardOnlyFor
PROPERTIES
  ClearedWhenSent
  Recovers
CHECK_DEADLOCK FALSE
