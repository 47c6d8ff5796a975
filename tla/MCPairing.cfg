SPECIFICATION FairSpec
CONSTANTS
  Apps <- MCApps
  MaxCodes = 2
  MaxPasscodes = 2
  MaxTrouble = 1
  MaxInFlight = 2
INVARIANTS
  QuietOwner
  FirstComeServed
  Prompts
PROPERTIES
  LoneAppPairs
CHECK_DEADLOCK FALSE
