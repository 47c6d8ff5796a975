SPECIFICATION FairSpec
CONSTANTS
  Buttons = {"button_0"}
  Sliders = {"slider_0"}
  KeyOrder <- MCKeyOrder
  Resend = 1
  MaxChanges = 2
  MaxInFlight = 2
INVARIANTS
  OnlyChosen
  QuietDeviceAgrees
PROPERTIES
  Settles
CHECK_DEADLOCK FALSE
