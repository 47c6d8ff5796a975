SPECIFICATION FairSpec
CONSTANTS
  Pads = {"button_0"}
  Slider = "slider_0"
  Nowhere = 99
  Widgets <- MCWidgets
  Positions = {0, 1}
  LoopMs = 3
  SensorReadMs = 2
  Flash = 60
  Shadow = 40
  Threshold = 50
  Near = 20
  MaxTouches = 3
  MaxOutside = 2
  MaxResets = 1
INVARIANTS
  FlipsAreTaps
PROPERTIES
  TouchHeard
  MailTold
