SPECIFICATION FairSpec
CONSTANTS
  SlotCount = 2
  QueueMax = 3
  TextPlaces = {"line_2"}
  SliderValues <- MCSliderValues
  MaxCalls = 3
INVARIANTS
  OwnText
  ControlShown
  TimedTextGoes
PROPERTIES
  SlotsComeBack
CHECK_DEADLOCK FALSE
