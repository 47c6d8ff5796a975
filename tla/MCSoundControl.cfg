SPECIFICATION SoundFairSpec
CONSTANTS
  T = 3
  Takes <- MCTakes
INVARIANTS
  RememberedIsRunning
PROPERTIES
  RecordNeverOverPlayback
  ButtonsSettle
  PlaybackEnds
