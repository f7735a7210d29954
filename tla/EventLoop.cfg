CONSTANTS
  HoldThreshold <- MCHoldThreshold
  MaxDuration <- MCMaxDuration
  EvictEvery <- MCEvictEvery
  MaxEvents = 4
SPECIFICATION LoopSpec
PROPERTIES
  CancelIsSeen
  RecordingStopsAtItsLimit
