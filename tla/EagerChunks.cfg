CONSTANTS
  Configs <- MCConfigs
  MaxSpoken = 5
SPECIFICATION EagerSpec
CHECK_DEADLOCK FALSE
INVARIANTS
  EveryChunkOnce
  TextIsWhatWasHeard
  NoAudioIsSkipped
  NoWordIsDoubled
