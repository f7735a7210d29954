CONSTANTS
  Configs <- DaemonConfigs
  MaxRecordings = 3
SPECIFICATION FairSpec
INVARIANTS
  StateMeansWhatItSays
  OutputIsOwnAudio
  DiscardedIsNeverOutput
  MediaResumes
  StreamIsThisRecording
  RecordingHasItsMic
  IdleIsClean
PROPERTIES
  OverridesEndWithTheRecording
  RecordingEnds
