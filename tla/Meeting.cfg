CONSTANTS
  Setups <- MeetingSetups
  ChunkLen = 2
  Capacity = 8
  MaxClock = 4
  MaxMeetings = 2
SPECIFICATION FairSpec
INVARIANTS
  StampsFollowTheMic
  SourcesAreAligned
  PublishedStateIsCurrent
PROPERTIES
  StopFlushesTheMic
  StopIsCarriedOut
