CONSTANTS
  MaxSamples = 4
  ChunkSizes <- MCChunkSizes
  SamplesPerFrame = 2
  ChunkCapacity = 1
  FrameCapacity = 1
  QueueDepth = 1
  MaxGets = 1
  MaxFaults = 2
SPECIFICATION Spec
CHECK_DEADLOCK FALSE
INVARIANTS
  SamplesComeOnce
  SubscriberMissesNothing
PROPERTIES
  HubHeals
