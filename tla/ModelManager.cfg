CONSTANTS
  base = base
  large = large
  medium = medium
  unknown = unknown
  Models <- MCModels
  Available <- MCAvailable
  Primary <- MCPrimary
  MaxLoaded = 2
  MaxRecordings = 3
  MaxChunks = 1
SPECIFICATION Spec
CHECK_DEADLOCK FALSE
SYMMETRY MCSymmetry
INVARIANTS
  CacheKeepsThePrimary
  RecordingGetsItsModel
  EagerModelIsCurrent
  NoSecondWorker
