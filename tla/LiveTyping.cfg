CONSTANTS
  Letters <- MCLetters
  Capacity = 2
  Backends <- MCBackends
  Outputs <- MCOutputs
  PrivateFinals = FALSE
  MaxText = 2
  MaxLetters = 2
  MaxMessages = 2
SPECIFICATION Spec
CHECK_DEADLOCK FALSE
INVARIANTS
  SessionKnowsTheCursor
  CursorFollowsServer
PROPERTIES
  KeepsThePromise
  CancelTakesTheTextBack
  StopEndsTheStream
