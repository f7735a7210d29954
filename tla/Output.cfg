CONSTANTS
  Configs <- MCConfigs
  Text <- MCText
SPECIFICATION Spec
CHECK_DEADLOCK FALSE
INVARIANTS
  TextArrivesOnce
  NoKeysAfterTimeout
  ClipboardIsLeftRight
