CONSTANTS
  Keys <- MCKeys
  TargetKey = "target"
  ModifierSets <- MCModifierSets
  CancelKey = "cancel"
  ModelModifier = "shift"
  ProfileKeys <- MCProfileKeys
  None = none
  Capacity = 1
  MaxStrokes = 3
  MaxDisturbances = 1
SPECIFICATION Spec
CHECK_DEADLOCK FALSE
INVARIANTS
  NoPhantomKeys
  BareHotkeyIsFollowed
PROPERTIES
  CapturedKeysStartNothing
