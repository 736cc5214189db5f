SPECIFICATION TreeSpec
CONSTANTS
  ClientCapacity = 1
  TargetCapacity = 1
  EventCapacity = 1
  MaxEventsPerClient = 1
  MaxTouches = 0
  MaxShortcuts = 0
  MaxGeneration = 1
  MaxEpoch = 1
  MaxRevision = 1
  Key = {}
  Button = {}
  TouchId = {}
  ShortcutId = {}
  TextMode = {"NONE"}
  FeatureSets = {{"ACCESSIBILITY"}}
  NodeCapacity = 4
  MaxDepth = 2
  MaxRelations = 0
INVARIANT DepthBounded
CHECK_DEADLOCK FALSE
