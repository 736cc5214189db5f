SPECIFICATION LoadSpec
CONSTANTS
  ClientCapacity = 2
  TargetCapacity = 2
  EventCapacity = 1
  MaxEventsPerClient = 1
  MaxTouches = 0
  MaxShortcuts = 0
  MaxGeneration = 2
  MaxEpoch = 1
  MaxRevision = 1
  Key = {}
  Button = {}
  TouchId = {}
  ShortcutId = {}
  TextMode = {"NONE"}
  FeatureSets = {{"ACCESSIBILITY", "AUTOMATION"}}
  NodeCapacity = 3
  MaxDepth = 2
  MaxRelations = 1
INVARIANTS EdgesInside OneRootedTree
CHECK_DEADLOCK FALSE
