SPECIFICATION LoadSpec
CONSTANTS
  ClientCapacity = 2
  TargetCapacity = 2
  EventCapacity = 4
  MaxEventsPerClient = 4
  MaxTouches = 1
  MaxShortcuts = 1
  MaxGeneration = 2
  MaxEpoch = 3
  MaxRevision = 3
  Key = {1}
  Button = {1, 2}
  TouchId = {1}
  ShortcutId = {1}
  TextMode = {"NORMAL"}
  FeatureSets = {
    {"POINTER", "KEYBOARD", "IME"},
    {"TOUCH", "STYLUS"},
    {"KEYBOARD", "SHORTCUTS"}}
INVARIANTS SeatConsistent Reservations ReleaseNeverBlocked
PROPERTIES EventsTellTheState TextMovesForward
CHECK_DEADLOCK FALSE
