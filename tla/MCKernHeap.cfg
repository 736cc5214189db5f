SPECIFICATION Spec
CONSTANTS
  Align = 4
  HeaderSize = 8
  MaxWord = 63
  Region <- MCRegion
  Request = {0, 1, 5, 16, 63}
INVARIANTS HeapTiled FreeListSound NothingLost
PROPERTY AllocatorSpec
CHECK_DEADLOCK FALSE
