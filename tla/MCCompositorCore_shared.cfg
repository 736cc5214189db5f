SPECIFICATION LoadSpec
CONSTANTS
  ClientCapacity = 2
  SurfaceCapacity = 2
  BufferCapacity = 1
  FrameCapacity = 2
  EventCapacity = 4
  MaxGeneration = 2
  MaxCommit = 1
  Token = {t1}
  NoToken = NoToken
INVARIANTS AcceptedTokenHasRoom NoCrossClientBlocking OwnersLive
PROPERTIES TokenEndsByDelivery FrameEventuallyDone StaleForever DisconnectIsolated
CHECK_DEADLOCK FALSE
