SPECIFICATION LoadSpec
CONSTANTS
  c1 = c1
  c2 = c2
  t1 = t1
  t2 = t2
  shadow = shadow
  opacity = opacity
  NoToken = NoToken
  NoClient = NoClient
  Client = {c1, c2}
  SurfaceCapacity = 2
  FrameCapacity = 2
  EventCapacity = 4
  TimelineCapacity = 2
  MaxPerSurface = 2
  MaxPerClient = 2
  MaxGeneration = 1
  MaxCommit = 2
  Property = {opacity, shadow}
  Optional = {shadow}
  EffectToken = {t1, t2}
  FrameToken = {t2}
INVARIANT ReservationGraph
PROPERTIES LifecycleSpec TokenEndsWhileDisplayRuns
