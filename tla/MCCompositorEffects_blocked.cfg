SPECIFICATION Spec
CONSTANTS
  c1 = c1
  c2 = c2
  t1 = t1
  t2 = t2
  shadow = shadow
  opacity = opacity
  NoToken = NoToken
  NoClient = NoClient
  Client = {c1, c2}
  SurfaceCapacity = 2
  FrameCapacity = 2
  EventCapacity = 4
  TimelineCapacity = 1
  MaxPerSurface = 2
  MaxPerClient = 2
  MaxGeneration = 1
  MaxCommit = 1
  Property = {opacity}
  Optional = {}
  EffectToken = {t1}
  FrameToken = {t2}
INVARIANT PresentDoneHasRoom
