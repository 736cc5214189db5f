SPECIFICATION Spec
CONSTANTS
  ClientCapacity = 1
  SurfaceCapacity = 1
  BufferCapacity = 2
  FrameCapacity = 2
  EventCapacity = 3
  MaxGeneration = 1
  MaxCommit = 3
  Token = {t1, t2}
  NoToken = NoToken
SYMMETRY TokenSymmetry
INVARIANTS TypeOK TokenInOnePlace OneShownCommit RefCountExact NoDanglingBuffer
PROPERTIES CallbacksSpec ReleaseAnnounced
CHECK_DEADLOCK FALSE
