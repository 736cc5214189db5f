SPECIFICATION FairSpec
CONSTANTS
  QueueBound = 2
  MaxRecoveries = 3
  PacketFrames = {1, 2}
  MaxSamples = 3
  MaxFrame = 3
  MaxSample = 5
INVARIANTS PacketsReturned SystemBalanced NewestFrame BlockContiguous
PROPERTY ReadEnds
