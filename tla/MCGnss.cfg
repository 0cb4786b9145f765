SPECIFICATION Spec
CONSTANTS
  Sync1 = 5
  Sync2 = 6
  NavPvt = 3
  PvtLen = 2
  MaxPayload = 3
  RingSize = 8
  FifoRead = 8
  BatchSize = 4
  Pvts <- MCPvts
  Frames <- MCFrames
  Noise <- MCNoise
  MaxFrames = 3
  MaxFaults = 1
INVARIANTS
  TypeOK
  PublishedAsSent
  FixAsReported
  DamageBounded
PROPERTY
  RingDrains
CHECK_DEADLOCK FALSE
