SPECIFICATION Spec
CONSTANTS
  Sync0 = 5
  Sync1 = 6
  MaxPayload = 6
  SeqWrap = 2
  RxTopic = 1
  PayloadSize = 3
  Frames <- MCFrames
  Noise <- MCNoise
  MaxFrames = 4
  MaxFaults = 1
INVARIANTS
  TypeOK
  PublishedAsSent
  AgreesWithReference
  DamageIsLocal
  GapsAreHoles
CHECK_DEADLOCK FALSE
