SPECIFICATION Spec
CONSTANTS
  TopicCount = 2
  FrameUnits = 2
  RingUnits = 3
  MaxPublish = 2
  MaxScans = 2
INVARIANTS
  TypeOK
  OneDuplicateAtMost
  RecordedIsComposed
  ScanOwnsPort
PROPERTY GroundCatchesUp
