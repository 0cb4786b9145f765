SPECIFICATION Spec
CONSTANTS
  Motors = {m1}
  AutolevelDiv = 2
  BackgroundDiv = 3
  PublishDiv = 1
  StaleTimeout = 0
  Lockstep = FALSE
INVARIANTS
  TypeOK
  MemoryOfThisFlight
  LevelSetpointFresh
  PredictionWindow
  ZeroedAttitudeBounded
  EstimatorReseeded
PROPERTIES
  SpinNeedsLowThrottle
