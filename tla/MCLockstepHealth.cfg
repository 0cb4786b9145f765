SPECIFICATION Spec
CONSTANTS
  Period = 6
  Micro = 3
  PlantTime <- MCPlantTime
  PublishDiv = 3
  MaxExchanges = 7
  MaxTimeouts = 2
INVARIANT FinalStateInResponse
CHECK_DEADLOCK FALSE
