SPECIFICATION Spec
CONSTANTS
  Period = 6
  Micro = 3
  PlantTime <- MCPlantTime
  PublishDiv = 3
  MaxExchanges = 7
  MaxTimeouts = 2
PROPERTY EveryTickEmits
CHECK_DEADLOCK FALSE
