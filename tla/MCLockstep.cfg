SPECIFICATION Spec
CONSTANTS
  Period = 6
  Micro = 3
  PlantTime <- MCPlantTime
  PublishDiv = 3
  MaxExchanges = 7
  MaxTimeouts = 2
INVARIANTS
  TypeOK
  AnswerIsToTheRequest
  ClockFollowsHost
  HealthLag
  FlightStateOfOnePass
PROPERTY RequestsAreAnswered
CHECK_DEADLOCK FALSE
