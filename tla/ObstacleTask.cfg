SPECIFICATION TaskSpec
CONSTANTS
  TimeMod = 4
  TicksPerLoop = 2
  HoldTimeout = 4
  NumLevels = 2
  UpdatePeriod = 1
  TaskPeriods = {1, 2}
INVARIANTS HoldIsWhole VelocityFitsState
PROPERTIES SteersAway ClearRoadEndsStraight ObstacleEndsTurning
