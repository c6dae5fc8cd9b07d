SPECIFICATION Spec
CONSTANTS
  TimeMod = 3
  TicksPerLoop = 1
  HoldTimeout = 2
  NumLevels = 1
  UpdatePeriod = 1
  Commands <- AvoidCommands
  Duties = {120}
  Velocities = {2000}
  Linears = {100}
  Angulars = {0}
  Durations = {1}
  BatteryReadings = {800}
INVARIANTS OneDriver RedLedTruthful AvoidanceUndisturbed
