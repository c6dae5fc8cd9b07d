SPECIFICATION Spec
CONSTANTS
  TimeMod = 5
  TicksPerLoop = 1
  HoldTimeout = 2
  NumLevels = 1
  UpdatePeriod = 1
  Commands <- RenewedCommands
  Duties = {120}
  Velocities = {2000}
  Linears = {100}
  Angulars <- BothTurns
  Durations = {2}
  BatteryReadings = {800}
PROPERTIES TimedRunEnds
