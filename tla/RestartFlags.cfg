SPECIFICATION Spec
CONSTANTS
  TimeMod = 5
  TicksPerLoop = 1
  HoldTimeout = 2
  NumLevels = 1
  UpdatePeriod = 1
  Commands = {"V", "~"}
  Duties = {40}
  Velocities = {2000}
  Linears = {100}
  Angulars = {1}
  Durations = {2}
  BatteryReadings = {800}
INVARIANT RestartResetsAllFlags
