SPECIFICATION Spec
CONSTANTS
  TimeMod = 5
  TicksPerLoop = 1
  HoldTimeout = 2
  NumLevels = 1
  UpdatePeriod = 1
  Commands <- AllButAvoidance
  Duties = {120}
  Velocities = {2000}
  Linears = {100, 500}
  Angulars = {1}
  Durations <- MixedDurations
  BatteryReadings = {320, 800}
INVARIANTS TypeOK HaltSticks NoForeignDeadline DeadlineKept
