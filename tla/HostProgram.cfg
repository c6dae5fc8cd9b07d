SPECIFICATION Spec
CONSTANTS
  MaxConnects = 2
  MaxEvents = 1
  MaxActivity = 2
INVARIANTS ConnectionServed NoRateForgotten PadAttached NoMixedCommand
CHECK_DEADLOCK FALSE
PROPERTIES WindowResponds ProgramEnds RatesReachDevice
