SPECIFICATION Spec
CONSTANTS
  Size <- MCSize
  Capacity = 3
  MaxWaiting = 2
  MaxOpenings = 2
  Reports = {"time_float_send", "loop_timer", "low_battery"}
INVARIANTS ReplyInStep
PROPERTIES HalvesAdjacent RequestsAnswered ImplementsReplies
