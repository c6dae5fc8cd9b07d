SPECIFICATION Spec
CONSTANTS
  Goals = {0, 2}
  MaxOrders = 2
  MaxSlips = 1
  MaxRoll = 2
  IntHalf = 3
INVARIANTS Telescopes NotPastGoal
PROPERTIES NeverStopsShort DistanceEnds
