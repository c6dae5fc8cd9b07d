SPECIFICATION Spec
CONSTANTS
  Length = 4
  Values = {1, 2, 3}
  SetIndexes = {0, 1, 2, 4, 5}
PROPERTIES ImplementsDeque SetReturns
