CONSTANTS
  LevelQuantities = {0, 1, 2}
  GrowAlone = FALSE
  MaxOrders = 3
  MaxEntries = 5
SPECIFICATION Spec
INVARIANTS SameQueue OnlyFilledDangle
CHECK_DEADLOCK FALSE
