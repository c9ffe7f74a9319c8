CONSTANTS
  Prices = {1, 2}
  Quantities = {1, 2}
  AmendKinds = {"shrink", "growAlone"}
  PoolReserve = 3
  SpaceReserve = 4
  MaxOrders = 4
  MaxEntries = 3
SPECIFICATION Spec
INVARIANTS NotCrossed PointersStableWithinPool
CHECK_DEADLOCK FALSE
