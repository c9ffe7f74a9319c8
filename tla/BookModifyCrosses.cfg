CONSTANTS
  Prices = {1, 2}
  Quantities = {1}
  AmendKinds = {"reprice"}
  PoolReserve = 3
  SpaceReserve = 3
  MaxOrders = 3
  MaxEntries = 3
SPECIFICATION Spec
INVARIANTS NotCrossed
