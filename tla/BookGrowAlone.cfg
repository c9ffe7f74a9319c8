CONSTANTS
  Prices = {1}
  Quantities = {1, 2}
  AmendKinds = {"growAlone"}
  PoolReserve = 4
  SpaceReserve = 4
  MaxOrders = 4
  MaxEntries = 4
SPECIFICATION Spec
INVARIANTS FrontIsFirstQueued
