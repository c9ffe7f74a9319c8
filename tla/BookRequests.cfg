CONSTANTS
  Prices = {1, 2}
  Quantities = {1, 2}
  AmendKinds = {"reprice", "shrink", "grow", "growAlone"}
  PoolReserve = 3
  SpaceReserve = 3
  MaxOrders = 3
  MaxEntries = 3
SPECIFICATION Spec
INVARIANTS QueuedExactlyWhenOpen HeadNeverPassesQueued NoGhostEntries NoOverfill BoughtEqualsSold DepthMatchesOpenOrders
PROPERTIES ClosedOrdersAreFinal NewLevelUncrosses PriceTimePriority
CHECK_DEADLOCK FALSE
