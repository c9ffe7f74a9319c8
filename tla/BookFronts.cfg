CONSTANTS
  Prices = {1, 2}
  Quantities = {0, 1, 2}
  AmendKinds = {"reprice", "shrink", "grow"}
  PoolReserve = 4
  SpaceReserve = 4
  MaxOrders = 3
  MaxEntries = 3
SPECIFICATION FairSpec
INVARIANTS TypeOK FrontIsFirstQueued NoFault TradesFillOrders
PROPERTIES MatchingTerminates
