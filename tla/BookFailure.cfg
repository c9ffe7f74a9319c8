CONSTANTS
  Prices = {1, 2}
  Quantities = {1, 2}
  AmendKinds = {"reprice", "grow"}
  PoolReserve = 3
  SpaceReserve = 3
  LevelReserve = 1
  MaxFailures = 1
  MaxOrders = 3
  MaxEntries = 2
SPECIFICATION FailureSpec
INVARIANTS FailureContained NoOverfill
PROPERTIES MatchingTerminates
CHECK_DEADLOCK FALSE
