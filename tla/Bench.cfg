CONSTANTS
  Prices = {600, 700, 800, 900, 1000, 1100, 1200, 1300, 1400,
            9995, 9996, 9997, 9998, 9999, 10001, 10002, 10003, 10004, 10005}
  Quantities = {200, 1000}
  AmendKinds = {}
  PoolReserve = 10
  SpaceReserve = 21
  NumOrders <- MCNumOrders
  MaxOrders = 20
  MaxEntries = 20
SPECIFICATION BenchSpec
INVARIANTS MatchRate NoFault
