CONSTANTS
  Capacity = 3
  Items = {a, b}
  Nothing = Nothing
  MaxPushes = 7
SPECIFICATION FairSpec
INVARIANTS TypeOK RaceFree DeliveredInOrder WithinCapacity IndexOrder SlotsHoldPushed
PROPERTIES ImplementsFIFO AllDelivered
