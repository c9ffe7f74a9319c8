CONSTANTS
  Books = {b1, b2, b3}
  BlockSize = 3
  Word = 16
  MaxReserved = 22
SPECIFICATION Spec
INVARIANTS TypeOK UniqueIds NoReservedId BlocksDisjoint
CHECK_DEADLOCK FALSE
