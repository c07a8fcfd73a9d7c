SPECIFICATION Spec
CONSTANTS
  SLOT_SIZE = 3
  MaxSize = 12
  MaxOccupied = 7
  MaxLost = 3
  BitPosition <- MCBitPosition
INVARIANTS
  HeldByOne
  BitsKept
  AllocServes
