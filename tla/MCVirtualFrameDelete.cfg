SPECIFICATION Spec
CONSTANTS
  PageId = {p1, p2, p3}
  NULL_SLOT = NULL_SLOT
  Unwritten = Unwritten
  FRAME_LIMIT = 1
  DISK_START = 10
  SLOT_SIZE = 3
  Value = {x, y}
  Zero = Zero
  Junk = Junk
  PinLimit = 0
  ArrLengths = {}
  MaxSharers = 2
  MaxMapped = 1
  MaxDeletes = 2
SYMMETRY PageValueSymmetry
INVARIANTS
  FrameHasItsPages
  DataKept
  BlockExclusive
  NeverRefused
