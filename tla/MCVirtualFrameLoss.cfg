SPECIFICATION Spec
CONSTANTS
  PageId = {p1, p2, p3, p4}
  NULL_SLOT = NULL_SLOT
  Unwritten = Unwritten
  FRAME_LIMIT = 1
  DISK_START = 10
  SLOT_SIZE = 3
  Value = {x}
  Zero = Zero
  Junk = Junk
  PinLimit = 0
  ArrLengths = {}
  MaxSharers = 1
  MaxMapped = 0
  MaxDeletes = 3
SYMMETRY PageSymmetry
INVARIANT DataKept
