SPECIFICATION Spec
CONSTANTS
  PageId = {p1, p2, p3, p4}
  NULL_SLOT = NULL_SLOT
  Unwritten = Unwritten
  FRAME_LIMIT = 3
  DISK_START = 10
  SLOT_SIZE = 3
  Value = {}
  Zero = Junk
  Junk = Junk
  PinLimit = 2
  ArrLengths = {2}
  MaxSharers = 2
  MaxMapped = 0
  MaxDeletes = 0
SYMMETRY PageSymmetry
INVARIANTS
  PinnedStays
  VictimExists
  QueuedFramesFree
