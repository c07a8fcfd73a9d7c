SPECIFICATION Spec
CONSTANTS
  PageId = {p1, p2, p3, p4}
  NULL_SLOT = NULL_SLOT
  Unwritten = Unwritten
  FRAME_LIMIT = 2
  DISK_START = 10
  SLOT_SIZE = 3
  Value = {x}
  Zero = Zero
  Junk = Junk
  PinLimit = 0
  ArrLengths = {}
  MaxSharers = 2
  MaxMapped = 1
  MaxDeletes = 0
SYMMETRY PageSymmetry
INVARIANTS
  FrameHasItsPages
  MappedTracksCap
  WritableMeansDirty
  DataKept
  UnwrittenReadsZero
