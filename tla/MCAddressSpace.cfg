SPECIFICATION SpaceSpec
CONSTANTS
  Empty = Empty
  NULL = NULL
  PAGE = 2
  WORD = 34
  MMAP_START = 12
  HEAP_STEP = 4
  STACK_STEP = 4
  PAGE_SLOT = 2
  PageId = {p1, p2, p3}
  Sizes = {2, 4}
  Touched = {12, 15, 16, 18}
  MaxMmaps = 2
  MaxPages = 10
SYMMETRY PageSymmetry
INVARIANTS
  PagesAccounted
  TablesFormTree
PROPERTY ImplementsMap
