SPECIFICATION Spec
CONSTANTS
  Empty = Empty
  NULL = NULL
  PAGE = 2
  WORD = 40
  MMAP_START = 12
  HEAP_STEP = 4
  STACK_STEP = 4
  Layout <- MCLayout
  Touched = {1, 3, 5, 6, 8, 20}
  Sizes = {0, 2, 3}
  HeapEnd = 7
  StackEnd = 6
  MaxMmaps = 2
  MaxPages = 10
INVARIANTS
  PagesMatchRegions
  GrantedStays
  MunmapFinds
