SPECIFICATION Spec
CONSTANTS
  Holder = {h1, h2, h3}
  None = None
  MaxRequest = 3
  MaxSize = 14
SYMMETRY HolderSymmetry
INVARIANTS
  OccupiedExactly
  SearchEnds
  GrowsForWantOfRun
  FindsAsTheLoop
PROPERTY ImplementsRuns
