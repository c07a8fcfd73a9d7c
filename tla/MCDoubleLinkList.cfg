SPECIFICATION ListSpec
CONSTANTS
  Empty = Empty
  Data = {x, y}
  MaxNodes = 3
INVARIANTS
  SlotsCounted
  ListsWellFormed
  CandidateStays
PROPERTY ImplementsPageLists
