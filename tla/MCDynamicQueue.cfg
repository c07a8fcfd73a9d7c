SPECIFICATION Spec
CONSTANTS
  Item = {a, b}
  Blank = Blank
  MaxItems = 5
INVARIANTS
  QueuesWellFormed
  FilterReturnsPassing
PROPERTY ImplementsFifo
