SPECIFICATION Spec
CONSTANTS
  Item = {1, 2, 3, 4}
  Prio <- MCPrio
  Unset = Unset
  MaxItems = 6
INVARIANTS
  HeapOrder
PROPERTY ImplementsBag
