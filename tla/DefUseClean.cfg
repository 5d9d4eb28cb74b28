SPECIFICATION Spec
CONSTANTS
  a = a
  b = b
  c = c
  Null = Null
  Nodes <- MCNodes
  Pinned <- MCPinned
  MaxOperands = 1
  MaxUses = 2
INVARIANT ReplaceFindsSlot
CHECK_DEADLOCK FALSE
