SPECIFICATION Spec
CONSTANTS
  a = a
  b = b
  c = c
  Null = Null
  Nodes <- MCNodes
  Pinned <- MCPinned
  MaxOperands = 1
  MaxUses = 2
SYMMETRY Symmetry
INVARIANT TypeOK
INVARIANT OperandsAreLive
INVARIANT UsesAreRegistered
PROPERTY ValuesSpec
CHECK_DEADLOCK FALSE
