SPECIFICATION TidySpec
CONSTANTS
  a = a
  b = b
  c = c
  Null = Null
  Nodes <- MCNodes
  Pinned <- MCPinned
  MaxOperands = 2
  MaxUses = 0
INVARIANT UsersAreExact
INVARIANT ReplaceFindsSlot
PROPERTY ValuesSpec
PROPERTY CallsReturn
