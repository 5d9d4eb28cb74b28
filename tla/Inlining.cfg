SPECIFICATION InlinedSpec
CONSTANTS
  F = F
  G = G
  H = H
  NumNodes = 120
  Null = Null
  Nodes <- MCNodes
  Functions <- MCFunctions
  Programs <- MCPrograms
  Fuel = 30
INVARIANT EdgesAgree
INVARIANT StopsAreKnown
INVARIANT OneLevelIsGone
INVARIANT StaysVerified
INVARIANT MeaningKept
