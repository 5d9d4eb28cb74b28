SPECIFICATION LoopSpec
CONSTANTS
  entry = entry
  exit = exit
  r1 = r1
  r2 = r2
  r3 = r3
  Start = entry
  End = exit
  Regions <- MCRegions
SYMMETRY Symmetry
INVARIANT HeadersAreNew
