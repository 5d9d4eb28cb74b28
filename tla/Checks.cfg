SPECIFICATION CheckSpec
CONSTANTS
  entry = entry
  exit = exit
  r1 = r1
  r2 = r2
  r3 = r3
  r4 = r4
  r5 = r5
  object = object
  NoRegion = NoRegion
  Start = entry
  End = exit
  Regions <- MCRegions
  Graphs <- MCGraphs
INVARIANT RemovedAreImplied
INVARIANT NoneIsImplied
INVARIANT FlowIsKept
INVARIANT CrashesAreKnown
