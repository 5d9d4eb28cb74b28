SPECIFICATION LiveSpec
CONSTANTS
  entry = entry
  exit = exit
  r1 = r1
  r2 = r2
  r3 = r3
  Start = entry
  End = exit
  Regions <- MCRegions
  NumValues = 3
  MaxArgs = 2
  Shapes <- MCShapes
  ProgramsOf <- MCProgramsOf
INVARIANT ScheduleIsLegal
INVARIANT LeftOut
INVARIANT IntervalsHoldUses
INVARIANT IntervalsHoldLives
INVARIANT RecalcIsStable
