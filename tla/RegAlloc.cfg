SPECIFICATION Spec
CONSTANTS
  v1 = v1
  v2 = v2
  v3 = v3
  v4 = v4
  NoValue = NoValue
  Values <- MCValues
  NumRegs = 2
  MaxPoint = 3
  Intervals <- MCIntervals
SYMMETRY Symmetry
INVARIANT TypeOK
INVARIANT NoSharedRegister
INVARIANT RegistersPartitioned
INVARIANT SpillsUnderPressure
PROPERTY AllocationSpec
