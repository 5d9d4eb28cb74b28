SPECIFICATION RewriteSpec
CONSTANTS
  Width = 2
  MaxOps = 3
  Literals <- MCLiterals
INVARIANT AssertionsHold
INVARIANT AllFolded
INVARIANT OperandsArePresent
PROPERTY MeaningKept
PROPERTY Returns
PROPERTY RulesKeepMeaning
CHECK_DEADLOCK FALSE
