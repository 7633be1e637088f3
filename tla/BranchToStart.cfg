CONSTANTS
  MaxFin = 2
  NaN = NaN
  R_COUNT = 2
  Labels <- MCLabels
  Lines <- MCLines
  MaxLines = 4
  HalfField = 2
  HalfCount = 4
  Misread <- MCMisread
SPECIFICATION Spec
CHECK_DEADLOCK FALSE
INVARIANT BranchesLand
