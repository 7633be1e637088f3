CONSTANTS
  MaxFin = 3
  NaN = NaN
  R_COUNT = 2
  UpdatesMod = 8
  Graphs <- MCGraphs
  Programs <- MCPrograms
  Seeds <- MCSeeds
SPECIFICATION SpecLabels
CHECK_DEADLOCK FALSE
INVARIANT LeastLabelReached
PROPERTY RunReturns
