CONSTANTS
  MaxFin = 2
  NaN = NaN
  R_COUNT = 2
  UpdatesMod = 4
  Graphs <- MCGraphs
  Programs <- MCPrograms
  Seeds <- MCSeeds
SPECIFICATION SpecOrder
CHECK_DEADLOCK FALSE
INVARIANT Isolated
PROPERTY OrderDoesNotMatter
