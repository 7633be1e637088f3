CONSTANTS
  MaxFin = 3
  NaN = NaN
  R_COUNT = 3
  UpdatesMod = 4
  Graphs <- MCGraphs
  Programs <- MCPrograms
  Seeds <- MCSeeds
SPECIFICATION SpecHistory
INVARIANTS
  TypeOK
  IteratorCurrent
  NoMarkOutlivesRun
PROPERTIES
  ReadsPreviousSuperstep
  WritesAreLocal
  ImplementsBSP
  ConvergenceExactLater
  InactiveSkippedLater
