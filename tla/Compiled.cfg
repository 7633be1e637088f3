CONSTANTS
  MaxFin = 2
  NaN = NaN
  R_COUNT = 2
  UpdatesMod = 4
  Graphs <- MCGraphs
  Programs <- MCPrograms
  Seeds <- MCSeeds
  Leftovers <- MCLeftovers
SPECIFICATION FairSpec
CHECK_DEADLOCK FALSE
PROPERTY FinishTogether
INVARIANTS
  TypeOK
  PortableCompiles
  InLockstep
  SameOutcome
