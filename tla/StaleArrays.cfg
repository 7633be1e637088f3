CONSTANTS
  MaxFin = 2
  NaN = NaN
  R_COUNT = 3
  UpdatesMod = 4
  NoKernel = NoKernel
  NoRun = NoRun
  Graphs <- MCGraphs
  Programs <- MCPrograms
  Seeds <- MCSeeds
  ConfigFiles <- MCConfigFiles
  Leftovers <- MCLeftovers
SPECIFICATION SpecRuns
CHECK_DEADLOCK FALSE
INVARIANT WorksOnRuntime
