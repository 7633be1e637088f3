CONSTANTS
  MaxFin = 3
  NaN = NaN
  R_COUNT = 1
  UpdatesMod = 4
  Graphs <- MCGraphs
  Programs <- MCPrograms
  Seeds <- MCSeeds
  Breaks <- MCBreaks
SPECIFICATION SpecDebug
CHECK_DEADLOCK FALSE
INVARIANT EachInstructionOnce
PROPERTY SessionIsLocal
