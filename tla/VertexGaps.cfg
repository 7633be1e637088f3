CONSTANTS
  MaxFin = 2
  NaN = NaN
  Ids <- MCIds
  Weights <- MCWeights
  Leftover <- MCLeftover
  NoWeight = NoWeight
  MaxEdges = 3
SPECIFICATION Spec
CHECK_DEADLOCK FALSE
INVARIANT CountCoversVertices
