SPECIFICATION Spec
CONSTANTS
  Residue <- MCResidue
  Directions <- MCDirections
  Squint <- MCSquint
  Spreading <- MCSpreading
  Served <- MCServed
  Requests <- Aimed
  MaxBatch = 5
  MaxPoints = 6
  MaxRings = 2
  ParallelFrom = 4
  Sentinel = 999
INVARIANT SteeredAsAimed
CHECK_DEADLOCK FALSE
