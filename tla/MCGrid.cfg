SPECIFICATION Spec
CONSTANTS
  Residue <- MCResidue
  Directions <- MCDirections
  Squint <- MCSquint
  Spreading <- MCSpreading
  Served <- MCServed
  Requests <- MCRequests
  MaxBatch = 5
  MaxPoints = 6
  MaxRings = 2
  ParallelFrom = 4
  Sentinel = 999
INVARIANTS
  TypeOK
  ResultsPlaced
  SummaryHonest
  CheckedFirst
CHECK_DEADLOCK FALSE
